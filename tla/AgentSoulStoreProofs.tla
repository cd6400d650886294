------------------------ MODULE AgentSoulStoreProofs ------------------------
(***************************************************************************)
(* AgentSoulStore for every set of calls and documents and every retry     *)
(* limit: its invariants, and that it implements SoulLifecycle; and, at    *)
(* the end, SoulDocument for documents of any weight.                      *)
(*                                                                         *)
(* The argument: a record version names one row (VersionNamesRow), so a    *)
(* transaction whose ConditionVersion holds was computed from the very row *)
(* it replaces; it is then one atomic step of SoulLifecycle, and every     *)
(* other step leaves the row and its history alone.  In SoulLifecycle no   *)
(* event is ahead of the row in version and state, so the key of the next  *)
(* one is free (LifecycleInv).                                             *)
(* The answers follow from what a call has written: a call that has        *)
(* committed finds what it asked for among its history rows (AskedInv,     *)
(* CreatedInv), it writes one soul_version at most (AuthoredInv), and a    *)
(* seed writes nothing but the declaration it was given (SeedInv).         *)
(***************************************************************************)
EXTENDS AgentSoulStore, SoulDocument, TLAPS

\* What the label of a call says about its operation.
ControlInv ==
  \A c \in Calls :
    /\ pc[c] = "seedLoad" => req[c].op = "seedPublished"
    /\ pc[c] \in {"create", "readCreated"} => req[c].op \in {"seedPublished", "seedDraft"}
    /\ pc[c] = "readSeed" => req[c].op = "seedDraft"
    /\ pc[c] \in {"load", "write"} => req[c].op # "seedDraft"

\* The stored row is the newest of its values.
NewestInv ==
  /\ soulRow \in values
  /\ \A r \in values : r # NoRow =>
       /\ soulRow # NoRow
       /\ 1 <= r.version /\ r.version <= soulRow.version
       /\ r.version = soulRow.version => r = soulRow

\* A pending write is based on a value the row has had; a transition's base is
\* a document in the state the transition starts from.
SeenInv ==
  \A c \in Calls : pc[c] = "write" =>
    /\ seen[c] \in values
    /\ req[c].op # "upsert" => /\ seen[c] # NoRow
                               /\ ~isLegacyOpaqueSoul(seen[c])
                               /\ seen[c].state = TransitionFrom(req[c].op)

StoreInv == TypeOK /\ ControlInv /\ NewestInv /\ SeenInv /\ RowsReadable /\ VersionNamesRow

-----------------------------------------------------------------------------
\* The rows and history rows that calls write are well formed.
LEMMA FirstDraftTypes ==
  ASSUME NEW c \in Calls, req[c].doc \in Documents
  PROVE  /\ FirstDraft(c) \in Row
         /\ historyFor(FirstDraft(c), c) \in HistoryRow
  BY DEF FirstDraft, historyFor, Row, HistoryRow, Stamped, stampSoulDocument,
         Subjects, States

LEMMA NextDraftTypes ==
  ASSUME NEW c \in Calls, req[c].doc \in Documents, soulRow \in Row, seen[c] \in Row
  PROVE  NextDraft(c) \in Row /\ UpsertHistory(c) \in HistoryRow
  <1>1. NextSoulVersion(seen[c]) \in Nat /\ seen[c].version + 1 \in Nat
        /\ soulRow.version + 1 \in Nat
    BY DEF NextSoulVersion, EffectiveSoulVersion, Row
  <1> HIDE DEF NextSoulVersion
  <1> QED BY <1>1 DEF NextDraft, UpsertHistory, historyFor, Row, HistoryRow, Stamped,
                      stampSoulDocument, Subjects, States

LEMMA TransitionedTypes ==
  ASSUME NEW c \in Calls, soulRow \in Row, seen[c] \in Row
  PROVE  Transitioned(c) \in Row /\ TransitionHistory(c) \in HistoryRow
  <1>1. /\ EffectiveSoulVersion(seen[c]) \in Nat /\ seen[c].version + 1 \in Nat
        /\ soulRow.version + 1 \in Nat /\ TransitionTo(req[c].op) \in States
    BY DEF EffectiveSoulVersion, Row, TransitionTo, States
  <1> HIDE DEF TransitionTo
  <1>2. TransitionDocument(c) \in Stamped
    BY <1>1 DEF TransitionDocument, stampSoulDocument, Stamped, Row
  <1> QED BY <1>1, <1>2 DEF Transitioned, TransitionHistory, historyFor, Row, HistoryRow, Subjects

-----------------------------------------------------------------------------
\* A pre-v2 row is a row with a positive version and no document.
LEMMA LegacyRowTypes ==
  ASSUME NEW r \in LegacyRows
  PROVE  r \in Row /\ r.version >= 1 /\ r.soulVersion = 0 /\ r.json = NoDocument
  <1>1. r = [version |-> r.version, soulVersion |-> 0, state |-> r.state,
             content |-> r.content, by |-> r.by, json |-> NoDocument]
    BY DEF LegacyRows
  <1>2. /\ r.version \in Nat \ {0} /\ r.state \in States /\ r.content \in Documents
        /\ r.by \in Subjects
    BY LegacyAssumption DEF LegacyRows, Subjects
  <1> QED BY <1>1, <1>2 DEF Row

\* Initially the only value of the row is the stored one.
LEMMA InitStoreInv == Init => StoreInv
  <1> SUFFICES ASSUME Init PROVE StoreInv
    OBVIOUS
  <1>1. \A r \in LegacyRows :
          r \in Row /\ r.version >= 1 /\ r.soulVersion = 0 /\ r.json = NoDocument
    BY LegacyRowTypes
  <1>2. NoReply \in Replies
    BY DEF NoReply, Replies, Statuses
  <1>3. [op |-> "publish", doc |-> NoDocument] \in Requests
    BY DEF Requests
  <1>4. TypeOK
    BY <1>1, <1>2, <1>3, RetryLimitAssumption DEF Init, TypeOK, Labels
  <1>5. ControlInv /\ SeenInv
    BY DEF Init, ControlInv, SeenInv
  <1>6. NewestInv /\ RowsReadable /\ VersionNamesRow
    BY <1>1 DEF Init, NewestInv, RowsReadable, VersionNamesRow, Row
  <1> QED BY <1>4, <1>5, <1>6 DEF StoreInv
-----------------------------------------------------------------------------
\* The control moves shared by the actions keep every local well typed.
LEMMA ReturnTypes ==
  ASSUME TypeOK, NEW c \in Calls, NEW r \in Row, Return(c, r)
  PROVE  pc' \in [Calls -> Labels] /\ reply' \in [Calls -> Replies]
  BY DEF Return, Goto, TypeOK, Labels, Replies, Statuses

LEMMA FailTypes ==
  ASSUME TypeOK, NEW c \in Calls, NEW status \in Statuses, Fail(c, status)
  PROVE  pc' \in [Calls -> Labels] /\ reply' \in [Calls -> Replies]
  <1>1. [NoReply EXCEPT !.status = status] \in Replies
    BY DEF NoReply, Replies
  <1> QED BY <1>1 DEF Fail, Goto, TypeOK, Labels

LEMMA SeedRetryTypes ==
  ASSUME TypeOK, NEW c \in Calls, SeedRetry(c)
  PROVE  /\ pc' \in [Calls -> Labels] /\ reply' \in [Calls -> Replies]
         /\ seedAttempt' \in [Calls -> 0..RetryLimit - 1]
         /\ pc' = [pc EXCEPT ![c] = pc'[c]] /\ pc'[c] \in {"seedLoad", "done"}
  <1> USE RetryLimitAssumption
  <1>1. CASE seedAttempt[c] + 1 < RetryLimit
    BY <1>1 DEF SeedRetry, Goto, TypeOK, Labels
  <1>2. CASE ~(seedAttempt[c] + 1 < RetryLimit)
    <2>1. Fail(c, "conflict") /\ UNCHANGED seedAttempt
      BY <1>2 DEF SeedRetry
    <2>2. pc' \in [Calls -> Labels] /\ reply' \in [Calls -> Replies]
      BY <2>1, FailTypes DEF Statuses
    <2> QED BY <2>1, <2>2 DEF TypeOK, Fail, Goto
  <1> QED BY <1>1, <1>2

LEMMA ConflictTypes ==
  ASSUME TypeOK, NEW c \in Calls, Conflict(c)
  PROVE  /\ pc' \in [Calls -> Labels] /\ reply' \in [Calls -> Replies]
         /\ seedAttempt' \in [Calls -> 0..RetryLimit - 1]
         /\ pc' = [pc EXCEPT ![c] = pc'[c]] /\ pc'[c] \in {"seedLoad", "done"}
         /\ pc'[c] = "seedLoad" => req[c].op = "seedPublished"
  <1>1. CASE req[c].op = "seedPublished"
    BY <1>1, SeedRetryTypes DEF Conflict
  <1>2. CASE req[c].op # "seedPublished"
    <2>1. Fail(c, "conflict") /\ UNCHANGED seedAttempt
      BY <1>2 DEF Conflict
    <2>2. pc' \in [Calls -> Labels] /\ reply' \in [Calls -> Replies]
      BY <2>1, FailTypes DEF Statuses
    <2> QED BY <2>1, <2>2 DEF TypeOK, Fail, Goto
  <1> QED BY <1>1, <1>2

LEMMA RetryTypes ==
  ASSUME TypeOK, NEW c \in Calls, Retry(c)
  PROVE  /\ pc' \in [Calls -> Labels] /\ reply' \in [Calls -> Replies]
         /\ seedAttempt' \in [Calls -> 0..RetryLimit - 1]
         /\ attempt' \in [Calls -> 0..RetryLimit - 1]
         /\ pc' = [pc EXCEPT ![c] = pc'[c]] /\ pc'[c] \in {"load", "seedLoad", "done"}
         /\ pc'[c] = "seedLoad" => req[c].op = "seedPublished"
  <1> USE RetryLimitAssumption
  <1>1. CASE attempt[c] + 1 < RetryLimit
    BY <1>1 DEF Retry, Goto, TypeOK, Labels
  <1>2. CASE ~(attempt[c] + 1 < RetryLimit)
    BY <1>2, ConflictTypes DEF Retry, TypeOK
  <1> QED BY <1>1, <1>2

LEMMA SeedDecideTypes ==
  ASSUME TypeOK, NEW c \in Calls, NEW r \in Row, SeedDecide(c, r)
  PROVE  /\ pc' \in [Calls -> Labels] /\ reply' \in [Calls -> Replies]
         /\ expected' \in [Calls -> Nat] /\ attempt' \in [Calls -> 0..RetryLimit - 1]
         /\ pc' = [pc EXCEPT ![c] = pc'[c]] /\ pc'[c] \in {"load", "done"}
  <1> USE RetryLimitAssumption
  <1>1. CASE Fail(c, "conflict") /\ UNCHANGED <<expected, attempt>>
    BY <1>1, FailTypes DEF Statuses, TypeOK, Fail, Goto
  <1>2. CASE Return(c, r) /\ UNCHANGED <<expected, attempt>>
    BY <1>2, ReturnTypes DEF TypeOK, Return, Goto
  <1>3. CASE /\ expected' = [expected EXCEPT ![c] = MatchedVersion(r)]
             /\ attempt' = [attempt EXCEPT ![c] = 0]
             /\ Goto(c, "load") /\ UNCHANGED reply
    BY <1>3 DEF TypeOK, Goto, Labels, Row, MatchedVersion
  <1>4. CASE Fail(c, "transition") /\ UNCHANGED <<expected, attempt>>
    BY <1>4, FailTypes DEF Statuses, TypeOK, Fail, Goto
  <1> QED BY <1>1, <1>2, <1>3, <1>4 DEF SeedDecide
-----------------------------------------------------------------------------
\* Types and control are kept by every step.
LEMMA StepTypes == StoreInv /\ [Next]_vars => TypeOK' /\ ControlInv'
  <1> SUFFICES ASSUME StoreInv, [Next]_vars PROVE TypeOK' /\ ControlInv'
    OBVIOUS
  <1> USE DEF storeVars
  <1>0. TypeOK /\ ControlInv /\ SeenInv /\ NewestInv
    BY DEF StoreInv
  <1>a. \A r \in values : r # NoRow => r \in Row
    BY <1>0 DEF TypeOK
  <1>b. \A r \in Readable : r # NoRow => r \in Row
    BY <1>0 DEF TypeOK, Readable
  <1>c. \A c \in Calls : req[c] \in Requests
    BY <1>0 DEF TypeOK
  <1>1. ASSUME NEW c \in Calls, Begin(c) PROVE TypeOK' /\ ControlInv'
    <2>1. PICK q \in Requests :
            /\ req' = [req EXCEPT ![c] = q]
            /\ pc' = [pc EXCEPT ![c] = CASE q.op = "seedPublished" -> "seedLoad"
                                         [] q.op = "seedDraft"     -> "create"
                                         [] OTHER                  -> "load"]
      BY <1>1 DEF Begin, Goto
    <2>2. TypeOK'
      BY <1>0, <1>1, <2>1 DEF TypeOK, Begin, Labels
    <2>3. ControlInv'
      BY <1>0, <1>1, <2>1 DEF TypeOK, ControlInv, Begin
    <2> QED BY <2>2, <2>3
  <1>2. ASSUME NEW c \in Calls, LoadForUpsert(c) PROVE TypeOK' /\ ControlInv'
    <2>1. PICK r \in Readable : seen' = [seen EXCEPT ![c] = r]
      BY <1>2 DEF LoadForUpsert
    <2>2. TypeOK'
      BY <1>0, <1>2, <1>b, <2>1 DEF TypeOK, LoadForUpsert, Goto, Labels
    <2>3. ControlInv'
      BY <1>0, <1>2 DEF TypeOK, ControlInv, LoadForUpsert, Goto
    <2> QED BY <2>2, <2>3
  <1>3. ASSUME NEW c \in Calls, LoadForTransition(c) PROVE TypeOK' /\ ControlInv'
    <2>1. /\ pc[c] = "load"
          /\ req[c].op # "upsert"
          /\ UNCHANGED <<soulRow, values, history, req, attempt, expected, created>>
      BY <1>3 DEF LoadForTransition
    <2>2. /\ pc' \in [Calls -> Labels] /\ reply' \in [Calls -> Replies]
          /\ seedAttempt' \in [Calls -> 0..RetryLimit - 1]
          /\ seen' \in [Calls -> {NoRow} \cup Row]
          /\ pc' = [pc EXCEPT ![c] = pc'[c]]
          /\ pc'[c] \in {"seedLoad", "write", "done"}
          /\ pc'[c] = "seedLoad" => req[c].op = "seedPublished"
      <3>1. PICK r \in Readable :
               \/ Fail(c, "notFound") /\ UNCHANGED <<seen, seedAttempt>>
               \/ Fail(c, "rewriteRequired") /\ UNCHANGED <<seen, seedAttempt>>
               \/ Fail(c, "transition") /\ UNCHANGED <<seen, seedAttempt>>
               \/ Conflict(c) /\ UNCHANGED seen
               \/ r # NoRow /\ Return(c, r) /\ UNCHANGED <<seen, seedAttempt>>
               \/ /\ r # NoRow /\ seen' = [seen EXCEPT ![c] = r]
                  /\ Goto(c, "write") /\ UNCHANGED <<reply, seedAttempt>>
        BY <1>3 DEF LoadForTransition
      <3>2. CASE /\ \/ Fail(c, "notFound")
                    \/ Fail(c, "rewriteRequired")
                    \/ Fail(c, "transition")
                 /\ UNCHANGED <<seen, seedAttempt>>
        BY <1>0, <3>2, FailTypes DEF TypeOK, Statuses, Fail, Goto
      <3>3. CASE Conflict(c) /\ UNCHANGED seen
        BY <1>0, <3>3, ConflictTypes DEF TypeOK
      <3>4. CASE r # NoRow /\ Return(c, r) /\ UNCHANGED <<seen, seedAttempt>>
        BY <1>0, <1>b, <3>4, ReturnTypes DEF TypeOK, Return, Goto
      <3>5. CASE /\ r # NoRow /\ seen' = [seen EXCEPT ![c] = r]
                 /\ Goto(c, "write") /\ UNCHANGED <<reply, seedAttempt>>
        BY <1>0, <1>b, <3>5 DEF TypeOK, Goto, Labels
      <3> QED BY <3>1, <3>2, <3>3, <3>4, <3>5
    <2>3. TypeOK'
      BY <1>0, <2>1, <2>2 DEF TypeOK
    <2>4. ControlInv'
      BY <1>0, <2>1, <2>2 DEF ControlInv, TypeOK
    <2> QED BY <2>3, <2>4
  <1>4. ASSUME NEW c \in Calls, WriteUpsert(c) PROVE TypeOK' /\ ControlInv'
    <2>1. /\ pc[c] = "write" /\ req[c].op = "upsert"
          /\ UNCHANGED <<req, expected, seen, created>>
          /\ req[c].doc \in Documents
      BY <1>4, <1>c DEF WriteUpsert, Requests
    <2>2. CASE /\ seen[c] = NoRow
               /\ Commit(FirstDraft(c), historyFor(FirstDraft(c), c))
               /\ Goto(c, "readBack")
               /\ UNCHANGED <<attempt, seedAttempt, reply>>
      <3>1. FirstDraft(c) \in Row /\ historyFor(FirstDraft(c), c) \in HistoryRow
        BY <2>1, FirstDraftTypes
      <3>2. TypeOK'
        BY <1>0, <2>1, <2>2, <3>1 DEF TypeOK, Commit, Goto, Labels
      <3>3. ControlInv'
        BY <1>0, <2>1, <2>2 DEF ControlInv, TypeOK, Goto
      <3> QED BY <3>2, <3>3
    <2>3. CASE /\ seen[c] # NoRow /\ CanRevise(c)
               /\ Commit(NextDraft(c), UpsertHistory(c))
               /\ Goto(c, "readBack")
               /\ UNCHANGED <<attempt, seedAttempt, reply>>
      <3>1. soulRow \in Row /\ seen[c] \in Row
        BY <1>0, <2>3 DEF TypeOK, CanRevise, VersionHolds
      <3>2. NextDraft(c) \in Row /\ UpsertHistory(c) \in HistoryRow
        BY <2>1, <3>1, NextDraftTypes
      <3>3. TypeOK'
        BY <1>0, <2>1, <2>3, <3>2 DEF TypeOK, Commit, Goto, Labels
      <3>4. ControlInv'
        BY <1>0, <2>1, <2>3 DEF ControlInv, TypeOK, Goto
      <3> QED BY <3>3, <3>4
    <2>4. CASE Retry(c) /\ UNCHANGED storeVars
      <3>1. TypeOK'
        BY <1>0, <2>1, <2>4, RetryTypes DEF TypeOK
      <3>2. ControlInv'
        BY <1>0, <2>1, <2>4, RetryTypes DEF ControlInv, TypeOK
      <3> QED BY <3>1, <3>2
    <2> QED BY <1>4, <2>2, <2>3, <2>4 DEF WriteUpsert
  <1>5. ASSUME NEW c \in Calls, WriteTransition(c) PROVE TypeOK' /\ ControlInv'
    <2>1. /\ pc[c] = "write" /\ req[c].op # "upsert" /\ req[c].op # "seedDraft"
          /\ UNCHANGED <<req, expected, seen, created>>
      BY <1>0, <1>5 DEF WriteTransition, ControlInv
    <2>2. CASE /\ CanTransition(c)
               /\ Commit(Transitioned(c), TransitionHistory(c))
               /\ Goto(c, "readBack")
               /\ UNCHANGED <<attempt, seedAttempt, reply>>
      <3>1. soulRow \in Row /\ seen[c] \in Row
        BY <1>0, <2>1, <2>2 DEF TypeOK, SeenInv, CanTransition, VersionHolds
      <3>2. Transitioned(c) \in Row /\ TransitionHistory(c) \in HistoryRow
        BY <3>1, TransitionedTypes
      <3>3. TypeOK'
        BY <1>0, <2>1, <2>2, <3>2 DEF TypeOK, Commit, Goto, Labels
      <3>4. ControlInv'
        BY <1>0, <2>1, <2>2 DEF ControlInv, TypeOK, Goto
      <3> QED BY <3>3, <3>4
    <2>3. CASE Retry(c) /\ UNCHANGED storeVars
      <3>1. TypeOK'
        BY <1>0, <2>1, <2>3, RetryTypes DEF TypeOK
      <3>2. ControlInv'
        BY <1>0, <2>1, <2>3, RetryTypes DEF ControlInv, TypeOK
      <3> QED BY <3>1, <3>2
    <2> QED BY <1>5, <2>2, <2>3 DEF WriteTransition
  <1>6. ASSUME NEW c \in Calls, SeedLoad(c) PROVE TypeOK' /\ ControlInv'
    <2>1. /\ pc[c] = "seedLoad" /\ req[c].op = "seedPublished"
          /\ UNCHANGED <<soulRow, values, history, req, seedAttempt, seen, created>>
      BY <1>0, <1>6 DEF SeedLoad, ControlInv
    <2>2. /\ pc' \in [Calls -> Labels] /\ reply' \in [Calls -> Replies]
          /\ expected' \in [Calls -> Nat] /\ attempt' \in [Calls -> 0..RetryLimit - 1]
          /\ pc' = [pc EXCEPT ![c] = pc'[c]] /\ pc'[c] \in {"create", "load", "done"}
      <3>1. PICK r \in Readable :
               \/ Goto(c, "create") /\ UNCHANGED <<expected, attempt, reply>>
               \/ Fail(c, "rewriteRequired") /\ UNCHANGED <<expected, attempt>>
               \/ r # NoRow /\ SeedDecide(c, r)
        BY <1>6 DEF SeedLoad
      <3>2. CASE Goto(c, "create") /\ UNCHANGED <<expected, attempt, reply>>
        BY <1>0, <3>2 DEF TypeOK, Goto, Labels
      <3>3. CASE Fail(c, "rewriteRequired") /\ UNCHANGED <<expected, attempt>>
        BY <1>0, <3>3, FailTypes DEF TypeOK, Statuses, Fail, Goto
      <3>4. CASE r # NoRow /\ SeedDecide(c, r)
        BY <1>0, <1>b, <3>4, SeedDecideTypes
      <3> QED BY <3>1, <3>2, <3>3, <3>4
    <2>3. TypeOK'
      BY <1>0, <2>1, <2>2 DEF TypeOK
    <2>4. ControlInv'
      BY <1>0, <2>1, <2>2 DEF ControlInv, TypeOK
    <2> QED BY <2>3, <2>4
  <1>7. ASSUME NEW c \in Calls, CreateInitialSoulDraft(c) PROVE TypeOK' /\ ControlInv'
    <2>1. /\ pc[c] = "create" /\ req[c].op \in {"seedPublished", "seedDraft"}
          /\ UNCHANGED <<req, attempt, expected, seen>>
          /\ req[c].doc \in Documents
      BY <1>0, <1>7, <1>c DEF CreateInitialSoulDraft, ControlInv, Requests
    <2>2. CASE /\ Commit(FirstDraft(c), historyFor(FirstDraft(c), c))
               /\ created' = [created EXCEPT ![c] = TRUE]
               /\ Goto(c, "readCreated")
               /\ UNCHANGED <<seedAttempt, reply>>
      <3>1. FirstDraft(c) \in Row /\ historyFor(FirstDraft(c), c) \in HistoryRow
        BY <2>1, FirstDraftTypes
      <3>2. TypeOK'
        BY <1>0, <2>1, <2>2, <3>1 DEF TypeOK, Commit, Goto, Labels
      <3>3. ControlInv'
        BY <1>0, <2>1, <2>2 DEF ControlInv, TypeOK, Goto
      <3> QED BY <3>2, <3>3
    <2>3. CASE /\ req[c].op = "seedPublished" /\ SeedRetry(c)
               /\ UNCHANGED <<storeVars, created>>
      <3>1. TypeOK'
        BY <1>0, <2>1, <2>3, SeedRetryTypes DEF TypeOK
      <3>2. ControlInv'
        BY <1>0, <2>1, <2>3, SeedRetryTypes DEF ControlInv, TypeOK
      <3> QED BY <3>1, <3>2
    <2>4. CASE /\ req[c].op = "seedDraft" /\ Goto(c, "readSeed")
               /\ UNCHANGED <<storeVars, seedAttempt, created, reply>>
      <3>1. TypeOK'
        BY <1>0, <2>1, <2>4 DEF TypeOK, Goto, Labels
      <3>2. ControlInv'
        BY <1>0, <2>1, <2>4 DEF ControlInv, TypeOK, Goto
      <3> QED BY <3>1, <3>2
    <2> QED BY <1>7, <2>2, <2>3, <2>4 DEF CreateInitialSoulDraft
  <1>8. ASSUME NEW c \in Calls, ReadCreated(c) PROVE TypeOK' /\ ControlInv'
    <2>1. /\ pc[c] = "readCreated" /\ req[c].op \in {"seedPublished", "seedDraft"}
          /\ UNCHANGED <<soulRow, values, history, req, seedAttempt, seen, created>>
      BY <1>0, <1>8 DEF ReadCreated, ControlInv
    <2>2. /\ pc' \in [Calls -> Labels] /\ reply' \in [Calls -> Replies]
          /\ expected' \in [Calls -> Nat] /\ attempt' \in [Calls -> 0..RetryLimit - 1]
          /\ pc' = [pc EXCEPT ![c] = pc'[c]] /\ pc'[c] \in {"load", "done"}
          /\ pc'[c] = "load" => req[c].op = "seedPublished"
      <3>1. PICK r \in Readable :
               \/ Fail(c, "notFound") /\ UNCHANGED <<expected, attempt>>
               \/ r # NoRow /\ Return(c, r) /\ UNCHANGED <<expected, attempt>>
               \/ r # NoRow /\ req[c].op = "seedPublished" /\ SeedDecide(c, r)
        BY <1>8 DEF ReadCreated
      <3>2. CASE Fail(c, "notFound") /\ UNCHANGED <<expected, attempt>>
        BY <1>0, <3>2, FailTypes DEF TypeOK, Statuses, Fail, Goto
      <3>3. CASE r # NoRow /\ Return(c, r) /\ UNCHANGED <<expected, attempt>>
        BY <1>0, <1>b, <3>3, ReturnTypes DEF TypeOK, Return, Goto
      <3>4. CASE r # NoRow /\ req[c].op = "seedPublished" /\ SeedDecide(c, r)
        BY <1>0, <1>b, <3>4, SeedDecideTypes
      <3> QED BY <3>1, <3>2, <3>3, <3>4
    <2>3. TypeOK'
      BY <1>0, <2>1, <2>2 DEF TypeOK
    <2>4. ControlInv'
      BY <1>0, <2>1, <2>2 DEF ControlInv, TypeOK
    <2> QED BY <2>3, <2>4
  <1>9. ASSUME NEW c \in Calls, ReadSeed(c) \/ ReadBack(c) \/ Interrupt(c)
        PROVE  TypeOK' /\ ControlInv'
    <2>1. UNCHANGED <<soulRow, values, history, req, attempt, seedAttempt, expected,
                      seen, created>>
      BY <1>9 DEF ReadSeed, ReadBack, Interrupt
    <2>2. /\ pc' \in [Calls -> Labels] /\ reply' \in [Calls -> Replies]
          /\ pc' = [pc EXCEPT ![c] = "done"]
      <3>1. \/ Fail(c, "notFound") \/ Fail(c, "conflict") \/ Fail(c, "error")
            \/ \E r \in Readable : r # NoRow /\ Return(c, r)
        BY <1>9 DEF ReadSeed, ReadBack, Interrupt
      <3>2. CASE Fail(c, "notFound") \/ Fail(c, "conflict") \/ Fail(c, "error")
        BY <1>0, <3>2, FailTypes DEF Statuses, Fail, Goto
      <3>3. CASE \E r \in Readable : r # NoRow /\ Return(c, r)
        BY <1>0, <1>b, <3>3, ReturnTypes DEF Return, Goto
      <3> QED BY <3>1, <3>2, <3>3
    <2>3. TypeOK'
      BY <1>0, <2>1, <2>2 DEF TypeOK
    <2>4. ControlInv'
      BY <1>0, <2>1, <2>2 DEF ControlInv, TypeOK
    <2> QED BY <2>3, <2>4
  <1>10. CASE UNCHANGED vars
    BY <1>0, <1>10 DEF vars, callVars, TypeOK, ControlInv
  <1> QED BY <1>1, <1>2, <1>3, <1>4, <1>5, <1>6, <1>7, <1>8, <1>9, <1>10 DEF Next, Step
-----------------------------------------------------------------------------
\* The three transactions, each applied to the very row it was computed from.
Creates(c) ==
  /\ soulRow = NoRow
  /\ req[c].doc \in Documents
  /\ Commit(FirstDraft(c), historyFor(FirstDraft(c), c))

Revises(c) ==
  /\ soulRow # NoRow
  /\ seen[c] = soulRow
  /\ req[c].doc \in Documents
  /\ Commit(NextDraft(c), UpsertHistory(c))

Transitions(c) ==
  /\ soulRow # NoRow
  /\ seen[c] = soulRow
  /\ ~isLegacyOpaqueSoul(soulRow)
  /\ soulRow.state = TransitionFrom(req[c].op)
  /\ Commit(Transitioned(c), TransitionHistory(c))

\* A step leaves the store alone, or is one of the three.
LEMMA StepOfStore ==
  ASSUME StoreInv, [Next]_vars
  PROVE  \/ UNCHANGED storeVars
         \/ \E c \in Calls : Creates(c) \/ Revises(c) \/ Transitions(c)
  <1> USE DEF storeVars
  <1>1. \A c \in Calls : req[c] \in Requests
    BY DEF StoreInv, TypeOK
  <1>2. ASSUME NEW c \in Calls, pc[c] = "write", seen[c] # NoRow, VersionHolds(c)
        PROVE  seen[c] = soulRow /\ soulRow # NoRow
    BY <1>2 DEF StoreInv, SeenInv, NewestInv, VersionHolds
  <1>3. ASSUME NEW c \in Calls, WriteUpsert(c)
        PROVE  UNCHANGED storeVars \/ Creates(c) \/ Revises(c)
    <2>1. pc[c] = "write" /\ req[c].doc \in Documents
      BY <1>1, <1>3 DEF WriteUpsert, Requests
    <2>2. CASE seen[c] = NoRow /\ CanCreate(c)
               /\ Commit(FirstDraft(c), historyFor(FirstDraft(c), c))
      BY <2>1, <2>2 DEF Creates, CanCreate
    <2>3. CASE seen[c] # NoRow /\ CanRevise(c) /\ Commit(NextDraft(c), UpsertHistory(c))
      BY <1>2, <2>1, <2>3 DEF Revises, CanRevise
    <2> QED BY <1>3, <2>2, <2>3 DEF WriteUpsert
  <1>4. ASSUME NEW c \in Calls, WriteTransition(c)
        PROVE  UNCHANGED storeVars \/ Transitions(c)
    <2>1. pc[c] = "write" /\ req[c].op # "upsert"
      BY <1>4 DEF WriteTransition
    <2>2. /\ seen[c] # NoRow /\ ~isLegacyOpaqueSoul(seen[c])
          /\ seen[c].state = TransitionFrom(req[c].op)
      BY <2>1 DEF StoreInv, SeenInv
    <2>3. CASE CanTransition(c) /\ Commit(Transitioned(c), TransitionHistory(c))
      <3>1. seen[c] = soulRow /\ soulRow # NoRow
        BY <1>2, <2>1, <2>2, <2>3 DEF CanTransition
      <3> QED BY <2>2, <2>3, <3>1 DEF Transitions
    <2> QED BY <1>4, <2>3 DEF WriteTransition
  <1>5. ASSUME NEW c \in Calls, CreateInitialSoulDraft(c)
        PROVE  UNCHANGED storeVars \/ Creates(c)
    <2>1. req[c].doc \in Documents
      BY <1>1, <1>5 DEF CreateInitialSoulDraft, StoreInv, ControlInv, Requests
    <2> QED BY <1>5, <2>1 DEF CreateInitialSoulDraft, Creates, CanCreate
  <1>6. ASSUME NEW c \in Calls,
               \/ Begin(c) \/ LoadForUpsert(c) \/ LoadForTransition(c) \/ SeedLoad(c)
               \/ ReadCreated(c) \/ ReadSeed(c) \/ ReadBack(c) \/ Interrupt(c)
        PROVE  UNCHANGED storeVars
    BY <1>6 DEF Begin, LoadForUpsert, LoadForTransition, SeedLoad, ReadCreated,
                ReadSeed, ReadBack, Interrupt
  <1>7. CASE UNCHANGED vars
    BY <1>7 DEF vars
  <1> QED BY <1>3, <1>4, <1>5, <1>6, <1>7 DEF Next, Step

\* A committed row is one version newer than the row it replaces, coherent with
\* its document, and keeps the author, text and soul_version of a transition.
LEMMA CommittedRow ==
  ASSUME StoreInv, NEW c \in Calls, Creates(c) \/ Revises(c) \/ Transitions(c)
  PROVE  /\ soulRow' \in Row /\ soulRow' # NoRow
         /\ soulRow'.version = (IF soulRow = NoRow THEN 1 ELSE soulRow.version + 1)
         /\ soulRow'.soulVersion >= 1
         /\ soulRow'.json = stampSoulDocument(soulRow'.content, soulRow'.state,
                              soulRow'.soulVersion, soulRow'.version, soulRow'.by)
         /\ soulRow'.json # NoDocument
         /\ values' = values \cup {soulRow'}
  <1> USE NoRowAssumption, NoDocumentAssumption
  <1>1. CASE Creates(c)
    <2>1. soulRow' = FirstDraft(c) /\ values' = values \cup {soulRow'} /\ soulRow = NoRow
      BY <1>1 DEF Creates, Commit
    <2>2. FirstDraft(c) \in Row
      BY <1>1, FirstDraftTypes DEF Creates
    <2>3. FirstDraft(c).json \in Stamped
      BY <1>1 DEF Creates, FirstDraft, Stamped, stampSoulDocument, Subjects, States
    <2> QED BY <2>1, <2>2, <2>3 DEF FirstDraft, stampSoulDocument
  <1>2. CASE Revises(c)
    <2>1. /\ soulRow' = NextDraft(c) /\ values' = values \cup {soulRow'}
          /\ soulRow \in Row /\ soulRow # NoRow /\ seen[c] = soulRow
      BY <1>2 DEF Revises, Commit, StoreInv, TypeOK
    <2>2. NextDraft(c) \in Row
      BY <1>2, <2>1, NextDraftTypes DEF Revises
    <2>3. NextSoulVersion(seen[c]) \in Nat /\ NextSoulVersion(seen[c]) >= 1
          /\ soulRow.version + 1 \in Nat
      BY <2>1 DEF NextSoulVersion, EffectiveSoulVersion, Row
    <2> HIDE DEF NextSoulVersion
    <2>4. NextDraft(c).json \in Stamped
      BY <1>2, <2>1, <2>3 DEF Revises, NextDraft, Stamped, stampSoulDocument, Subjects, States
    <2> QED BY <2>1, <2>2, <2>3, <2>4 DEF NextDraft, stampSoulDocument
  <1>3. CASE Transitions(c)
    <2>1. /\ soulRow' = Transitioned(c) /\ values' = values \cup {soulRow'}
          /\ soulRow \in Row /\ soulRow # NoRow /\ seen[c] = soulRow
          /\ soulRow.json # NoDocument /\ soulRow \in values
      BY <1>3 DEF Transitions, Commit, StoreInv, TypeOK, isLegacyOpaqueSoul, NewestInv
    <2>2. Transitioned(c) \in Row
      BY <2>1, TransitionedTypes
    <2>4. soulRow.soulVersion >= 1
      BY <2>1 DEF StoreInv, RowsReadable
    <2>5. EffectiveSoulVersion(seen[c]) = soulRow.soulVersion
      BY <2>1, <2>4 DEF EffectiveSoulVersion, Row
    <2>6. Transitioned(c).json \in Stamped
      <3>1. /\ soulRow.soulVersion \in Nat /\ soulRow.version + 1 \in Nat
            /\ TransitionTo(req[c].op) \in States
            /\ soulRow.content \in Documents /\ soulRow.by \in Subjects
        BY <2>1 DEF Row, TransitionTo, States
      <3> HIDE DEF TransitionTo
      <3> QED BY <2>1, <2>5, <3>1 DEF Transitioned, TransitionDocument, Stamped,
                                      stampSoulDocument
    <2> QED BY <2>1, <2>2, <2>4, <2>5, <2>6
            DEF Transitioned, TransitionDocument, stampSoulDocument
  <1> QED BY <1>1, <1>2, <1>3

\* One transaction keeps the store coherent: the new row's version is new.
LEMMA CommitKeepsRows ==
  ASSUME StoreInv, NEW c \in Calls, Creates(c) \/ Revises(c) \/ Transitions(c)
  PROVE  NewestInv' /\ RowsReadable' /\ VersionNamesRow'
  <1>1. /\ soulRow' \in Row /\ soulRow' # NoRow
        /\ soulRow'.version = (IF soulRow = NoRow THEN 1 ELSE soulRow.version + 1)
        /\ soulRow'.soulVersion >= 1
        /\ soulRow'.json = stampSoulDocument(soulRow'.content, soulRow'.state,
                              soulRow'.soulVersion, soulRow'.version, soulRow'.by)
        /\ soulRow'.json # NoDocument
        /\ values' = values \cup {soulRow'}
    BY CommittedRow
  <1>2. \A r \in values : r # NoRow => r.version \in Nat /\ r.version >= 1
    BY DEF StoreInv, TypeOK, NewestInv, Row
  <1>3. \A r \in values : r # NoRow => r.version < soulRow'.version
    <2>1. CASE soulRow = NoRow
      BY <2>1 DEF StoreInv, NewestInv
    <2>2. CASE soulRow # NoRow
      <3>1. soulRow.version \in Nat
        BY <2>2, <1>2 DEF StoreInv, NewestInv
      <3>2. \A r \in values : r # NoRow => r.version <= soulRow.version
        BY DEF StoreInv, NewestInv
      <3> QED BY <2>2, <3>1, <3>2, <1>1, <1>2
    <2> QED BY <2>1, <2>2
  <1>4. soulRow'.version \in Nat /\ soulRow'.version >= 1
    BY <1>1 DEF StoreInv, TypeOK, NewestInv, Row
  <1>5. NewestInv'
    BY <1>1, <1>2, <1>3, <1>4 DEF NewestInv
  <1>6. RowsReadable'
    BY <1>1 DEF StoreInv, RowsReadable
  <1>7. VersionNamesRow'
    BY <1>1, <1>2, <1>3, <1>4 DEF StoreInv, VersionNamesRow
  <1> QED BY <1>5, <1>6, <1>7

\* What a pending write is based on was read from the row, and stays a value.
LEMMA StepKeepsSeen ==
  ASSUME StoreInv, [Next]_vars
  PROVE  SeenInv'
  <1> USE DEF storeVars
  <1>1. values \subseteq values'
    BY StepOfStore, CommittedRow
  <1>2. TypeOK /\ SeenInv /\ NewestInv
    BY DEF StoreInv
  <1>3. Readable \subseteq values
    BY <1>2 DEF Readable, NewestInv
  <1>4. ASSUME NEW c \in Calls, Begin(c)
        PROVE  SeenInv'
    BY <1>1, <1>2, <1>4 DEF Begin, Goto, SeenInv, TypeOK
  <1>5. ASSUME NEW c \in Calls, LoadForUpsert(c)
        PROVE  SeenInv'
    BY <1>1, <1>2, <1>3, <1>5 DEF LoadForUpsert, Goto, SeenInv, TypeOK
  <1>6. ASSUME NEW c \in Calls, LoadForTransition(c)
        PROVE  SeenInv'
    <2>1. PICK r \in Readable :
             \/ pc' = [pc EXCEPT ![c] = pc'[c]] /\ pc'[c] # "write" /\ UNCHANGED seen
             \/ /\ r # NoRow /\ ~isLegacyOpaqueSoul(r)
                /\ r.state = TransitionFrom(req[c].op)
                /\ seen' = [seen EXCEPT ![c] = r]
                /\ pc' = [pc EXCEPT ![c] = "write"]
      <3>1. ASSUME Conflict(c) PROVE pc' = [pc EXCEPT ![c] = pc'[c]] /\ pc'[c] # "write"
        BY <1>2, <3>1, ConflictTypes
      <3>2. ASSUME NEW x \in Statuses, Fail(c, x)
            PROVE  pc' = [pc EXCEPT ![c] = pc'[c]] /\ pc'[c] # "write"
        BY <1>2, <3>2 DEF Fail, Goto, TypeOK
      <3>3. ASSUME NEW r \in Readable, Return(c, r)
            PROVE  pc' = [pc EXCEPT ![c] = pc'[c]] /\ pc'[c] # "write"
        BY <1>2, <3>3 DEF Return, Goto, TypeOK
      <3> QED BY <1>6, <3>1, <3>2, <3>3 DEF LoadForTransition, Goto, Statuses
    <2>2. req' = req
      BY <1>6 DEF LoadForTransition
    <2> QED BY <1>1, <1>2, <1>3, <2>1, <2>2 DEF SeenInv, TypeOK
  <1>7. ASSUME NEW c \in Calls, UNCHANGED <<req, seen>>,
               pc' = [pc EXCEPT ![c] = pc'[c]] /\ pc'[c] # "write"
        PROVE  SeenInv'
    BY <1>1, <1>2, <1>7 DEF SeenInv, TypeOK
  <1>8. ASSUME NEW c \in Calls, WriteUpsert(c) \/ WriteTransition(c)
        PROVE  SeenInv'
    <2>1. ASSUME Retry(c) PROVE pc' = [pc EXCEPT ![c] = pc'[c]] /\ pc'[c] # "write"
      BY <1>2, <2>1, RetryTypes
    <2>2. ASSUME Goto(c, "readBack")
          PROVE  pc' = [pc EXCEPT ![c] = pc'[c]] /\ pc'[c] # "write"
      BY <1>2, <2>2 DEF Goto, TypeOK
    <2> QED BY <1>7, <1>8, <2>1, <2>2 DEF WriteUpsert, WriteTransition
  <1>9. ASSUME NEW c \in Calls, CreateInitialSoulDraft(c)
        PROVE  SeenInv'
    <2>1. ASSUME SeedRetry(c) PROVE pc' = [pc EXCEPT ![c] = pc'[c]] /\ pc'[c] # "write"
      BY <1>2, <2>1, SeedRetryTypes
    <2>2. ASSUME Goto(c, "readCreated") \/ Goto(c, "readSeed")
          PROVE  pc' = [pc EXCEPT ![c] = pc'[c]] /\ pc'[c] # "write"
      BY <1>2, <2>2 DEF Goto, TypeOK
    <2> QED BY <1>7, <1>9, <2>1, <2>2 DEF CreateInitialSoulDraft
  <1>10. ASSUME NEW c \in Calls, NEW r \in Row, SeedDecide(c, r)
         PROVE  pc' = [pc EXCEPT ![c] = pc'[c]] /\ pc'[c] # "write"
    BY <1>2, <1>10, SeedDecideTypes
  <1>11. ASSUME NEW c \in Calls, SeedLoad(c) \/ ReadCreated(c)
         PROVE  SeenInv'
    <2>1. PICK r \in Readable :
             \/ Goto(c, "create")
             \/ Fail(c, "rewriteRequired") \/ Fail(c, "notFound")
             \/ Return(c, r)
             \/ r # NoRow /\ SeedDecide(c, r)
      BY <1>11 DEF SeedLoad, ReadCreated
    <2>2. pc' = [pc EXCEPT ![c] = pc'[c]] /\ pc'[c] # "write"
      BY <1>2, <1>3, <1>10, <2>1 DEF Goto, Fail, Return, TypeOK
    <2> QED BY <1>7, <1>11, <2>2 DEF SeedLoad, ReadCreated
  <1>12. ASSUME NEW c \in Calls, ReadSeed(c) \/ ReadBack(c) \/ Interrupt(c)
         PROVE  SeenInv'
    <2>1. pc' = [pc EXCEPT ![c] = "done"]
      BY <1>12 DEF ReadSeed, ReadBack, Interrupt, Fail, Return, Goto
    <2> QED BY <1>2, <1>7, <1>12, <2>1 DEF ReadSeed, ReadBack, Interrupt, TypeOK
  <1>13. CASE UNCHANGED vars
    BY <1>1, <1>2, <1>13 DEF vars, callVars, SeenInv
  <1> QED BY <1>4, <1>5, <1>6, <1>8, <1>9, <1>11, <1>12, <1>13 DEF Next, Step

\* Every step keeps the invariant.
LEMMA StepKeepsInv == StoreInv /\ [Next]_vars => StoreInv'
  <1> SUFFICES ASSUME StoreInv, [Next]_vars PROVE StoreInv'
    OBVIOUS
  <1>1. NewestInv' /\ RowsReadable' /\ VersionNamesRow'
    <2>1. CASE UNCHANGED storeVars
      BY <2>1 DEF storeVars, StoreInv, NewestInv, RowsReadable, VersionNamesRow
    <2> QED BY <2>1, StepOfStore, CommitKeepsRows
  <1> QED BY <1>1, StepTypes, StepKeepsSeen DEF StoreInv

\* The invariant of the store, for every number of calls, documents and retries
\* and for arbitrarily stale reads.
THEOREM StoreSafe == Spec => []StoreInv
  BY InitStoreInv, StepKeepsInv, PTL DEF Spec

\* No sequence of calls stores a row that cannot be read back.
THEOREM StoredRowsReadable == Spec => []RowsReadable
  BY StoreSafe, PTL DEF StoreInv

\* A record version never names two values of the row, whatever reads return.
THEOREM VersionsNameRows == Spec => []VersionNamesRow
  BY StoreSafe, PTL DEF StoreInv

-----------------------------------------------------------------------------
\* The projection of a stored row is a lifecycle row, never NoRow.
LEMMA ProjectedRow ==
  ASSUME NEW r \in Row
  PROVE  CurrentOf(r) \in Lifecycle!Current /\ CurrentOf(r) # NoRow
  <1>1. CurrentOf(r) \in Lifecycle!Current
    BY DEF CurrentOf, Row, Lifecycle!Current, Lifecycle!States, States
  <1> QED BY <1>1, NoCurrentAssumption

\* The initial store is an initial lifecycle.
LEMMA InitImplements == Init => Lifecycle!Init
  <1> SUFFICES ASSUME Init PROVE Lifecycle!Init
    OBVIOUS
  <1>1. CASE soulRow = NoRow
    BY <1>1 DEF Init, Lifecycle!Init, current
  <1>2. CASE soulRow \in LegacyRows
    <2>1. soulRow # NoRow
      BY <1>2, LegacyRowTypes, NoRowAssumption
    <2>2. CurrentOf(soulRow) \in Lifecycle!LegacyRows
      BY <1>2 DEF CurrentOf, LegacyRows, Lifecycle!LegacyRows, States, Lifecycle!States, Subjects
    <2> QED BY <2>1, <2>2 DEF Init, Lifecycle!Init, current
  <1> QED BY <1>1, <1>2 DEF Init

\* Each transaction is one step of the lifecycle, made by the calling subject.
LEMMA CommitImplements ==
  ASSUME StoreInv, NEW c \in Calls, Creates(c) \/ Revises(c) \/ Transitions(c)
  PROVE  Lifecycle!Next
  <1>1. c \in Subjects
    BY DEF Subjects
  <1>2. soulRow' \in Row /\ soulRow' # NoRow /\ current' = CurrentOf(soulRow')
    BY CommittedRow DEF current
  <1>3. CASE Creates(c)
    <2> DEFINE d == req[c].doc
               row == [version |-> 1, soulVersion |-> 1, state |-> "draft",
                       content |-> d, by |-> c]
    <2>1. current = NoRow /\ d \in Documents
      BY <1>3 DEF Creates, current
    <2>2. current' = row
      BY <1>2, <1>3 DEF Creates, Commit, FirstDraft, CurrentOf
    <2>3. history' = history \cup {Lifecycle!EventFor(row, c)}
      BY <1>3 DEF Creates, Commit, FirstDraft, historyFor, Lifecycle!EventFor
    <2>4. Lifecycle!Draft(d, c)
      BY <2>1, <2>2, <2>3 DEF Lifecycle!Draft, Lifecycle!Record
    <2> QED BY <1>1, <2>1, <2>4 DEF Lifecycle!Next
  <1>4. CASE Revises(c)
    <2> DEFINE d == req[c].doc
               row == [version |-> current.version + 1,
                       soulVersion |-> Lifecycle!EffectiveSoulVersion(current) + 1,
                       state |-> "draft", content |-> d, by |-> c]
    <2>1. /\ soulRow \in Row /\ soulRow # NoRow /\ seen[c] = soulRow
          /\ d \in Documents /\ current = CurrentOf(soulRow)
          /\ soulRow' = NextDraft(c) /\ history' = history \cup {UpsertHistory(c)}
      BY <1>4 DEF Revises, Commit, StoreInv, TypeOK, current
    <2>2. current # NoRow
      BY <2>1, ProjectedRow
    <2>3. /\ Lifecycle!EffectiveSoulVersion(current) = EffectiveSoulVersion(soulRow)
          /\ current.version = soulRow.version
      BY <2>1 DEF CurrentOf, EffectiveSoulVersion, Lifecycle!EffectiveSoulVersion
    <2>4. current' = row
      BY <1>2, <2>1, <2>3 DEF NextDraft, NextSoulVersion, CurrentOf
    <2>5. history' = history \cup {Lifecycle!EventFor(row, c)}
      BY <2>1, <2>3 DEF UpsertHistory, NextSoulVersion, historyFor, Lifecycle!EventFor
    <2>6. Lifecycle!Revise(d, c)
      BY <2>2, <2>4, <2>5 DEF Lifecycle!Revise, Lifecycle!Record
    <2> QED BY <1>1, <2>1, <2>6 DEF Lifecycle!Next
  <1>5. CASE Transitions(c)
    <2> DEFINE from == TransitionFrom(req[c].op)
               to == TransitionTo(req[c].op)
               row == Lifecycle!Moved(current, to)
    <2>1. /\ soulRow \in Row /\ soulRow # NoRow /\ seen[c] = soulRow
          /\ soulRow.state = from /\ soulRow.json # NoDocument
          /\ soulRow \in values /\ current = CurrentOf(soulRow)
          /\ soulRow' = Transitioned(c) /\ history' = history \cup {TransitionHistory(c)}
      BY <1>5 DEF Transitions, Commit, StoreInv, TypeOK, NewestInv, current,
                  isLegacyOpaqueSoul
    <2>2. current # NoRow
      BY <2>1, ProjectedRow
    <2>3. soulRow.soulVersion >= 1
      BY <2>1 DEF StoreInv, RowsReadable
    <2>4. ~Lifecycle!IsLegacy(current) /\ current.state = from
      BY <2>1, <2>3 DEF CurrentOf, Lifecycle!IsLegacy
    <2>5. current' = row
      BY <1>2, <2>1 DEF Transitioned, CurrentOf, Lifecycle!Moved
    <2>6. history' = history \cup {Lifecycle!EventFor(row, c)}
      BY <2>1 DEF TransitionHistory, historyFor, CurrentOf, Lifecycle!Moved,
                  Lifecycle!EventFor
    <2>7. Lifecycle!Move(from, to, c)
      BY <2>2, <2>4, <2>5, <2>6 DEF Lifecycle!Move, Lifecycle!Record
    <2>8. Lifecycle!Publish(c) \/ Lifecycle!Archive(c)
      BY <2>7 DEF Lifecycle!Publish, Lifecycle!Archive, TransitionFrom, TransitionTo
    <2> QED BY <1>1, <2>8 DEF Lifecycle!Next
  <1> QED BY <1>3, <1>4, <1>5

\* Every step of the store is a step of the lifecycle or changes nothing of it.
LEMMA StepImplements == StoreInv /\ [Next]_vars => [Lifecycle!Next]_(Lifecycle!vars)
  <1> SUFFICES ASSUME StoreInv, [Next]_vars
               PROVE  Lifecycle!Next \/ UNCHANGED <<current, history>>
    BY DEF Lifecycle!vars
  <1>1. CASE UNCHANGED storeVars
    BY <1>1 DEF storeVars, current
  <1> QED BY <1>1, StepOfStore, CommitImplements

\* Under every interleaving of calls, stale reads, retries and crashes, the
\* store is an atomic soul lifecycle with a write-once history.
THEOREM StoreImplementsLifecycle == Spec => ImplementsLifecycle
  BY StoreSafe, InitImplements, StepImplements, PTL
     DEF Spec, ImplementsLifecycle, Lifecycle!Spec

-----------------------------------------------------------------------------
(* The lifecycle that the store implements *)

\* The inductive invariant: each part needs the others at a step.
LifecycleInv == /\ Lifecycle!TypeOK
                /\ Lifecycle!CurrentIsRecorded
                /\ Lifecycle!NothingRecordedAhead
                /\ Lifecycle!OneEventPerKey
                /\ Lifecycle!PublishedAsAuthored

\* Initially nothing is recorded.
LEMMA LifecycleStarts == Lifecycle!Init => LifecycleInv
  <1> SUFFICES ASSUME Lifecycle!Init PROVE LifecycleInv
    OBVIOUS
  <1>1. ASSUME NEW r \in Lifecycle!LegacyRows PROVE r \in Lifecycle!Current /\ Lifecycle!IsLegacy(r)
    <2>1. r = [version |-> r.version, soulVersion |-> 0, state |-> r.state,
               content |-> r.content, by |-> r.by]
      BY DEF Lifecycle!LegacyRows
    <2>2. r.version \in Nat /\ r.state \in Lifecycle!States /\ r.content \in Documents
          /\ r.by \in Subjects
      BY LegacyAssumption DEF Lifecycle!LegacyRows
    <2> QED BY <2>1, <2>2 DEF Lifecycle!Current, Lifecycle!IsLegacy
  <1>2. Lifecycle!TypeOK /\ Lifecycle!CurrentIsRecorded
    BY <1>1 DEF Lifecycle!Init, Lifecycle!TypeOK, Lifecycle!CurrentIsRecorded
  <1>3. Lifecycle!NothingRecordedAhead /\ Lifecycle!OneEventPerKey /\ Lifecycle!PublishedAsAuthored
    BY DEF Lifecycle!Init, Lifecycle!NothingRecordedAhead, Lifecycle!OneEventPerKey,
           Lifecycle!PublishedAsAuthored
  <1> QED BY <1>2, <1>3 DEF LifecycleInv

\* A row that starts a soul_version above every recorded one keeps the
\* invariant: first drafts and revisions (store.go:339-409).
LEMMA NewVersionKeeps ==
  ASSUME LifecycleInv,
         NEW r \in Lifecycle!Current, NEW s \in Subjects,
         r.state = "draft", r.soulVersion >= 1, r.version >= 1,
         current # NoRow => /\ r.version = current.version + 1
                            /\ r.soulVersion > Lifecycle!EffectiveSoulVersion(current),
         Lifecycle!Record(r, s)
  PROVE  LifecycleInv'
  <1> DEFINE e0 == Lifecycle!EventFor(r, s)
  <1> USE NoCurrentAssumption
  <1>1. e0 \in Lifecycle!Event /\ current' = r /\ history' = history \cup {e0} /\ r # NoRow
    BY DEF Lifecycle!Record, Lifecycle!EventFor, Lifecycle!Event, Lifecycle!Current
  <1>2. Lifecycle!TypeOK'
    BY <1>1 DEF LifecycleInv, Lifecycle!TypeOK
  <1>3. Lifecycle!CurrentIsRecorded'
    BY <1>1 DEF Lifecycle!CurrentIsRecorded
  <1>4. \A e \in history : e.soulVersion < r.soulVersion /\ e.version < r.version
    BY <1>1 DEF LifecycleInv, Lifecycle!TypeOK, Lifecycle!NothingRecordedAhead,
                Lifecycle!Current, Lifecycle!Event,
                Lifecycle!EffectiveSoulVersion
  <1>5. Lifecycle!NothingRecordedAhead'
    <2>1. Lifecycle!EffectiveSoulVersion(r) = r.soulVersion
      BY DEF Lifecycle!EffectiveSoulVersion, Lifecycle!Current
    <2> SUFFICES ASSUME NEW e \in history'
                 PROVE  /\ e.soulVersion >= 1
                        /\ e.version <= r.version
                        /\ \/ e.soulVersion < r.soulVersion
                           \/ /\ e.soulVersion = r.soulVersion
                              /\ Lifecycle!Rank(e.state) <= Lifecycle!Rank(r.state)
                              /\ e.content = r.content
                              /\ e.by = r.by
      BY <1>1, <2>1 DEF Lifecycle!NothingRecordedAhead, Lifecycle!EffectiveSoulVersion
    <2>2. CASE e = e0
      BY <2>2 DEF Lifecycle!EventFor, Lifecycle!Current, Lifecycle!States, Lifecycle!Rank
    <2>3. CASE e \in history
      BY <2>3, <1>4 DEF LifecycleInv, Lifecycle!NothingRecordedAhead, Lifecycle!TypeOK,
                        Lifecycle!Event, Lifecycle!Current
    <2> QED BY <1>1, <2>2, <2>3
  <1>6. Lifecycle!OneEventPerKey'
    BY <1>1, <1>4 DEF LifecycleInv, Lifecycle!TypeOK, Lifecycle!OneEventPerKey,
                      Lifecycle!EventFor, Lifecycle!Event, Lifecycle!Current
  <1>7. Lifecycle!PublishedAsAuthored'
    BY <1>1 DEF LifecycleInv, Lifecycle!PublishedAsAuthored, Lifecycle!EventFor
  <1> QED BY <1>2, <1>3, <1>5, <1>6, <1>7 DEF LifecycleInv

\* A lifecycle move records a state the current soul_version has not had.
LEMMA MoveKeeps ==
  ASSUME LifecycleInv,
         NEW from \in Lifecycle!States, NEW to \in Lifecycle!States, NEW s \in Subjects,
         \/ from = "draft" /\ to = "published"
         \/ from = "published" /\ to = "archived",
         Lifecycle!Move(from, to, s)
  PROVE  LifecycleInv'
  <1> DEFINE r  == Lifecycle!Moved(current, to)
             e0 == Lifecycle!EventFor(r, s)
  <1> USE NoCurrentAssumption
  <1>1. /\ current \in Lifecycle!Current /\ current.state = from
        /\ current.soulVersion >= 1 /\ ~Lifecycle!IsLegacy(current)
    BY DEF Lifecycle!Move, LifecycleInv, Lifecycle!TypeOK, Lifecycle!IsLegacy,
           Lifecycle!Current
  <1>2. /\ r \in Lifecycle!Current /\ r # NoRow /\ r.version = current.version + 1
        /\ r.soulVersion = current.soulVersion /\ r.content = current.content
        /\ r.by = current.by /\ r.state = to
        /\ Lifecycle!EffectiveSoulVersion(r) = current.soulVersion
        /\ Lifecycle!EffectiveSoulVersion(current) = current.soulVersion
    <2>1. /\ r \in Lifecycle!Current /\ r.version = current.version + 1 /\ r.state = to
          /\ r.by = current.by
          /\ r.soulVersion = current.soulVersion /\ r.content = current.content
      BY <1>1 DEF Lifecycle!Current, Lifecycle!Moved
    <2>2. Lifecycle!EffectiveSoulVersion(current) = current.soulVersion
      BY <1>1 DEF Lifecycle!EffectiveSoulVersion, Lifecycle!Current
    <2> HIDE DEF r
    <2>3. Lifecycle!EffectiveSoulVersion(r) = current.soulVersion
      BY <1>1, <2>1 DEF Lifecycle!EffectiveSoulVersion, Lifecycle!Current
    <2> QED BY <2>1, <2>2, <2>3
  <1> HIDE DEF r
  <1>3. /\ current' = r /\ history' = history \cup {e0} /\ e0 \in Lifecycle!Event
        /\ e0.version = r.version /\ e0.soulVersion = r.soulVersion
        /\ e0.state = to /\ e0.content = r.content /\ e0.by = r.by
    BY <1>2 DEF Lifecycle!Move, Lifecycle!Record, Lifecycle!EventFor, Lifecycle!Event,
                Lifecycle!Current, r
  <1>4. Lifecycle!Rank(from) < Lifecycle!Rank(to)
    BY DEF Lifecycle!Rank
  <1>5. \A e \in history :
          /\ e.version < r.version
          /\ e.soulVersion <= r.soulVersion
          /\ e.soulVersion = r.soulVersion =>
               Lifecycle!Rank(e.state) <= Lifecycle!Rank(from) /\ e.content = r.content /\ e.by = r.by
    BY <1>1, <1>2 DEF LifecycleInv, Lifecycle!TypeOK, Lifecycle!NothingRecordedAhead,
                      Lifecycle!Current, Lifecycle!Event,
                      Lifecycle!EffectiveSoulVersion
  <1>6. \E f \in history : /\ f.soulVersion = r.soulVersion /\ f.state = from
                           /\ f.content = r.content /\ f.by = r.by
                           /\ f.version = current.version
    BY <1>1, <1>2 DEF LifecycleInv, Lifecycle!CurrentIsRecorded, Lifecycle!EventFor
  <1>7. Lifecycle!TypeOK'
    BY <1>2, <1>3 DEF LifecycleInv, Lifecycle!TypeOK
  <1>8. Lifecycle!CurrentIsRecorded'
    BY <1>3 DEF Lifecycle!CurrentIsRecorded
  <1>9. Lifecycle!NothingRecordedAhead'
    <2> SUFFICES ASSUME NEW e \in history'
                 PROVE  /\ e.soulVersion >= 1
                        /\ e.version <= r.version
                        /\ \/ e.soulVersion < r.soulVersion
                           \/ /\ e.soulVersion = r.soulVersion
                              /\ Lifecycle!Rank(e.state) <= Lifecycle!Rank(to)
                              /\ e.content = r.content
                              /\ e.by = r.by
      BY <1>2, <1>3 DEF Lifecycle!NothingRecordedAhead, Lifecycle!EffectiveSoulVersion
    <2>1. CASE e = e0
      BY <2>1, <1>1, <1>2, <1>3 DEF Lifecycle!Current, Lifecycle!States, Lifecycle!Rank
    <2>2. CASE e \in history
      <3>1. e.soulVersion >= 1 /\ e \in Lifecycle!Event
        BY <2>2 DEF LifecycleInv, Lifecycle!NothingRecordedAhead, Lifecycle!TypeOK
      <3>2. Lifecycle!Rank(e.state) \in Int /\ Lifecycle!Rank(from) \in Int /\ Lifecycle!Rank(to) \in Int
        BY <3>1 DEF Lifecycle!Rank, Lifecycle!Event, Lifecycle!States
      <3> QED BY <2>2, <1>2, <1>4, <1>5, <3>1, <3>2 DEF Lifecycle!Event, Lifecycle!Current
    <2> QED BY <1>3, <2>1, <2>2
  <1>10. Lifecycle!OneEventPerKey'
    <2>1. ASSUME NEW e \in history, e.soulVersion = r.soulVersion PROVE e.state # to
      <3>1. Lifecycle!Rank(e.state) <= Lifecycle!Rank(from) /\ Lifecycle!Rank(e.state) \in Int
        BY <2>1, <1>5 DEF LifecycleInv, Lifecycle!TypeOK, Lifecycle!Event,
                          Lifecycle!States, Lifecycle!Rank
      <3>2. Lifecycle!Rank(from) \in Int /\ Lifecycle!Rank(to) \in Int
        BY DEF Lifecycle!Rank, Lifecycle!States
      <3> QED BY <3>1, <3>2, <1>4
    <2> QED BY <1>3, <2>1 DEF LifecycleInv, Lifecycle!OneEventPerKey
  <1>11. Lifecycle!PublishedAsAuthored'
    <2> SUFFICES ASSUME NEW e \in history', e.state # "draft"
                 PROVE  /\ \E f \in history' :
                             /\ f.soulVersion = e.soulVersion /\ f.state = "draft"
                             /\ f.content = e.content /\ f.by = e.by
                             /\ f.version < e.version
                        /\ e.state = "archived" =>
                             \E f \in history' : /\ f.soulVersion = e.soulVersion
                                                 /\ f.state = "published"
                                                 /\ f.version < e.version
      BY DEF Lifecycle!PublishedAsAuthored
    <2>1. CASE e \in history
      BY <2>1, <1>3 DEF LifecycleInv, Lifecycle!PublishedAsAuthored
    <2>2. CASE e = e0
      <3>1. PICK g \in history : /\ g.soulVersion = r.soulVersion /\ g.state = from
                                 /\ g.content = r.content /\ g.by = r.by
                                 /\ g.version < r.version
        BY <1>6, <1>5
      <3>2. CASE from = "draft"
        BY <2>2, <3>1, <3>2, <1>3
      <3>3. CASE from = "published"
        <4>1. PICK f \in history : /\ f.soulVersion = g.soulVersion /\ f.state = "draft"
                                   /\ f.content = g.content /\ f.by = g.by
                                   /\ f.version < g.version
          BY <3>1, <3>3 DEF LifecycleInv, Lifecycle!PublishedAsAuthored
        <4>2. f.version < r.version
          BY <4>1, <1>5
        <4> QED BY <2>2, <3>1, <3>3, <4>1, <4>2, <1>3
      <3> QED BY <3>2, <3>3
    <2> QED BY <1>3, <2>1, <2>2
  <1> QED BY <1>7, <1>8, <1>9, <1>10, <1>11 DEF LifecycleInv

\* Every step keeps the invariant.
LEMMA LifecycleStepKeeps ==
  LifecycleInv /\ [Lifecycle!Next]_(Lifecycle!vars) => LifecycleInv'
  <1> SUFFICES ASSUME LifecycleInv, [Lifecycle!Next]_(Lifecycle!vars) PROVE LifecycleInv'
    OBVIOUS
  <1> USE NoCurrentAssumption
  <1>1. ASSUME NEW s \in Subjects, NEW d \in Documents, Lifecycle!Draft(d, s)
        PROVE  LifecycleInv'
    <2> DEFINE r == [version |-> 1, soulVersion |-> 1, state |-> "draft",
                     content |-> d, by |-> s]
    <2>1. r \in Lifecycle!Current
      BY DEF Lifecycle!Current, Lifecycle!States
    <2>2. current = NoRow /\ Lifecycle!Record(r, s)
      BY <1>1 DEF Lifecycle!Draft
    <2> QED BY <2>1, <2>2, NewVersionKeeps
  <1>2. ASSUME NEW s \in Subjects, NEW d \in Documents, Lifecycle!Revise(d, s)
        PROVE  LifecycleInv'
    <2> DEFINE r == [version |-> current.version + 1,
                     soulVersion |-> Lifecycle!EffectiveSoulVersion(current) + 1,
                     state |-> "draft", content |-> d, by |-> s]
    <2>1. current \in Lifecycle!Current /\ Lifecycle!Record(r, s)
      BY <1>2 DEF Lifecycle!Revise, LifecycleInv, Lifecycle!TypeOK
    <2>2. Lifecycle!EffectiveSoulVersion(current) \in Nat
      BY <2>1 DEF Lifecycle!Current, Lifecycle!EffectiveSoulVersion
    <2>3. /\ r \in Lifecycle!Current /\ r.state = "draft"
          /\ r.soulVersion >= 1 /\ r.version >= 1
          /\ r.version = current.version + 1
          /\ r.soulVersion > Lifecycle!EffectiveSoulVersion(current)
      BY <2>1, <2>2 DEF Lifecycle!Current, Lifecycle!States
    <2> HIDE DEF r
    <2> QED BY <2>1, <2>3, NewVersionKeeps
  <1>3. ASSUME NEW s \in Subjects, Lifecycle!Publish(s) PROVE LifecycleInv'
    BY <1>3, MoveKeeps DEF Lifecycle!Publish, Lifecycle!States
  <1>4. ASSUME NEW s \in Subjects, Lifecycle!Archive(s) PROVE LifecycleInv'
    BY <1>4, MoveKeeps DEF Lifecycle!Archive, Lifecycle!States
  <1>5. CASE UNCHANGED <<current, history>>
    BY <1>5 DEF Lifecycle!vars, LifecycleInv, Lifecycle!TypeOK,
                Lifecycle!CurrentIsRecorded, Lifecycle!NothingRecordedAhead,
                Lifecycle!OneEventPerKey, Lifecycle!PublishedAsAuthored
  <1> QED BY <1>1, <1>2, <1>3, <1>4, <1>5 DEF Lifecycle!Next, Lifecycle!vars

\* The promise of one agent_soul, for every number of documents, subjects and
\* versions: the current row is on record, history never runs ahead of it, a
\* lifecycle state of a soul_version is recorded once, and what is published
\* is what its author drafted.
THEOREM LifecycleSafe == Lifecycle!Spec => []LifecycleInv
  BY LifecycleStarts, LifecycleStepKeeps, PTL DEF Lifecycle!Spec

\* What the lifecycle promises, the store keeps.
LEMMA LifecycleHolds == Spec => []LifecycleInv
  BY LifecycleSafe, StoreImplementsLifecycle, PTL DEF ImplementsLifecycle

\* Through any interleaving of calls, every lifecycle state of every soul_version
\* is recorded at most once (historyRecord's create-only key).
THEOREM HistoryIsWriteOnce == Spec => []Lifecycle!OneEventPerKey
  BY LifecycleHolds, PTL DEF LifecycleInv

\* A published or archived snapshot in the history is the document its author
\* drafted (Store.publishSoul, Store.archiveSoul).
THEOREM SnapshotsAsAuthored == Spec => []Lifecycle!PublishedAsAuthored
  BY LifecycleHolds, PTL DEF LifecycleInv

\* The next event of the row being written has a key of its own.
LEMMA KeysFree ==
  ASSUME StoreInv, LifecycleInv
  PROVE  HistoryNeverBlocks
  <1> SUFFICES ASSUME NEW c \in Calls, pc[c] = "write"
               PROVE  /\ seen[c] = NoRow /\ soulRow = NoRow =>
                           HistoryKeyFree(historyFor(FirstDraft(c), c))
                      /\ seen[c] # NoRow /\ VersionHolds(c) =>
                           HistoryKeyFree(IF req[c].op = "upsert" THEN UpsertHistory(c)
                                                                  ELSE TransitionHistory(c))
    BY DEF HistoryNeverBlocks
  <1>1. ASSUME soulRow = NoRow
        PROVE  HistoryKeyFree(historyFor(FirstDraft(c), c))
    <2>1. history = {}
      BY <1>1 DEF LifecycleInv, Lifecycle!NothingRecordedAhead, current
    <2> QED BY <2>1 DEF HistoryKeyFree
  <1>2. ASSUME seen[c] # NoRow, VersionHolds(c)
        PROVE  HistoryKeyFree(IF req[c].op = "upsert" THEN UpsertHistory(c)
                                                      ELSE TransitionHistory(c))
    <2>1. soulRow \in Row /\ soulRow # NoRow /\ seen[c] = soulRow /\ soulRow \in values
      BY <1>2 DEF StoreInv, SeenInv, NewestInv, VersionHolds, TypeOK
    <2>2. /\ current.soulVersion = soulRow.soulVersion /\ current.state = soulRow.state
          /\ Lifecycle!EffectiveSoulVersion(current) = EffectiveSoulVersion(soulRow)
          /\ EffectiveSoulVersion(soulRow) \in Nat
      BY <2>1 DEF current, CurrentOf, EffectiveSoulVersion, Lifecycle!EffectiveSoulVersion, Row
    <2>3. \A x \in history :
             /\ x \in HistoryRow
             /\ \/ x.soulVersion < EffectiveSoulVersion(soulRow)
                \/ /\ x.soulVersion = soulRow.soulVersion
                   /\ Lifecycle!Rank(x.state) <= Lifecycle!Rank(soulRow.state)
      BY <2>2 DEF StoreInv, TypeOK, LifecycleInv, Lifecycle!NothingRecordedAhead
    <2>4. CASE req[c].op = "upsert"
      <3>1. UpsertHistory(c).soulVersion = EffectiveSoulVersion(soulRow) + 1
        BY <2>1 DEF UpsertHistory, historyFor, NextSoulVersion
      <3>2. soulRow.soulVersion <= EffectiveSoulVersion(soulRow)
        BY <2>1 DEF EffectiveSoulVersion, Row, StoreInv, NewestInv
      <3>3. \A x \in history : x.soulVersion < EffectiveSoulVersion(soulRow) + 1
        BY <2>1, <2>2, <2>3, <3>2 DEF HistoryRow, Row
      <3> QED BY <2>2, <2>4, <3>1, <3>3 DEF HistoryKeyFree, HistoryRow
    <2>5. CASE req[c].op # "upsert"
      <3>1. /\ soulRow.json # NoDocument
            /\ soulRow.state = TransitionFrom(req[c].op)
        BY <2>1, <2>5 DEF StoreInv, SeenInv, isLegacyOpaqueSoul
      <3>2. soulRow.soulVersion >= 1 /\ soulRow.soulVersion \in Nat
        BY <2>1, <3>1 DEF StoreInv, RowsReadable, Row
      <3>3. EffectiveSoulVersion(soulRow) = soulRow.soulVersion
        BY <3>2 DEF EffectiveSoulVersion
      <3>4. /\ TransitionHistory(c).soulVersion = soulRow.soulVersion
            /\ TransitionHistory(c).state = TransitionTo(req[c].op)
        BY <2>1 DEF TransitionHistory, historyFor
      <3>5. ASSUME NEW x \in history, x.soulVersion = soulRow.soulVersion
            PROVE  x.state # TransitionTo(req[c].op)
        <4>1. Lifecycle!Rank(x.state) <= Lifecycle!Rank(TransitionFrom(req[c].op))
          BY <2>3, <3>1, <3>2, <3>3, <3>5
        <4> QED BY <4>1 DEF TransitionFrom, TransitionTo, Lifecycle!Rank
      <3> QED BY <2>5, <3>4, <3>5 DEF HistoryKeyFree
    <2> QED BY <2>4, <2>5
  <1> QED BY <1>1, <1>2

\* A write is only ever refused because the row moved on, never by its history.
THEOREM NoDeadEnd == Spec => []HistoryNeverBlocks
  BY StoreSafe, LifecycleHolds, KeysFree, PTL

\* Every variable of the store keeps its type, for any calls and documents.
THEOREM StoreTypes == Spec => []TypeOK
  BY StoreSafe, PTL DEF StoreInv

\* Rows stay readable, versions name rows, and the history blocks no write.
THEOREM StoreIsIntact == Spec => []StoreIntact
  <1>1. RowsReadable /\ VersionNamesRow /\ HistoryNeverBlocks => StoreIntact
    BY DEF StoreIntact
  <1> QED BY <1>1, StoredRowsReadable, VersionsNameRows, NoDeadEnd, PTL
-----------------------------------------------------------------------------
\* What a call has asked for, as far as the history shows it.
OnRecord(state, doc) == \E h \in history : h.state = state /\ h.content = doc

Asked(c) ==
  /\ req[c].op = "upsert" =>
       \E h \in history : /\ h.actor = c
                          /\ h.by = c
                          /\ h.state = "draft"
                          /\ h.content = req[c].doc
  /\ req[c].op = "seedPublished" => OnRecord("published", req[c].doc)
  /\ req[c].op \in {"publish", "archive"} =>
       \E h \in history : h.state = TransitionTo(req[c].op)

\* A call has what it asked for once it has committed, and is told ok no earlier.
AskedInv(c) ==
  /\ pc[c] = "readBack" \/ reply[c].status = "ok" => Asked(c)
  /\ pc[c] # "done" => reply[c] = NoReply

\* A call that created the row started from none, and has recorded its draft.
CreatedInv(c) ==
  /\ pc[c] = "readCreated" => created[c]
  /\ created[c] => NoRow \in values
  /\ created[c] \/ reply[c].created =>
       \E h \in history : h.soulVersion = 1 /\ h.state = "draft" /\ h.by = c

\* What a call writes is one soul_version; before its write it has written none.
AuthoredInv(c) ==
  /\ \A h, g \in history : h.by = c /\ g.by = c => h.soulVersion = g.soulVersion
  /\ pc[c] = "idle" \/ (req[c].op = "upsert" /\ pc[c] \in {"load", "write"}) =>
       \A h \in history : h.by # c

\* A seed that goes on to publish holds the version of a draft equal to its declaration.
SeedInv(c) ==
  req[c].op = "seedPublished" /\ pc[c] \in {"load", "write"} =>
    /\ expected[c] > 0
    /\ \E r \in values : r # NoRow /\ r.version = expected[c] /\ r.content = req[c].doc
    /\ pc[c] = "write" => seen[c] # NoRow /\ seen[c].content = req[c].doc

\* Every row with a document is on record, and rows that a call created never
\* follow a row of before documents.
RecordInv ==
  /\ \A r \in values : r # NoRow /\ r.json # NoDocument =>
       \E h \in history : /\ h.state = r.state /\ h.content = r.content
                          /\ h.by = r.by /\ h.soulVersion = r.soulVersion
  /\ soulRow = NoRow => history = {}
  /\ NoRow \in values => \A r \in values : r # NoRow => r.json # NoDocument

CallInv(c) == AskedInv(c) /\ CreatedInv(c) /\ AuthoredInv(c) /\ SeedInv(c)

AnswerInv == RecordInv /\ \A c \in Calls : CallInv(c)

\* The ways a step changes the control of its call.
Moves(c, label) == pc' = [pc EXCEPT ![c] = label]

Refuses(c) ==
  /\ Moves(c, "done")
  /\ \E s \in Statuses \ {"ok"} : reply' = [reply EXCEPT ![c] = [NoReply EXCEPT !.status = s]]

\* A step of c leaves what the other calls hold.
OthersRest(c) ==
  \A d \in Calls \ {c} : /\ pc'[d] = pc[d] /\ req'[d] = req[d] /\ expected'[d] = expected[d]
                         /\ seen'[d] = seen[d] /\ created'[d] = created[d]
                         /\ reply'[d] = reply[d]

LEMMA InitAnswerInv == Init => AnswerInv
  <1> SUFFICES ASSUME Init PROVE AnswerInv
    OBVIOUS
  <1>0. \A r \in LegacyRows : r.json = NoDocument
    BY LegacyRowTypes
  <1>1. RecordInv
    BY <1>0, NoRowAssumption, LegacyRowTypes DEF Init, RecordInv
  <1>2. ASSUME NEW c \in Calls PROVE CallInv(c)
    BY DEF Init, CallInv, AskedInv, CreatedInv, AuthoredInv, SeedInv, NoReply
  <1> QED BY <1>1, <1>2 DEF AnswerInv

\* While history and values only grow, and an event is authored by one who has
\* authored its version before, what is known of a resting call stays known.
LEMMA RestKeepsCall ==
  ASSUME NEW d \in Calls, CallInv(d),
         history \subseteq history', values \subseteq values',
         \A h \in history' \ history : h.by = d =>
            \E g \in history : g.by = d /\ g.soulVersion = h.soulVersion,
         pc'[d] = pc[d], req'[d] = req[d], expected'[d] = expected[d],
         seen'[d] = seen[d], created'[d] = created[d], reply'[d] = reply[d]
  PROVE  CallInv(d)'
  <1>1. Asked(d) => Asked(d)'
    BY DEF Asked, OnRecord
  <1>2. AskedInv(d)'
    BY <1>1 DEF CallInv, AskedInv, NoReply
  <1>3. CreatedInv(d)'
    BY DEF CallInv, CreatedInv
  <1>4. AuthoredInv(d)'
    <2>1. \A h \in history' : h.by = d => \E g \in history : g.by = d /\ g.soulVersion = h.soulVersion
      OBVIOUS
    <2> QED BY <2>1 DEF CallInv, AuthoredInv
  <1>5. SeedInv(d)'
    BY DEF CallInv, SeedInv
  <1> QED BY <1>2, <1>3, <1>4, <1>5 DEF CallInv

\* A step that leaves the store alone.
LEMMA OffStoreKeepsAnswers ==
  ASSUME AnswerInv, NEW c \in Calls, UNCHANGED storeVars, OthersRest(c), CallInv(c)'
  PROVE  AnswerInv'
  <1>1. UNCHANGED <<soulRow, values, history>>
    BY DEF storeVars
  <1>2. RecordInv'
    BY <1>1 DEF AnswerInv, RecordInv
  <1>3. ASSUME NEW d \in Calls, d # c PROVE CallInv(d)'
    BY <1>1, <1>3, RestKeepsCall DEF AnswerInv, OthersRest
  <1> QED BY <1>2, <1>3 DEF AnswerInv

\* A refusal tells nothing.
LEMMA RefusalKeepsAnswers ==
  ASSUME StoreInv, AnswerInv, NEW c \in Calls, Refuses(c),
         UNCHANGED <<storeVars, req, created>>,
         \A d \in Calls \ {c} : expected'[d] = expected[d] /\ seen'[d] = seen[d]
  PROVE  AnswerInv'
  <1>1. PICK s \in Statuses \ {"ok"} : reply' = [reply EXCEPT ![c] = [NoReply EXCEPT !.status = s]]
    BY DEF Refuses
  <1>2. /\ pc'[c] = "done" /\ reply'[c].status = s /\ ~reply'[c].created
        /\ \A d \in Calls \ {c} : pc'[d] = pc[d] /\ reply'[d] = reply[d]
    BY <1>1 DEF Refuses, Moves, StoreInv, TypeOK, NoReply
  <1>3. OthersRest(c)
    BY <1>2 DEF OthersRest
  <1>4. CallInv(c)'
    BY <1>2 DEF AnswerInv, CallInv, AskedInv, CreatedInv, AuthoredInv, SeedInv, storeVars
  <1> QED BY <1>3, <1>4, OffStoreKeepsAnswers

\* The next request of a call that has not committed.
LEMMA MoveKeepsAnswers ==
  ASSUME StoreInv, AnswerInv, NEW c \in Calls, pc[c] # "done",
         NEW label \in {"seedLoad", "create", "load", "write", "readSeed"},
         Moves(c, label), UNCHANGED <<storeVars, created, reply>>,
         \A d \in Calls \ {c} : /\ req'[d] = req[d] /\ expected'[d] = expected[d]
                                /\ seen'[d] = seen[d],
         label \in {"load", "write"} /\ req'[c].op = "upsert" =>
           pc[c] = "idle" \/ (pc[c] \in {"load", "write"} /\ req[c].op = "upsert"),
         SeedInv(c)'
  PROVE  AnswerInv'
  <1>1. /\ pc'[c] = label
        /\ \A d \in Calls \ {c} : pc'[d] = pc[d]
    BY DEF Moves, StoreInv, TypeOK
  <1>2. OthersRest(c)
    BY <1>1 DEF OthersRest
  <1>3. reply[c] = NoReply
    BY DEF AnswerInv, CallInv, AskedInv
  <1>4. AskedInv(c)' /\ CreatedInv(c)' /\ AuthoredInv(c)'
    BY <1>1, <1>3 DEF AnswerInv, CallInv, AskedInv, CreatedInv, AuthoredInv, storeVars, NoReply
  <1> QED BY <1>2, <1>4, OffStoreKeepsAnswers DEF CallInv

\* An answer ok from a call that has what it asked for.
LEMMA AnswerKeepsAnswers ==
  ASSUME StoreInv, AnswerInv, NEW c \in Calls, NEW r \in Row, Return(c, r), Asked(c),
         UNCHANGED <<storeVars, req, created, expected, seen>>
  PROVE  AnswerInv'
  <1>1. /\ pc'[c] = "done" /\ reply'[c].created = created[c]
        /\ \A d \in Calls \ {c} : pc'[d] = pc[d] /\ reply'[d] = reply[d]
    BY DEF Return, Goto, StoreInv, TypeOK
  <1>2. OthersRest(c)
    BY <1>1 DEF OthersRest
  <1>3. Asked(c)'
    BY DEF Asked, OnRecord, TransitionTo, storeVars
  <1>4. CallInv(c)'
    BY <1>1, <1>3 DEF AnswerInv, CallInv, AskedInv, CreatedInv, AuthoredInv, SeedInv, storeVars
  <1> QED BY <1>2, <1>4, OffStoreKeepsAnswers

\* The event of a transaction is that of the row it writes; a draft's is the
\* caller's own, a transition's is authored by the one before it.
LEMMA CommittedEvent ==
  ASSUME StoreInv, AnswerInv, NEW c \in Calls, Creates(c) \/ Revises(c) \/ Transitions(c)
  PROVE  \E e \in history' :
           /\ history' = history \cup {e}
           /\ e.state = soulRow'.state /\ e.content = soulRow'.content
           /\ e.by = soulRow'.by /\ e.soulVersion = soulRow'.soulVersion /\ e.actor = c
           /\ Creates(c) => soulRow = NoRow /\ history = {} /\ e.soulVersion = 1
           /\ Creates(c) \/ Revises(c) =>
                e.state = "draft" /\ e.by = c /\ e.content = req[c].doc
           /\ Transitions(c) => /\ e.state = TransitionTo(req[c].op)
                                /\ e.content = seen[c].content
                                /\ \E g \in history : g.by = e.by /\ g.soulVersion = e.soulVersion
  <1>1. CASE Creates(c)
    <2> DEFINE e == historyFor(FirstDraft(c), c)
    <2>1. /\ history' = history \cup {e} /\ soulRow' = FirstDraft(c)
          /\ soulRow = NoRow /\ history = {}
      BY <1>1 DEF Creates, Commit, AnswerInv, RecordInv
    <2>2. e.actor = c /\ e.state = "draft" /\ e.by = c /\ e.content = req[c].doc /\ e.soulVersion = 1
      BY DEF historyFor, FirstDraft
    <2>3. /\ FirstDraft(c).state = "draft" /\ FirstDraft(c).by = c
          /\ FirstDraft(c).content = req[c].doc /\ FirstDraft(c).soulVersion = 1
      BY DEF FirstDraft
    <2>4. ~Revises(c) /\ ~Transitions(c)
      BY <2>1 DEF Revises, Transitions
    <2> HIDE DEF e
    <2> QED BY <2>1, <2>2, <2>3, <2>4
  <1>2. CASE Revises(c)
    <2> DEFINE e == UpsertHistory(c)
    <2>1. history' = history \cup {e} /\ soulRow' = NextDraft(c) /\ soulRow # NoRow
      BY <1>2 DEF Revises, Commit
    <2>2. /\ e.actor = c /\ e.state = "draft" /\ e.by = c /\ e.content = req[c].doc
          /\ e.soulVersion = NextSoulVersion(seen[c])
      BY DEF historyFor, UpsertHistory
    <2>3. /\ NextDraft(c).state = "draft" /\ NextDraft(c).by = c
          /\ NextDraft(c).content = req[c].doc
          /\ NextDraft(c).soulVersion = NextSoulVersion(seen[c])
      BY DEF NextDraft
    <2>4. ~Creates(c)
      BY <2>1 DEF Creates
    <2>5. CASE ~Transitions(c)
      <3> HIDE DEF e
      <3> QED BY <2>1, <2>2, <2>3, <2>4, <2>5
    <2>6. CASE Transitions(c)
      <3>1. NextDraft(c) = Transitioned(c)
        BY <2>1, <2>6 DEF Transitions, Commit
      <3>2. Transitioned(c).state = TransitionTo(req[c].op)
        BY DEF Transitioned
      <3> QED BY <2>3, <3>1, <3>2 DEF TransitionTo
    <2> QED BY <2>5, <2>6
  <1>3. CASE Transitions(c) /\ ~Revises(c)
    <2> DEFINE e == TransitionHistory(c)
    <2>1. /\ history' = history \cup {e} /\ soulRow' = Transitioned(c) /\ soulRow # NoRow
          /\ seen[c] = soulRow /\ soulRow.json # NoDocument /\ soulRow \in values
      BY <1>3 DEF Transitions, Commit, isLegacyOpaqueSoul, StoreInv, NewestInv
    <2>2. /\ e.actor = c /\ e.state = TransitionTo(req[c].op) /\ e.by = seen[c].by
          /\ e.content = seen[c].content /\ e.soulVersion = seen[c].soulVersion
      BY DEF historyFor, TransitionHistory
    <2>3. /\ Transitioned(c).state = TransitionTo(req[c].op) /\ Transitioned(c).by = soulRow.by
          /\ Transitioned(c).content = soulRow.content
          /\ Transitioned(c).soulVersion = soulRow.soulVersion
      BY DEF Transitioned
    <2>4. ~Creates(c)
      BY <2>1 DEF Creates
    <2>5. \E g \in history : g.by = soulRow.by /\ g.soulVersion = soulRow.soulVersion
      BY <2>1 DEF AnswerInv, RecordInv
    <2> HIDE DEF e
    <2> QED BY <2>1, <2>2, <2>3, <2>4, <2>5, <1>3
  <1> QED BY <1>1, <1>2, <1>3

\* A transaction records what its call asked for, and hides nothing recorded before.
LEMMA CommitKeepsAnswers ==
  ASSUME StoreInv, AnswerInv, NEW c \in Calls, UNCHANGED <<req, expected, seen, reply>>,
         \/ /\ Creates(c) /\ pc[c] = "create" /\ Moves(c, "readCreated")
            /\ created' = [created EXCEPT ![c] = TRUE]
         \/ /\ Creates(c) \/ Revises(c)
            /\ pc[c] = "write" /\ req[c].op = "upsert" /\ Moves(c, "readBack")
            /\ UNCHANGED created
         \/ /\ Transitions(c)
            /\ pc[c] = "write" /\ req[c].op # "upsert" /\ Moves(c, "readBack")
            /\ UNCHANGED created
  PROVE  AnswerInv'
  <1>1. PICK e \in history' :
           /\ history' = history \cup {e}
           /\ e.state = soulRow'.state /\ e.content = soulRow'.content
           /\ e.by = soulRow'.by /\ e.soulVersion = soulRow'.soulVersion /\ e.actor = c
           /\ Creates(c) => soulRow = NoRow /\ history = {} /\ e.soulVersion = 1
           /\ Creates(c) \/ Revises(c) =>
                e.state = "draft" /\ e.by = c /\ e.content = req[c].doc
           /\ Transitions(c) => /\ e.state = TransitionTo(req[c].op)
                                /\ e.content = seen[c].content
                                /\ \E g \in history : g.by = e.by /\ g.soulVersion = e.soulVersion
    BY CommittedEvent
  <1>2. /\ soulRow' # NoRow /\ soulRow'.json # NoDocument /\ values' = values \cup {soulRow'}
        /\ soulRow \in values
    BY CommittedRow DEF StoreInv, NewestInv
  <1>3. RecordInv'
    BY <1>1, <1>2 DEF AnswerInv, RecordInv
  <1>4. OthersRest(c) /\ pc'[c] \in {"readBack", "readCreated"} /\ pc[c] # "done"
    BY DEF OthersRest, Moves, StoreInv, TypeOK
  <1>5. ASSUME NEW d \in Calls, d # c PROVE CallInv(d)'
    <2>1. \A h \in history' \ history : h.by = d =>
            \E g \in history : g.by = d /\ g.soulVersion = h.soulVersion
      BY <1>1, <1>5
    <2> QED BY <1>1, <1>2, <1>4, <1>5, <2>1, RestKeepsCall DEF AnswerInv, OthersRest
  <1>6. reply'[c] = NoReply /\ ~NoReply.created /\ NoReply.status # "ok"
    BY <1>4 DEF AnswerInv, CallInv, AskedInv, NoReply
  <1>7. AuthoredInv(c)'
    <2>1. \A h, g \in history' : h.by = c /\ g.by = c => h.soulVersion = g.soulVersion
      <3>1. CASE Creates(c)
        BY <1>1, <3>1
      <3>2. CASE Revises(c) /\ ~Creates(c) /\ ~Transitions(c)
        <4>1. \A h \in history : h.by # c
          BY <3>2 DEF AnswerInv, CallInv, AuthoredInv
        <4> QED BY <1>1, <4>1
      <3>3. CASE Transitions(c)
        BY <1>1, <3>3 DEF AnswerInv, CallInv, AuthoredInv
      <3> QED BY <3>1, <3>2, <3>3
    <2> QED BY <2>1, <1>4 DEF AuthoredInv
  <1>8. SeedInv(c)'
    BY <1>4 DEF SeedInv
  <1>9. CreatedInv(c)'
    <2>1. CASE /\ Creates(c) /\ pc[c] = "create" /\ Moves(c, "readCreated")
               /\ created' = [created EXCEPT ![c] = TRUE]
      <3>1. created'[c]
        BY <2>1 DEF StoreInv, TypeOK
      <3> QED BY <1>1, <1>2, <2>1, <3>1 DEF CreatedInv
    <2>2. CASE Moves(c, "readBack") /\ UNCHANGED created
      <3>1. pc'[c] = "readBack"
        BY <2>2 DEF Moves, StoreInv, TypeOK
      <3> QED BY <1>1, <1>2, <1>6, <2>2, <3>1 DEF CreatedInv, AnswerInv, CallInv
    <2> QED BY <2>1, <2>2
  <1>10. pc'[c] = "readBack" => Asked(c)'
    <2>1. CASE Moves(c, "readCreated")
      BY <2>1 DEF Moves, StoreInv, TypeOK
    <2>2. CASE /\ Creates(c) \/ Revises(c)
               /\ pc[c] = "write" /\ req[c].op = "upsert"
      BY <1>1, <2>2 DEF Asked
    <2>3. CASE Transitions(c) /\ pc[c] = "write" /\ req[c].op # "upsert"
      <3>1. req[c].op = "seedPublished" => e.content = req[c].doc
        BY <1>1, <2>3 DEF AnswerInv, CallInv, SeedInv
      <3>2. req[c].op = "seedPublished" => e.state = "published"
        BY <1>1, <2>3 DEF TransitionTo
      <3> QED BY <1>1, <2>3, <3>1, <3>2 DEF Asked, OnRecord, TransitionTo
    <2> QED BY <2>1, <2>2, <2>3
  <1>11. AskedInv(c)'
    BY <1>4, <1>6, <1>10 DEF AskedInv
  <1> QED BY <1>3, <1>5, <1>7, <1>8, <1>9, <1>11 DEF AnswerInv, CallInv

\* What the requests of a call lead to: the moves of its control and its answers.
LEMMA FailRefuses ==
  ASSUME NEW c \in Calls, NEW s \in Statuses \ {"ok"}, Fail(c, s)
  PROVE  Refuses(c)
  BY DEF Fail, Refuses, Moves, Goto

LEMMA SeedRetryOutcome ==
  ASSUME NEW c \in Calls, SeedRetry(c)
  PROVE  Refuses(c) \/ (Moves(c, "seedLoad") /\ UNCHANGED reply)
  BY FailRefuses DEF SeedRetry, Goto, Moves, Statuses

LEMMA ConflictOutcome ==
  ASSUME NEW c \in Calls, Conflict(c)
  PROVE  Refuses(c) \/ (Moves(c, "seedLoad") /\ UNCHANGED reply)
  BY FailRefuses, SeedRetryOutcome DEF Conflict, Statuses

LEMMA RetryOutcome ==
  ASSUME NEW c \in Calls, Retry(c)
  PROVE  Refuses(c) \/ (\E label \in {"load", "seedLoad"} : Moves(c, label) /\ UNCHANGED reply)
  BY ConflictOutcome DEF Retry, Goto, Moves

LEMMA OpFacts ==
  ASSUME StoreInv, NEW c \in Calls
  PROVE  /\ req[c].op \in {"upsert", "seedPublished", "seedDraft", "publish", "archive"}
         /\ Readable \subseteq values
         /\ \A r \in values : r # NoRow => r \in Row /\ r.version \in Nat /\ r.version > 0
  BY DEF StoreInv, TypeOK, Requests, Readable, NewestInv, Row

\* SeedDecide answers only from a published row that is the declaration.
LEMMA SeedDecideKeepsAnswers ==
  ASSUME StoreInv, AnswerInv, NEW c \in Calls, NEW r \in values, r # NoRow,
         r.json # NoDocument, req[c].op = "seedPublished", pc[c] # "done",
         SeedDecide(c, r), UNCHANGED <<storeVars, req, seedAttempt, seen, created>>
  PROVE  AnswerInv'
  <1>0. r \in Row /\ r.version \in Nat /\ r.version > 0
    BY OpFacts
  <1>1. CASE (Fail(c, "conflict") \/ Fail(c, "transition")) /\ UNCHANGED <<expected, attempt>>
    BY <1>1, FailRefuses, RefusalKeepsAnswers DEF Statuses
  <1>2. CASE /\ SameDeclaration(c, r) /\ r.state = "published" /\ Return(c, r)
             /\ UNCHANGED <<expected, attempt>>
    <2>1. Asked(c)
      BY <1>2 DEF Asked, OnRecord, SameDeclaration, AnswerInv, RecordInv
    <2> QED BY <1>0, <1>2, <2>1, AnswerKeepsAnswers
  <1>3. CASE /\ SameDeclaration(c, r)
             /\ expected' = [expected EXCEPT ![c] = MatchedVersion(r)]
             /\ Goto(c, "load") /\ UNCHANGED reply
    <2>1. Moves(c, "load") /\ pc'[c] = "load" /\ expected'[c] = r.version
          /\ \A d \in Calls \ {c} : expected'[d] = expected[d]
      BY <1>3 DEF Goto, Moves, MatchedVersion, StoreInv, TypeOK
    <2>2. SeedInv(c)'
      BY <1>0, <1>3, <2>1 DEF SeedInv, SameDeclaration, storeVars
    <2> QED BY <1>3, <2>1, <2>2, MoveKeepsAnswers
  <1> QED BY <1>1, <1>2, <1>3 DEF SeedDecide

LEMMA StepKeepsAnswers == StoreInv /\ AnswerInv /\ [Next]_vars => AnswerInv'
  <1> SUFFICES ASSUME StoreInv, AnswerInv, [Next]_vars PROVE AnswerInv'
    OBVIOUS
  <1>0. TypeOK /\ ControlInv /\ SeenInv /\ NewestInv
    BY DEF StoreInv
  <1>1. ASSUME NEW c \in Calls, Begin(c) PROVE AnswerInv'
    <2>1. PICK q \in Requests, label \in {"seedLoad", "create", "load"} :
            /\ req' = [req EXCEPT ![c] = q] /\ Moves(c, label)
            /\ q.op = "seedPublished" => label = "seedLoad"
      BY <1>1 DEF Begin, Goto, Moves
    <2>2. pc[c] = "idle" /\ UNCHANGED <<storeVars, expected, seen, created, reply>>
      BY <1>1 DEF Begin
    <2>3. SeedInv(c)'
      BY <1>0, <2>1, <2>2 DEF SeedInv, Moves, TypeOK
    <2> QED BY <1>0, <2>1, <2>2, <2>3, MoveKeepsAnswers DEF TypeOK
  <1>2. ASSUME NEW c \in Calls, LoadForUpsert(c) PROVE AnswerInv'
    <2>1. /\ pc[c] = "load" /\ req[c].op = "upsert" /\ Moves(c, "write")
          /\ UNCHANGED <<storeVars, req, expected, created, reply>>
          /\ \A d \in Calls \ {c} : seen'[d] = seen[d]
      BY <1>0, <1>2 DEF LoadForUpsert, Goto, Moves, TypeOK
    <2>2. SeedInv(c)'
      BY <2>1 DEF SeedInv
    <2> QED BY <2>1, <2>2, MoveKeepsAnswers
  <1>3. ASSUME NEW c \in Calls, LoadForTransition(c) PROVE AnswerInv'
    <2>1. /\ pc[c] = "load" /\ req[c].op \in {"seedPublished", "publish", "archive"}
          /\ UNCHANGED <<storeVars, req, expected, created>>
      BY <1>0, <1>3, OpFacts DEF LoadForTransition, ControlInv
    <2>2. PICK r \in Readable :
            \/ /\ Fail(c, "notFound") \/ Fail(c, "rewriteRequired") \/ Fail(c, "transition")
               /\ UNCHANGED seen
            \/ Conflict(c) /\ UNCHANGED seen
            \/ /\ r # NoRow /\ r.json # NoDocument
               /\ expected[c] > 0 => r.version = expected[c]
               /\ \/ r.state = TransitionTo(req[c].op) /\ Return(c, r) /\ UNCHANGED seen
                  \/ /\ seen' = [seen EXCEPT ![c] = r] /\ Moves(c, "write") /\ UNCHANGED reply
      BY <1>3 DEF LoadForTransition, isLegacyOpaqueSoul, Goto, Moves
    <2>3. CASE /\ Fail(c, "notFound") \/ Fail(c, "rewriteRequired") \/ Fail(c, "transition")
               /\ UNCHANGED seen
      BY <2>1, <2>3, FailRefuses, RefusalKeepsAnswers DEF Statuses
    <2>4. CASE Conflict(c) /\ UNCHANGED seen
      <3>1. CASE Refuses(c)
        BY <2>1, <2>4, <3>1, RefusalKeepsAnswers
      <3>2. CASE Moves(c, "seedLoad") /\ UNCHANGED reply
        <4>1. SeedInv(c)'
          BY <1>0, <3>2 DEF SeedInv, Moves, TypeOK
        <4> QED BY <2>1, <2>4, <3>2, <4>1, MoveKeepsAnswers
      <3> QED BY <2>4, <3>1, <3>2, ConflictOutcome
    <2>5. CASE /\ r # NoRow /\ r.json # NoDocument
               /\ expected[c] > 0 => r.version = expected[c]
               /\ r.state = TransitionTo(req[c].op) /\ Return(c, r) /\ UNCHANGED seen
      <3>1. r \in values /\ r \in Row
        BY <2>5, OpFacts
      <3>2. \E h \in history : h.state = r.state /\ h.content = r.content
        BY <2>5, <3>1 DEF AnswerInv, RecordInv
      <3>3. req[c].op = "seedPublished" => r.content = req[c].doc
        BY <2>1, <2>5, <3>1 DEF AnswerInv, CallInv, SeedInv, StoreInv, VersionNamesRow
      <3>4. Asked(c)
        BY <2>1, <2>5, <3>2, <3>3 DEF Asked, OnRecord, TransitionTo
      <3> QED BY <2>1, <2>5, <3>1, <3>4, AnswerKeepsAnswers
    <2>6. CASE /\ r # NoRow /\ r.json # NoDocument
               /\ expected[c] > 0 => r.version = expected[c]
               /\ seen' = [seen EXCEPT ![c] = r] /\ Moves(c, "write") /\ UNCHANGED reply
      <3>1. r \in values /\ seen'[c] = r /\ \A d \in Calls \ {c} : seen'[d] = seen[d]
        BY <1>0, <2>6, OpFacts DEF TypeOK
      <3>2. req[c].op = "seedPublished" => r.content = req[c].doc
        BY <2>1, <2>6, <3>1 DEF AnswerInv, CallInv, SeedInv, StoreInv, VersionNamesRow
      <3>3. SeedInv(c)'
        BY <2>1, <2>6, <3>1, <3>2 DEF AnswerInv, CallInv, SeedInv, storeVars
      <3> QED BY <2>1, <2>6, <3>1, <3>3, MoveKeepsAnswers
    <2> QED BY <2>2, <2>3, <2>4, <2>5, <2>6
  <1>4. ASSUME NEW c \in Calls, Retry(c), pc[c] = "write",
               UNCHANGED <<storeVars, req, expected, seen, created>>
        PROVE  AnswerInv'
    <2>1. CASE Refuses(c)
      BY <1>4, <2>1, RefusalKeepsAnswers
    <2>2. ASSUME NEW label \in {"load", "seedLoad"}, Moves(c, label), UNCHANGED reply
          PROVE  AnswerInv'
      <3>1. pc'[c] = label
        BY <1>0, <2>2 DEF Moves, TypeOK
      <3>2. SeedInv(c)'
        BY <1>4, <3>1 DEF AnswerInv, CallInv, SeedInv, storeVars
      <3> QED BY <1>4, <2>2, <3>2, MoveKeepsAnswers
    <2> QED BY <1>4, <2>1, <2>2, RetryOutcome
  <1>5. ASSUME NEW c \in Calls, pc[c] = "write", seen[c] # NoRow, VersionHolds(c)
        PROVE  seen[c] = soulRow /\ soulRow # NoRow
    BY <1>0, <1>5 DEF SeenInv, NewestInv, VersionHolds
  <1>6. ASSUME NEW c \in Calls, WriteUpsert(c) PROVE AnswerInv'
    <2>1. /\ pc[c] = "write" /\ req[c].op = "upsert" /\ req[c].doc \in Documents
          /\ UNCHANGED <<req, expected, seen, created>>
      BY <1>0, <1>6 DEF WriteUpsert, TypeOK, Requests
    <2>2. CASE /\ seen[c] = NoRow /\ CanCreate(c)
               /\ Commit(FirstDraft(c), historyFor(FirstDraft(c), c))
               /\ Goto(c, "readBack") /\ UNCHANGED reply
      <3>1. Creates(c) /\ Moves(c, "readBack")
        BY <2>1, <2>2 DEF Creates, CanCreate, Goto, Moves
      <3> QED BY <2>1, <2>2, <3>1, CommitKeepsAnswers
    <2>3. CASE /\ seen[c] # NoRow /\ CanRevise(c)
               /\ Commit(NextDraft(c), UpsertHistory(c))
               /\ Goto(c, "readBack") /\ UNCHANGED reply
      <3>1. Revises(c) /\ Moves(c, "readBack")
        BY <1>5, <2>1, <2>3 DEF Revises, CanRevise, Goto, Moves
      <3> QED BY <2>1, <2>3, <3>1, CommitKeepsAnswers
    <2>4. CASE Retry(c) /\ UNCHANGED storeVars
      BY <1>4, <2>1, <2>4
    <2> QED BY <1>6, <2>2, <2>3, <2>4 DEF WriteUpsert
  <1>7. ASSUME NEW c \in Calls, WriteTransition(c) PROVE AnswerInv'
    <2>1. /\ pc[c] = "write" /\ req[c].op # "upsert"
          /\ UNCHANGED <<req, expected, seen, created>>
      BY <1>7 DEF WriteTransition
    <2>2. CASE /\ CanTransition(c) /\ Commit(Transitioned(c), TransitionHistory(c))
               /\ Goto(c, "readBack") /\ UNCHANGED reply
      <3>1. /\ seen[c] # NoRow /\ ~isLegacyOpaqueSoul(seen[c])
            /\ seen[c].state = TransitionFrom(req[c].op)
        BY <1>0, <2>1 DEF SeenInv
      <3>2. Transitions(c) /\ Moves(c, "readBack")
        BY <1>5, <2>1, <2>2, <3>1 DEF Transitions, CanTransition, Goto, Moves
      <3> QED BY <2>1, <2>2, <3>2, CommitKeepsAnswers
    <2>3. CASE Retry(c) /\ UNCHANGED storeVars
      BY <1>4, <2>1, <2>3
    <2> QED BY <1>7, <2>2, <2>3 DEF WriteTransition
  <1>8. ASSUME NEW c \in Calls, SeedLoad(c) PROVE AnswerInv'
    <2>1. /\ pc[c] = "seedLoad" /\ req[c].op = "seedPublished"
          /\ UNCHANGED <<storeVars, req, seedAttempt, seen, created>>
      BY <1>0, <1>8 DEF SeedLoad, ControlInv
    <2>2. PICK r \in Readable :
             \/ Goto(c, "create") /\ UNCHANGED <<expected, attempt, reply>>
             \/ Fail(c, "rewriteRequired") /\ UNCHANGED <<expected, attempt>>
             \/ r # NoRow /\ r.json # NoDocument /\ SeedDecide(c, r)
      BY <1>8 DEF SeedLoad, isLegacyOpaqueSoul
    <2>3. CASE Goto(c, "create") /\ UNCHANGED <<expected, attempt, reply>>
      <3>1. Moves(c, "create") /\ pc'[c] = "create"
        BY <1>0, <2>3 DEF Goto, Moves, TypeOK
      <3>2. SeedInv(c)'
        BY <3>1 DEF SeedInv
      <3> QED BY <2>1, <2>3, <3>1, <3>2, MoveKeepsAnswers
    <2>4. CASE Fail(c, "rewriteRequired") /\ UNCHANGED <<expected, attempt>>
      BY <2>1, <2>4, FailRefuses, RefusalKeepsAnswers DEF Statuses
    <2>5. CASE r # NoRow /\ r.json # NoDocument /\ SeedDecide(c, r)
      BY <2>1, <2>5, OpFacts, SeedDecideKeepsAnswers
    <2> QED BY <2>2, <2>3, <2>4, <2>5
  <1>9. ASSUME NEW c \in Calls, CreateInitialSoulDraft(c) PROVE AnswerInv'
    <2>1. /\ pc[c] = "create" /\ req[c].doc \in Documents
          /\ UNCHANGED <<req, attempt, expected, seen>>
      BY <1>0, <1>9 DEF CreateInitialSoulDraft, TypeOK, ControlInv, Requests
    <2>2. CASE /\ CanCreate(c) /\ Commit(FirstDraft(c), historyFor(FirstDraft(c), c))
               /\ created' = [created EXCEPT ![c] = TRUE]
               /\ Goto(c, "readCreated") /\ UNCHANGED reply
      <3>1. Creates(c) /\ Moves(c, "readCreated")
        BY <2>1, <2>2 DEF Creates, CanCreate, Goto, Moves
      <3> QED BY <2>1, <2>2, <3>1, CommitKeepsAnswers
    <2>3. CASE SeedRetry(c) /\ UNCHANGED <<storeVars, created>>
      <3>1. CASE Refuses(c)
        BY <2>1, <2>3, <3>1, RefusalKeepsAnswers
      <3>2. CASE Moves(c, "seedLoad") /\ UNCHANGED reply
        <4>1. SeedInv(c)'
          BY <1>0, <3>2 DEF SeedInv, Moves, TypeOK
        <4> QED BY <2>1, <2>3, <3>2, <4>1, MoveKeepsAnswers
      <3> QED BY <2>3, <3>1, <3>2, SeedRetryOutcome
    <2>4. CASE /\ Goto(c, "readSeed") /\ UNCHANGED <<storeVars, created, reply>>
      <3>1. Moves(c, "readSeed") /\ pc'[c] = "readSeed"
        BY <1>0, <2>4 DEF Goto, Moves, TypeOK
      <3>2. SeedInv(c)'
        BY <3>1 DEF SeedInv
      <3> QED BY <2>1, <2>4, <3>1, <3>2, MoveKeepsAnswers
    <2> QED BY <1>9, <2>2, <2>3, <2>4 DEF CreateInitialSoulDraft
  <1>10. ASSUME NEW c \in Calls, ReadCreated(c) PROVE AnswerInv'
    <2>1. /\ pc[c] = "readCreated" /\ req[c].op \in {"seedPublished", "seedDraft"}
          /\ UNCHANGED <<storeVars, req, seedAttempt, seen, created>>
      BY <1>0, <1>10 DEF ReadCreated, ControlInv
    <2>2. \A r \in values : r # NoRow => r.json # NoDocument
      BY <2>1 DEF AnswerInv, CallInv, CreatedInv, RecordInv
    <2>3. PICK r \in Readable :
             \/ Fail(c, "notFound") /\ UNCHANGED <<expected, attempt>>
             \/ r # NoRow /\ req[c].op = "seedPublished" /\ SeedDecide(c, r)
             \/ /\ r # NoRow /\ req[c].op # "seedPublished" /\ Return(c, r)
                /\ UNCHANGED <<expected, attempt>>
      BY <1>10 DEF ReadCreated
    <2>4. CASE Fail(c, "notFound") /\ UNCHANGED <<expected, attempt>>
      BY <2>1, <2>4, FailRefuses, RefusalKeepsAnswers DEF Statuses
    <2>5. CASE r # NoRow /\ req[c].op = "seedPublished" /\ SeedDecide(c, r)
      BY <2>1, <2>2, <2>5, OpFacts, SeedDecideKeepsAnswers
    <2>6. CASE /\ r # NoRow /\ req[c].op # "seedPublished" /\ Return(c, r)
               /\ UNCHANGED <<expected, attempt>>
      <3>1. Asked(c) /\ r \in Row
        BY <2>1, <2>6, OpFacts DEF Asked
      <3> QED BY <2>1, <2>6, <3>1, AnswerKeepsAnswers
    <2> QED BY <2>3, <2>4, <2>5, <2>6
  <1>11. ASSUME NEW c \in Calls, ReadSeed(c) \/ ReadBack(c) \/ Interrupt(c) PROVE AnswerInv'
    <2>1. /\ UNCHANGED <<storeVars, req, expected, seen, created>>
          /\ \/ Fail(c, "notFound") \/ Fail(c, "conflict") \/ Fail(c, "error")
             \/ /\ pc[c] \in {"readSeed", "readBack"}
                /\ \E r \in Readable : r # NoRow /\ Return(c, r)
      BY <1>11 DEF ReadSeed, ReadBack, Interrupt
    <2>2. CASE Fail(c, "notFound") \/ Fail(c, "conflict") \/ Fail(c, "error")
      BY <2>1, <2>2, FailRefuses, RefusalKeepsAnswers DEF Statuses
    <2>3. CASE /\ pc[c] \in {"readSeed", "readBack"}
               /\ \E r \in Readable : r # NoRow /\ Return(c, r)
      <3>1. Asked(c)
        BY <1>0, <2>3 DEF AnswerInv, CallInv, AskedInv, ControlInv, Asked
      <3> QED BY <2>1, <2>3, <3>1, OpFacts, AnswerKeepsAnswers
    <2> QED BY <2>1, <2>2, <2>3
  <1>12. CASE UNCHANGED vars
    <2>1. RecordInv'
      BY <1>12 DEF vars, storeVars, AnswerInv, RecordInv
    <2>2. ASSUME NEW d \in Calls PROVE CallInv(d)'
      <3>1. UNCHANGED <<history, values, pc, req, expected, seen, created, reply>>
        BY <1>12 DEF vars, storeVars, callVars
      <3> QED BY <3>1, RestKeepsCall DEF AnswerInv
    <2> QED BY <2>1, <2>2 DEF AnswerInv
  <1> QED BY <1>1, <1>2, <1>3, <1>6, <1>7, <1>8, <1>9, <1>10, <1>11, <1>12 DEF Next, Step

\* A caller that is told ok has what it asked for on record, exactly once, for
\* every number of calls, documents and retries and for arbitrarily stale reads
\* (store.go:337-424, 527-588).
THEOREM AnswersHold == Spec => []AnswersAreTrue
  <1>1. AnswerInv => AnswersAreTrue
    BY DEF AnswerInv, CallInv, AskedInv, CreatedInv, AuthoredInv, Asked, OnRecord,
           AnswersAreTrue, UpsertExactlyOnce, SeedAcknowledgesDeclaration,
           TransitionAcknowledged
  <1> QED BY <1>1, InitAnswerInv, StepKeepsAnswers, StoreSafe, PTL DEF Spec

\* What one step may store for a seed.
SeedWrite(c) ==
  /\ req[c].op \in {"seedPublished", "seedDraft"}
  /\ pc[c] \in {"create", "write"}
  /\ pc'[c] # pc[c]
  /\ soulRow' # soulRow
  => /\ soulRow'.content = req[c].doc
     /\ soulRow # NoRow => /\ soulRow.content = req[c].doc
                           /\ soulRow.state = "draft"
                           /\ soulRow'.state = "published"

\* Only one call moves in a step: a step that moves c is c's own.
LEMMA StepOfCall ==
  ASSUME StoreInv, NEW c \in Calls, NEW d \in Calls, Begin(d) \/ Step(d) \/ Interrupt(d),
         pc'[c] # pc[c]
  PROVE  d = c
  <1> SUFFICES ASSUME d # c PROVE FALSE
    OBVIOUS
  <1>0. pc \in [Calls -> Labels]
    BY DEF StoreInv, TypeOK
  <1>1. \A label : Goto(d, label) => pc'[c] = pc[c]
    BY <1>0 DEF Goto
  <1>2. (\A s : Fail(d, s) => pc'[c] = pc[c]) /\ (\A r : Return(d, r) => pc'[c] = pc[c])
    BY <1>1 DEF Fail, Return
  <1>3. SeedRetry(d) \/ Conflict(d) \/ Retry(d) => pc'[c] = pc[c]
    BY <1>1, <1>2 DEF SeedRetry, Conflict, Retry
  <1>4. \A r : SeedDecide(d, r) => pc'[c] = pc[c]
    BY <1>1, <1>2 DEF SeedDecide
  <1>5. \A label : d # c /\ Goto(d, label) => pc'[c] = pc[c]
    BY <1>1
  <1>6. ~Begin(d)
    BY <1>1 DEF Begin
  <1>7. ~Interrupt(d)
    BY <1>2 DEF Interrupt
  <1>8. ~LoadForUpsert(d) /\ ~ReadSeed(d) /\ ~ReadBack(d)
    BY <1>1, <1>2 DEF LoadForUpsert, ReadSeed, ReadBack
  <1>9. ~LoadForTransition(d)
    BY <1>1, <1>2, <1>3 DEF LoadForTransition
  <1>10. ~WriteUpsert(d) /\ ~WriteTransition(d) /\ ~CreateInitialSoulDraft(d)
    BY <1>1, <1>3 DEF WriteUpsert, WriteTransition, CreateInitialSoulDraft
  <1>11. ~SeedLoad(d) /\ ~ReadCreated(d)
    BY <1>1, <1>2, <1>4 DEF SeedLoad, ReadCreated
  <1> QED BY <1>6, <1>7, <1>8, <1>9, <1>10, <1>11 DEF Step

LEMMA SeedsWriteTheirOwn ==
  ASSUME StoreInv, AnswerInv, [Next]_vars, NEW c \in Calls PROVE SeedWrite(c)
  <1> SUFFICES ASSUME req[c].op \in {"seedPublished", "seedDraft"},
                      pc[c] \in {"create", "write"}, pc'[c] # pc[c], soulRow' # soulRow
               PROVE  /\ soulRow'.content = req[c].doc
                      /\ soulRow # NoRow => /\ soulRow.content = req[c].doc
                                            /\ soulRow.state = "draft"
                                            /\ soulRow'.state = "published"
    BY DEF SeedWrite
  <1>1. Begin(c) \/ Step(c) \/ Interrupt(c)
    BY StepOfCall DEF Next, vars, storeVars
  <1>2. CASE pc[c] = "create"
    <2>1. CreateInitialSoulDraft(c) /\ soulRow' = FirstDraft(c) /\ soulRow = NoRow
      BY <1>1, <1>2 DEF Begin, Step, Interrupt, LoadForUpsert, LoadForTransition, WriteUpsert,
         WriteTransition, SeedLoad, CreateInitialSoulDraft, ReadCreated, ReadSeed, ReadBack,
         storeVars, Commit, CanCreate
    <2> QED BY <2>1 DEF FirstDraft
  <1>3. CASE pc[c] = "write"
    <2>1. WriteTransition(c) /\ CanTransition(c) /\ soulRow' = Transitioned(c)
      BY <1>1, <1>3 DEF Begin, Step, Interrupt, LoadForUpsert, LoadForTransition, WriteUpsert,
         WriteTransition, SeedLoad, CreateInitialSoulDraft, ReadCreated, ReadSeed, ReadBack,
         storeVars, Commit
    <2>2. req[c].op = "seedPublished"
      BY <1>3 DEF StoreInv, ControlInv
    <2>3. seen[c] = soulRow /\ seen[c].state = "draft" /\ seen[c].content = req[c].doc
      BY <1>3, <2>1, <2>2 DEF StoreInv, SeenInv, NewestInv, CanTransition, VersionHolds,
         AnswerInv, CallInv, SeedInv, TransitionFrom
    <2> QED BY <2>1, <2>2, <2>3 DEF Transitioned, TransitionTo
  <1> QED BY <1>2, <1>3

\* A seed writes its own declaration and nothing else, over no other document
\* (store.go:478-481, 534-536).
THEOREM SeedsWriteDeclarations == Spec => SeedWritesOnlyItsDeclaration
  <1>1. StoreInv /\ AnswerInv /\ [Next]_vars => [\A c \in Calls : SeedWrite(c)]_vars
    BY SeedsWriteTheirOwn
  <1>2. Spec => [][\A c \in Calls : SeedWrite(c)]_vars
    BY <1>1, InitAnswerInv, StepKeepsAnswers, StoreSafe, PTL DEF Spec
  <1> QED BY <1>2 DEF SeedWritesOnlyItsDeclaration, SeedWrite
-----------------------------------------------------------------------------
(***************************************************************************)
(* SoulDocument, for documents of any weight and any size limit: a row     *)
(* that was accepted is the document that was written, and is read again   *)
(* in every state it is moved to.                                          *)
(***************************************************************************)
\* A document has the fields of the tool's argument and no other.
HasFields(d)  == DOMAIN d = DOMAIN Values
IsDocument(d) == HasFields(d) /\ d = [f \in DOMAIN d |-> d[f]]

\* An accepted row is the document that was written.
AcceptedInv ==
  /\ IsDocument(written)
  /\ ~IsOpaque(soul)
  /\ soul.json = [written EXCEPT !.schema = "v2"]

DocumentInv ==
  soul # NoSoul =>
    /\ soul.soulVersion \in Nat /\ soul.version \in Nat
    /\ Reads(soul)
    /\ soul = PreV2 \/ AcceptedInv

LEMMA DocumentFields == {"schema", "summary", "notes", "soulNotes"} \subseteq DOMAIN Values
  BY DEF Values

LEMMA NearIsDocument ==
  ASSUME NEW e, HasFields(e), NEW d \in Near(e) PROVE IsDocument(d)
  <1>1. PICK f \in DOMAIN Values : \E v \in Values[f] : d = [e EXCEPT ![f] = v]
    BY DEF Near
  <1> QED BY <1>1 DEF IsDocument, HasFields

\* What the tool is given has its fields, and so has what is stored of it.
LEMMA InputsAreDocuments ==
  ASSUME NEW input \in Inputs
  PROVE  IsDocument(input) /\ IsDocument(Trimmed(input))
  <1>1. HasFields(Seed) BY DEF HasFields, Seed, Values
  <1>2. HasFields(Recovery) BY DEF HasFields, Recovery, Seed, Values
  <1>3. HasFields(Plain) BY DEF HasFields, Plain, Seed, Values
  <1>4. IsDocument(input) BY <1>1, <1>2, <1>3, NearIsDocument DEF Inputs
  <1> QED BY <1>4 DEF Trimmed, IsDocument, HasFields

\* Encoding a document loses nothing (MarshalJSON of the notes).
LEMMA EncodingIsFaithful ==
  ASSUME NEW d, IsDocument(d) PROVE Encoded(d) = d
  BY DocumentFields DEF IsDocument, HasFields, Encoded, MarshalNotes

\* The version columns of a pre-v2 row fit beside the lightest document.
LEMMA PreV2Reads == Reads(PreV2) /\ PreV2.soulVersion \in Nat /\ PreV2.version \in Nat
  <1> DEFINE r == Projected(PreV2)
  <1>1. /\ r.json = PreV2.json /\ r.state = "draft" /\ r.soulVersion = 1 /\ r.version = 1
        /\ PreV2.soulVersion = 0 /\ PreV2.version = 1
    BY DEF Projected, IsOpaque, PreV2
  <1> HIDE DEF r
  <1> DEFINE j == PreV2.json
  <1>a. /\ j.extra = "none" /\ j.schema = "v2" /\ j.agentID = "mine" /\ j.body = "fits"
        /\ j.summary = "absent" /\ j.structure = "absent" /\ j.provenance = "absent"
        /\ j.weight = Lightest
    BY DEF PreV2, Plain, Seed
  <1>2. Decodes(r.json) /\ Valid(r.json) /\ r.json.schema = "v2"
    BY <1>1, <1>a DEF Decodes, OneValue, ClosedObject, ClosedSection, ClosedNotes,
         ClosedSoul, ClosedRefusals, Valid, ValidAgentID
  <1>4. Lightest \in Nat /\ Lightest + 7 <= Limit
    <2>1. PICK w \in Weights : w + 7 <= Limit /\ \A v \in Weights : w <= v
      BY DocumentAssumption
    <2>2. Lightest \in Weights /\ \A v \in Weights : Lightest <= v
      BY <2>1 DEF Lightest
    <2>3. Lightest <= w /\ Lightest \in Nat /\ w \in Nat /\ Limit \in Nat
      BY <2>1, <2>2, DocumentAssumption
    <2> QED BY <2>1, <2>3
  <1>5. Bytes(r) <= Limit
    BY <1>1, <1>a, <1>4, DocumentAssumption DEF Bytes, Digits, StateBytes
  <1>6. ValidRecord(r) BY <1>1, <1>2, <1>5 DEF ValidRecord
  <1>7. Decodes(PreV2.json) BY <1>1, <1>2
  <1> QED BY <1>1, <1>6, <1>7 DEF r, Reads

LEMMA DocumentStarts == DocumentInit => DocumentInv
  BY PreV2Reads DEF DocumentInit, DocumentInv

\* An accepted document is read again as it was written.
LEMMA UpsertReadsBack ==
  ASSUME DocumentInv, NEW input \in Inputs, Upsert(input)
  PROVE  DocumentInv'
  <1> DEFINE d == Trimmed(input)
             r == StampedRow(d, "draft", NextSoul(soul), NextVersion(soul))
             e == [d EXCEPT !.schema = "v2"]
  <1>1. IsDocument(d) /\ IsDocument(e)
    BY InputsAreDocuments DEF IsDocument, HasFields
  <1>2. Encoded(e) = e BY <1>1, EncodingIsFaithful
  <1>3. /\ r.json = e /\ r.state = "draft"
        /\ r.soulVersion = NextSoul(soul) /\ r.version = NextVersion(soul)
    BY <1>2 DEF StampedRow
  <1>4. NextSoul(soul) \in Nat /\ NextVersion(soul) \in Nat
    BY DEF DocumentInv, NextSoul, NextVersion, Projected, IsOpaque
  <1>5. ValidRecord(r) /\ soul' = r /\ written' = d /\ Decodes(input)
    BY DEF Upsert, Parses
  <1>6. ~IsOpaque(r) /\ Projected(r) = r
    <2>1. NextSoul(soul) >= 1 BY <1>3, <1>5 DEF ValidRecord
    <2>2. r.soulVersion # 0 BY <2>1, <1>3, <1>4
    <2> HIDE DEF r
    <2> QED BY <2>2 DEF IsOpaque, Projected
  <1>7. Decodes(e)
    <2>1. /\ e.extra = input.extra /\ e.provenance = input.provenance /\ e.body = input.body
          /\ e.structure = input.structure /\ e.section = input.section /\ e.soul = input.soul
          /\ e.notes = input.notes /\ e.soulNotes = input.soulNotes
          /\ e.refusals = input.refusals
          /\ input.summary # "null" => e.summary # "null"
      BY DocumentFields, InputsAreDocuments DEF Trimmed, IsDocument, HasFields, Values
    <2> QED BY <1>5, <2>1 DEF Decodes, OneValue, ClosedObject, ClosedSection, ClosedNotes,
                 ClosedSoul, ClosedRefusals
  <1> HIDE DEF r, d, e
  <1>8. Reads(r) BY <1>3, <1>5, <1>6, <1>7 DEF Reads
  <1>9. AcceptedInv'
    <2>1. soul'.json = [written' EXCEPT !.schema = "v2"] BY <1>3, <1>5 DEF e
    <2> QED BY <2>1, <1>1, <1>5, <1>6 DEF AcceptedInv, IsDocument, HasFields, IsOpaque
  <1> QED BY <1>3, <1>4, <1>5, <1>8, <1>9 DEF DocumentInv, Reads

\* Publish and archive stamp the document that was written anew.
LEMMA MoveReadsBack ==
  ASSUME DocumentInv, NEW from, NEW to, MoveTo(from, to)
  PROVE  DocumentInv'
  <1> DEFINE r == StampedRow(soul.json, to, soul.soulVersion, soul.version + 1)
             e == [soul.json EXCEPT !.schema = "v2"]
  <1>1. /\ soul # NoSoul /\ ~IsOpaque(soul) /\ ValidRecord(r) /\ soul' = r /\ written' = written
        /\ Reads(soul)
    BY DEF MoveTo
  <1>2. AcceptedInv /\ soul.soulVersion \in Nat /\ soul.version \in Nat
    BY <1>1 DEF DocumentInv, PreV2, IsOpaque
  <1>3. IsDocument(soul.json) /\ e = soul.json
    BY <1>2, DocumentFields DEF AcceptedInv, IsDocument, HasFields
  <1>4. /\ r.json = soul.json /\ r.soulVersion = soul.soulVersion /\ r.version = soul.version + 1
    BY <1>3, EncodingIsFaithful DEF StampedRow
  <1> HIDE DEF r, e
  <1>5. ~IsOpaque(r) /\ Projected(r) = r
    BY <1>1, <1>4 DEF IsOpaque, Projected
  <1>6. Reads(r) BY <1>1, <1>4, <1>5 DEF Reads
  <1>7. AcceptedInv'
    BY <1>1, <1>2, <1>4, <1>5 DEF AcceptedInv, IsDocument, HasFields, IsOpaque
  <1> QED BY <1>1, <1>2, <1>4, <1>6, <1>7 DEF DocumentInv, Reads

LEMMA DocumentStepKeeps == DocumentInv /\ [DocumentNext]_documentVars => DocumentInv'
  <1> SUFFICES ASSUME DocumentInv, [DocumentNext]_documentVars PROVE DocumentInv'
    OBVIOUS
  <1>1. CASE UNCHANGED documentVars
    BY <1>1 DEF documentVars, DocumentInv, AcceptedInv, IsDocument, HasFields, Reads, IsOpaque
  <1> QED BY <1>1, UpsertReadsBack, MoveReadsBack DEF DocumentNext

\* The authored fields decide: two documents are the same declaration exactly
\* when they differ in nothing but an absent schema (sameSoulDocumentAuthoringContent).
LEMMA SameIsEqual ==
  ASSUME NEW e, NEW d, IsDocument(e), IsDocument(d), e.schema = "v2"
  PROVE  SameAuthoring(e, d) <=> [d EXCEPT !.schema = IF @ = "" THEN "v2" ELSE @] = e
  <1> DEFINE f == [d EXCEPT !.schema = IF @ = "" THEN "v2" ELSE @]
             g == [e EXCEPT !.schema = IF @ = "" THEN "v2" ELSE @]
  <1>1. IsDocument(f) /\ IsDocument(g) /\ g = e
    BY DocumentFields DEF IsDocument, HasFields
  <1>2. Encoded(f) = f /\ Encoded(g) = g BY <1>1, EncodingIsFaithful
  <1> QED BY <1>1, <1>2 DEF SameAuthoring, AuthoringBytes

LEMMA DocumentInvReadsBack == DocumentInv => StoredReadsBack
  <1> SUFFICES ASSUME DocumentInv, soul # NoSoul
               PROVE  /\ Reads(soul)
                      /\ ~IsOpaque(soul) =>
                           /\ soul.json = [written EXCEPT !.schema = "v2"]
                           /\ \A d \in Near(written) : SameAuthoring(soul.json, d) <=>
                                [d EXCEPT !.schema = IF @ = "" THEN "v2" ELSE @] = soul.json
    BY DEF StoredReadsBack
  <1>1. Reads(soul) BY DEF DocumentInv
  <1>2. ASSUME ~IsOpaque(soul) PROVE AcceptedInv
    BY <1>2 DEF DocumentInv, PreV2, IsOpaque
  <1>3. ASSUME AcceptedInv PROVE IsDocument(soul.json) /\ soul.json.schema = "v2"
    BY <1>3, DocumentFields DEF AcceptedInv, IsDocument, HasFields
  <1>4. ASSUME AcceptedInv, NEW d \in Near(written)
        PROVE  SameAuthoring(soul.json, d) <=>
                 [d EXCEPT !.schema = IF @ = "" THEN "v2" ELSE @] = soul.json
    <2>1. IsDocument(d) BY <1>4, NearIsDocument DEF AcceptedInv, IsDocument
    <2> QED BY <2>1, <1>3, <1>4, SameIsEqual
  <1> QED BY <1>1, <1>2, <1>4 DEF AcceptedInv

\* Whatever agent_soul_upsert accepted can be read again in every state it is
\* moved to, up to the last byte of MaxAgentSoulDocumentBytes, and is what was
\* written to the last field, so that a seed is recognized (ValidateSoulDocument,
\* Stamp, sameSoulDocumentAuthoringContent).
THEOREM DocumentsReadBack == DocumentSpec => []StoredReadsBack
  BY DocumentStarts, DocumentStepKeeps, DocumentInvReadsBack, PTL DEF DocumentSpec
=============================================================================
