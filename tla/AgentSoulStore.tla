--------------------------- MODULE AgentSoulStore ---------------------------
(***************************************************************************)
(* internal/agentcontent/store.go for one agent_soul: concurrent calls of  *)
(* Upsert, Publish, Archive, SeedPublished and SeedDraft against one       *)
(* DynamoDB row and its history rows.  A step is one store request (an     *)
(* eventually consistent read or a conditional transaction) with the code  *)
(* up to the next one.                                                     *)
(*                                                                         *)
(* Rows of different (account, agent) pairs never meet in a request, so    *)
(* one pair stands for all.  A call stands for its authenticated subject.  *)
(***************************************************************************)
EXTENDS Integers

CONSTANTS Calls,           \* store calls, each made once
          Documents,       \* authored documents, equal iff same authoring content
          PreV2Author,     \* the subject of a row written before documents
          RetryLimit,      \* updateRetryLimit
          StaleReads,      \* may First return an earlier value of the row?
          LegacyVersions,  \* record versions a pre-v2 opaque row may carry
          NoRow,           \* the row does not exist
          NoDocument       \* empty DocumentJSON, and the document of a transition

ASSUME RetryLimitAssumption == RetryLimit \in Nat \ {0}
ASSUME StaleReadsAssumption == StaleReads \in BOOLEAN
ASSUME LegacyAssumption == LegacyVersions \subseteq Nat \ {0}

VARIABLES soulRow,     \* the stored agent_soul row, or NoRow
          values,      \* every value the row has had
          history,     \* the stored history rows
          pc, req,     \* per call: the next request, and the input
          attempt,     \* per call: index of the innermost retry loop
          seedAttempt, \* per call: index of SeedPublished's own loop
          expected,    \* per call: expectedRecordVersion, 0 for any
          seen,        \* per call: the row the pending write is based on
          created,     \* per call: this seed created the row
          reply        \* per call: what the caller received

storeVars == <<soulRow, values, history>>
callVars  == <<pc, req, attempt, seedAttempt, expected, seen, created, reply>>
vars      == <<storeVars, callVars>>

-----------------------------------------------------------------------------
Subjects == Calls \cup {PreV2Author}
States   == {"draft", "published", "archived"}

\* The document as persisted in DocumentJSON, with its server-stamped metadata.
Stamped == [content : Documents, by : Subjects, soulVersion : Nat,
            version : Nat, state : States]

Row == [version : Nat, soulVersion : Nat, state : States, content : Documents,
        by : Subjects, json : Stamped \cup {NoDocument}]

HistoryRow == [version : Nat, soulVersion : Nat, state : States,
               content : Documents, by : Subjects, actor : Subjects]

ASSUME NoRowAssumption == NoRow \notin Row
ASSUME NoDocumentAssumption == NoDocument \notin Stamped \cup Documents

Requests == [op : {"upsert", "seedPublished", "seedDraft"}, doc : Documents]
              \cup [op : {"publish", "archive"}, doc : {NoDocument}]

Labels == {"idle", "load", "write", "seedLoad", "create", "readCreated",
           "readSeed", "readBack", "done"}

Statuses == {"none", "ok", "notFound", "conflict", "transition",
             "rewriteRequired", "error"}

Replies == [status : Statuses, row : Row \cup {NoRow}, created : BOOLEAN]

NoReply == [status |-> "none", row |-> NoRow, created |-> FALSE]

LegacyRows == [version : LegacyVersions, soulVersion : {0}, state : States,
               content : Documents, by : {PreV2Author}, json : {NoDocument}]

\* DynamoDB reads without ConsistentRead: any value the row has had.
Readable == IF StaleReads THEN values ELSE {soulRow}

NeverLegacy(r) == FALSE
isLegacyOpaqueSoul(r) == r.json = NoDocument

EffectiveSoulVersion(r) == IF r.soulVersion < 1 THEN r.version ELSE r.soulVersion

stampSoulDocument(d, state, soulVersion, version, subject) ==
  [content |-> d, by |-> subject, soulVersion |-> soulVersion,
   version |-> version, state |-> state]

historyFor(r, actor) ==
  [version |-> r.version, soulVersion |-> r.soulVersion, state |-> r.state,
   content |-> r.content, by |-> r.by, actor |-> actor]

\* attribute_not_exists on the history key, CONTENT#agent_soul#HISTORY#sv#state.
HistoryKeyFree(h) ==
  ~ \E x \in history : x.soulVersion = h.soulVersion /\ x.state = h.state

\* The soul_version of the next draft.
KeepDraftVersion(r) ==
  IF r.state = "draft" THEN EffectiveSoulVersion(r) ELSE EffectiveSoulVersion(r) + 1
NextSoulVersion(r) == EffectiveSoulVersion(r) + 1

AlwaysFromDraft(op) == "draft"
\* The states transitionSoul is called with by Publish, SeedPublished, Archive.
TransitionFrom(op) == IF op = "archive" THEN "published" ELSE "draft"
TransitionTo(op)   == IF op = "archive" THEN "archived" ELSE "published"

-----------------------------------------------------------------------------
Init ==
  /\ soulRow \in {NoRow} \cup LegacyRows
  /\ values = {soulRow}
  /\ history = {}
  /\ pc = [c \in Calls |-> "idle"]
  /\ req = [c \in Calls |-> [op |-> "publish", doc |-> NoDocument]]
  /\ attempt = [c \in Calls |-> 0]
  /\ seedAttempt = [c \in Calls |-> 0]
  /\ expected = [c \in Calls |-> 0]
  /\ seen = [c \in Calls |-> NoRow]
  /\ created = [c \in Calls |-> FALSE]
  /\ reply = [c \in Calls |-> NoReply]

Goto(c, label) == pc' = [pc EXCEPT ![c] = label]

Return(c, r) ==
  /\ Goto(c, "done")
  /\ reply' = [reply EXCEPT ![c] = [status |-> "ok", row |-> r,
                                    created |-> created[c]]]

Fail(c, status) ==
  /\ Goto(c, "done")
  /\ reply' = [reply EXCEPT ![c] = [NoReply EXCEPT !.status = status]]

\* SeedPublished's "continue": the next round of its own loop, or a conflict.
SeedRetry(c) ==
  IF seedAttempt[c] + 1 < RetryLimit
  THEN /\ seedAttempt' = [seedAttempt EXCEPT ![c] = @ + 1]
       /\ Goto(c, "seedLoad")
       /\ UNCHANGED reply
  ELSE /\ Fail(c, "conflict")
       /\ UNCHANGED seedAttempt

\* ErrContentConflict reaches the caller, except that SeedPublished loops on it.
Conflict(c) ==
  IF req[c].op = "seedPublished"
  THEN SeedRetry(c)
  ELSE Fail(c, "conflict") /\ UNCHANGED seedAttempt

RetryOnceMore(c) ==
  IF attempt[c] < RetryLimit
  THEN /\ attempt' = [attempt EXCEPT ![c] = @ + 1]
       /\ Goto(c, "load")
       /\ UNCHANGED <<reply, seedAttempt>>
  ELSE Conflict(c) /\ UNCHANGED attempt

\* "continue" in upsertSoul and transitionSoul after a failed condition.
Retry(c) ==
  IF attempt[c] + 1 < RetryLimit
  THEN /\ attempt' = [attempt EXCEPT ![c] = @ + 1]
       /\ Goto(c, "load")
       /\ UNCHANGED <<reply, seedAttempt>>
  ELSE Conflict(c) /\ UNCHANGED attempt

\* One TransactWrite that succeeds: the row and its history row together.
Commit(r, h) ==
  /\ soulRow' = r
  /\ values' = values \cup {r}
  /\ history' = history \cup {h}

-----------------------------------------------------------------------------
Begin(c) ==
  /\ pc[c] = "idle"
  /\ \E q \in Requests :
       /\ req' = [req EXCEPT ![c] = q]
       /\ Goto(c, CASE q.op = "seedPublished" -> "seedLoad"
                    [] q.op = "seedDraft"     -> "create"
                    [] OTHER                  -> "load")
  /\ UNCHANGED <<storeVars, attempt, seedAttempt, expected, seen, created, reply>>

\* upsertSoul's loadRecord: any row, or none, is a base for the next draft.
LoadForUpsert(c) ==
  /\ pc[c] = "load"
  /\ req[c].op = "upsert"
  /\ \E r \in Readable : seen' = [seen EXCEPT ![c] = r]
  /\ Goto(c, "write")
  /\ UNCHANGED <<storeVars, req, attempt, seedAttempt, expected, created, reply>>

\* transitionSoul's loadRecord and the checks that precede its transaction.
LoadForTransition(c) ==
  /\ pc[c] = "load"
  /\ req[c].op # "upsert"
  /\ \E r \in Readable :
       \/ /\ r = NoRow
          /\ Fail(c, "notFound")
          /\ UNCHANGED <<seen, seedAttempt>>
       \/ /\ r # NoRow
          /\ isLegacyOpaqueSoul(r)
          /\ Fail(c, "rewriteRequired")
          /\ UNCHANGED <<seen, seedAttempt>>
       \/ /\ r # NoRow
          /\ ~isLegacyOpaqueSoul(r)
          /\ expected[c] > 0 /\ r.version # expected[c]
          /\ Conflict(c)
          /\ UNCHANGED seen
       \/ /\ r # NoRow
          /\ ~isLegacyOpaqueSoul(r)
          /\ expected[c] > 0 => r.version = expected[c]
          /\ \/ /\ r.state = TransitionTo(req[c].op)
                /\ Return(c, r)
                /\ UNCHANGED seen
             \/ /\ r.state \notin {TransitionTo(req[c].op), TransitionFrom(req[c].op)}
                /\ Fail(c, "transition")
                /\ UNCHANGED seen
             \/ /\ r.state = TransitionFrom(req[c].op)
                /\ seen' = [seen EXCEPT ![c] = r]
                /\ Goto(c, "write")
                /\ UNCHANGED reply
          /\ UNCHANGED seedAttempt
  /\ UNCHANGED <<storeVars, req, attempt, expected, created>>

FirstDraft(c) ==
  [version |-> 1, soulVersion |-> 1, state |-> "draft", content |-> req[c].doc,
   by |-> c, json |-> stampSoulDocument(req[c].doc, "draft", 1, 1, c)]

\* The row upsertSoul's update makes of the stored one: Set of each field, Add
\* of the version; the document was stamped from the row that was read.
NextDraft(c) ==
  LET next == NextSoulVersion(seen[c])
  IN  [version |-> soulRow.version + 1, soulVersion |-> next, state |-> "draft",
       content |-> req[c].doc, by |-> c,
       json |-> stampSoulDocument(req[c].doc, "draft", next, seen[c].version + 1, c)]

\* The document transitionSoul stamps: the one that was read, its author kept.
TransitionDocument(c) ==
  stampSoulDocument(seen[c].content, TransitionTo(req[c].op),
                    EffectiveSoulVersion(seen[c]), seen[c].version + 1, seen[c].by)

TransitionedInPlace(c) ==
  [soulRow EXCEPT !.state = TransitionTo(req[c].op), !.json = TransitionDocument(c)]

\* The row transitionSoul's update makes: document, state and version change.
Transitioned(c) ==
  [version |-> soulRow.version + 1, soulVersion |-> soulRow.soulVersion,
   state |-> TransitionTo(req[c].op), content |-> soulRow.content,
   by |-> soulRow.by, json |-> TransitionDocument(c)]

\* The history row is built from the row that was read, not from the stored one.
UpsertHistory(c) ==
  historyFor([version |-> seen[c].version + 1,
              soulVersion |-> NextSoulVersion(seen[c]),
              state |-> "draft", content |-> req[c].doc, by |-> c], c)

TransitionHistory(c) ==
  historyFor([version |-> seen[c].version + 1, soulVersion |-> seen[c].soulVersion,
              state |-> TransitionTo(req[c].op), content |-> seen[c].content,
              by |-> seen[c].by], c)

RowExists(c) == soulRow # NoRow
\* ConditionVersion(current.Version) on the stored row.
VersionHolds(c) == soulRow # NoRow /\ soulRow.version = seen[c].version

CanCreate(c) == soulRow = NoRow /\ HistoryKeyFree(historyFor(FirstDraft(c), c))
CanRevise(c) == VersionHolds(c) /\ HistoryKeyFree(UpsertHistory(c))
CanTransition(c) == VersionHolds(c) /\ HistoryKeyFree(TransitionHistory(c))

WriteUpsert(c) ==
  /\ pc[c] = "write"
  /\ req[c].op = "upsert"
  /\ \/ /\ seen[c] = NoRow
        /\ CanCreate(c)
        /\ Commit(FirstDraft(c), historyFor(FirstDraft(c), c))
        /\ Goto(c, "readBack")
        /\ UNCHANGED <<attempt, seedAttempt, reply>>
     \/ /\ seen[c] # NoRow
        /\ CanRevise(c)
        /\ Commit(NextDraft(c), UpsertHistory(c))
        /\ Goto(c, "readBack")
        /\ UNCHANGED <<attempt, seedAttempt, reply>>
     \/ /\ IF seen[c] = NoRow THEN ~CanCreate(c) ELSE ~CanRevise(c)
        /\ Retry(c)
        /\ UNCHANGED storeVars
  /\ UNCHANGED <<req, expected, seen, created>>

WriteTransition(c) ==
  /\ pc[c] = "write"
  /\ req[c].op # "upsert"
  /\ \/ /\ CanTransition(c)
        /\ Commit(Transitioned(c), TransitionHistory(c))
        /\ Goto(c, "readBack")
        /\ UNCHANGED <<attempt, seedAttempt, reply>>
     \/ /\ ~CanTransition(c)
        /\ Retry(c)
        /\ UNCHANGED storeVars
  /\ UNCHANGED <<req, expected, seen, created>>

AnyDeclaration(c, r) == TRUE
SameDeclaration(c, r) == r.content = req[c].doc

AnyVersion(r) == 0
MatchedVersion(r) == r.version

\* SeedPublished compares the row it holds with the declaration, and binds the
\* publication that follows to the version of that row.
SeedDecide(c, r) ==
  \/ /\ ~SameDeclaration(c, r)
     /\ Fail(c, "conflict")
     /\ UNCHANGED <<expected, attempt>>
  \/ /\ SameDeclaration(c, r)
     /\ r.state = "published"
     /\ Return(c, r)
     /\ UNCHANGED <<expected, attempt>>
  \/ /\ SameDeclaration(c, r)
     /\ r.state = "draft"
     /\ expected' = [expected EXCEPT ![c] = MatchedVersion(r)]
     /\ attempt' = [attempt EXCEPT ![c] = 0]
     /\ Goto(c, "load")
     /\ UNCHANGED reply
  \/ /\ SameDeclaration(c, r)
     /\ r.state = "archived"
     /\ Fail(c, "transition")
     /\ UNCHANGED <<expected, attempt>>

SeedLoad(c) ==
  /\ pc[c] = "seedLoad"
  /\ \E r \in Readable :
       \/ /\ r = NoRow
          /\ Goto(c, "create")
          /\ UNCHANGED <<expected, attempt, reply>>
       \/ /\ r # NoRow
          /\ isLegacyOpaqueSoul(r)
          /\ Fail(c, "rewriteRequired")
          /\ UNCHANGED <<expected, attempt>>
       \/ /\ r # NoRow
          /\ ~isLegacyOpaqueSoul(r)
          /\ SeedDecide(c, r)
  /\ UNCHANGED <<storeVars, req, seedAttempt, seen, created>>

\* createInitialSoulDraft's transaction, for SeedPublished and SeedDraft.
CreateInitialSoulDraft(c) ==
  /\ pc[c] = "create"
  /\ \/ /\ CanCreate(c)
        /\ Commit(FirstDraft(c), historyFor(FirstDraft(c), c))
        /\ created' = [created EXCEPT ![c] = TRUE]
        /\ Goto(c, "readCreated")
        /\ UNCHANGED <<seedAttempt, reply>>
     \/ /\ ~CanCreate(c)
        /\ req[c].op = "seedPublished"
        /\ SeedRetry(c)
        /\ UNCHANGED <<storeVars, created>>
     \/ /\ ~CanCreate(c)
        /\ req[c].op = "seedDraft"
        /\ Goto(c, "readSeed")
        /\ UNCHANGED <<storeVars, seedAttempt, created, reply>>
  /\ UNCHANGED <<req, attempt, expected, seen>>

\* The Get that ends createInitialSoulDraft: it may miss the row just created,
\* and may already see what another call made of it.
ReadCreated(c) ==
  /\ pc[c] = "readCreated"
  /\ \E r \in Readable :
       \/ /\ r = NoRow
          /\ Fail(c, "notFound")
          /\ UNCHANGED <<expected, attempt>>
       \/ /\ r # NoRow
          /\ IF req[c].op = "seedPublished"
             THEN SeedDecide(c, r)
             ELSE Return(c, r) /\ UNCHANGED <<expected, attempt>>
  /\ UNCHANGED <<storeVars, req, seedAttempt, seen, created>>

\* SeedDraft over an existing soul accepts only the identical declaration.
ReadSeed(c) ==
  /\ pc[c] = "readSeed"
  /\ \E r \in Readable :
       \/ /\ r = NoRow
          /\ Fail(c, "notFound")
       \/ /\ r # NoRow
          /\ ~SameDeclaration(c, r)
          /\ Fail(c, "conflict")
       \/ /\ r # NoRow
          /\ SameDeclaration(c, r)
          /\ Return(c, r)
  /\ UNCHANGED <<storeVars, req, attempt, seedAttempt, expected, seen, created>>

ReadBackOrRetry(c) ==
  /\ pc[c] = "readBack"
  /\ \E r \in Readable :
       IF r = NoRow THEN Goto(c, "load") /\ UNCHANGED reply ELSE Return(c, r)
  /\ UNCHANGED <<storeVars, req, attempt, seedAttempt, expected, seen, created>>

\* The Get after a committed upsert or transition.
ReadBack(c) ==
  /\ pc[c] = "readBack"
  /\ \E r \in Readable :
       IF r = NoRow THEN Fail(c, "notFound") ELSE Return(c, r)
  /\ UNCHANGED <<storeVars, req, attempt, seedAttempt, expected, seen, created>>

\* The Lambda times out or dies, or a request fails for another reason than its
\* condition; a transaction may have been applied before its answer was lost.
Interrupt(c) ==
  /\ pc[c] \notin {"idle", "done"}
  /\ Fail(c, "error")
  /\ UNCHANGED <<storeVars, req, attempt, seedAttempt, expected, seen, created>>

Step(c) == \/ LoadForUpsert(c)
           \/ LoadForTransition(c)
           \/ WriteUpsert(c)
           \/ WriteTransition(c)
           \/ SeedLoad(c)
           \/ CreateInitialSoulDraft(c)
           \/ ReadCreated(c)
           \/ ReadSeed(c)
           \/ ReadBack(c)

Next == \E c \in Calls : Begin(c) \/ Step(c) \/ Interrupt(c)

Spec == Init /\ [][Next]_vars

-----------------------------------------------------------------------------
(***************************************************************************)
(* Properties                                                              *)
(***************************************************************************)

\* The types of the store and of every call's locals (store.go:154-169, 838).
TypeOK ==
  /\ soulRow \in {NoRow} \cup Row
  /\ values \in SUBSET ({NoRow} \cup Row)
  /\ history \in SUBSET HistoryRow
  /\ pc \in [Calls -> Labels]
  /\ req \in [Calls -> Requests]
  /\ attempt \in [Calls -> 0..RetryLimit - 1]
  /\ seedAttempt \in [Calls -> 0..RetryLimit - 1]
  /\ expected \in [Calls -> Nat]
  /\ seen \in [Calls -> {NoRow} \cup Row]
  /\ created \in [Calls -> BOOLEAN]
  /\ reply \in [Calls -> Replies]

\* Every row ever stored can be read back: toRecord rejects a row whose
\* document metadata differs from its columns (store.go:925-937), which would
\* lock the owner out, since every later operation starts with loadRecord.
RowsReadable ==
  \A r \in values \ {NoRow} :
    IF r.json = NoDocument
    THEN r.soulVersion = 0
    ELSE /\ r.soulVersion >= 1
         /\ r.json = stampSoulDocument(r.content, r.state, r.soulVersion,
                                       r.version, r.by)

\* The record version names one row value: two reads with the same version
\* saw the same document, so ConditionVersion (store.go:409, 786) compares
\* the whole row and a stale or reused version never passes for the current.
VersionNamesRow ==
  \A r, q \in values \ {NoRow} : r.version = q.version => r = q

\* A transaction is refused only because the row moved on: the history row it
\* would create is never already there (store.go:358, 397, 779), so no
\* lifecycle state is a dead end in which every retry conflicts.
HistoryNeverBlocks ==
  \A c \in Calls : pc[c] = "write" =>
    /\ seen[c] = NoRow /\ soulRow = NoRow =>
         HistoryKeyFree(historyFor(FirstDraft(c), c))
    /\ seen[c] # NoRow /\ VersionHolds(c) =>
         HistoryKeyFree(IF req[c].op = "upsert" THEN UpsertHistory(c)
                                                ELSE TransitionHistory(c))

\* A seed never writes a document other than its own declaration, nor over a
\* document that was there: it creates the first row, or publishes a draft
\* equal to the declaration (store.go:478-481, 534-536).
SeedWritesOnlyItsDeclaration ==
  [][\A c \in Calls :
       /\ req[c].op \in {"seedPublished", "seedDraft"}
       /\ pc[c] \in {"create", "write"}
       /\ pc'[c] # pc[c]
       /\ soulRow' # soulRow
       => /\ soulRow'.content = req[c].doc
          /\ soulRow # NoRow => /\ soulRow.content = req[c].doc
                                /\ soulRow.state = "draft"
                                /\ soulRow'.state = "published"]_vars

\* Retries apply an authoring call at most once, and an acknowledged one is in
\* the history: no successful upsert is lost to a concurrent writer, none is
\* recorded as two soul versions (store.go:337-424).
UpsertExactlyOnce ==
  \A c \in Calls :
    /\ \A h, g \in history : h.by = c /\ g.by = c => h.soulVersion = g.soulVersion
    /\ req[c].op = "upsert" /\ reply[c].status = "ok" =>
         \E h \in history : /\ h.actor = c
                            /\ h.by = c
                            /\ h.state = "draft"
                            /\ h.content = req[c].doc

\* A caller that is told its declaration was seeded can rely on it: that very
\* document was published (or, for SeedDraft, drafted), even when what the
\* call returns is a row some other call wrote since (store.go:527-548, 588).
SeedAcknowledgesDeclaration ==
  \A c \in Calls :
    /\ req[c].op = "seedPublished" /\ reply[c].status = "ok" =>
         \E h \in history : h.state = "published" /\ h.content = req[c].doc
    /\ reply[c].status = "ok" /\ reply[c].created =>
         \E h \in history : h.soulVersion = 1 /\ h.state = "draft" /\ h.by = c

\* A publish or archive is acknowledged only once the transition is on record.
TransitionAcknowledged ==
  \A c \in Calls :
    req[c].op \in {"publish", "archive"} /\ reply[c].status = "ok" =>
      \E h \in history : h.state = TransitionTo(req[c].op)

\* No write, however it interleaves, leaves a row that its reader refuses, two
\* rows under one record version, or a lifecycle state every retry conflicts on.
StoreIntact == RowsReadable /\ VersionNamesRow /\ HistoryNeverBlocks

\* A caller that is told ok has what it asked for on record, exactly once.
AnswersAreTrue ==
  UpsertExactlyOnce /\ SeedAcknowledgesDeclaration /\ TransitionAcknowledged

-----------------------------------------------------------------------------
\* The store implements the atomic lifecycle, forgetting the JSON copy.
CurrentOf(r) == [version |-> r.version, soulVersion |-> r.soulVersion,
                 state |-> r.state, content |-> r.content, by |-> r.by]

current == IF soulRow = NoRow THEN NoRow ELSE CurrentOf(soulRow)

Lifecycle == INSTANCE SoulLifecycle

ASSUME NoCurrentAssumption == NoRow \notin Lifecycle!Current

ImplementsLifecycle == Lifecycle!Spec

=============================================================================
