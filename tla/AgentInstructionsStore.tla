----------------------- MODULE AgentInstructionsStore -----------------------
(***************************************************************************)
(* internal/agentcontent/store.go for one agent_instructions record:       *)
(* concurrent agent_instructions_upsert and agent_instructions_archive     *)
(* tool calls and the SeedInstructions call of a Genesis finalization.     *)
(* Unlike a soul, the record has no history rows and no published state, a *)
(* write answers with the row it made (ReturnValues ALL_NEW), and an       *)
(* archive keeps the record's version.                                     *)
(***************************************************************************)
EXTENDS Integers

CONSTANTS Calls,       \* tool calls; a call stands for its subject
          Texts,       \* instruction bodies
          RetryLimit,  \* updateRetryLimit
          StaleReads,  \* may First return an earlier value of the row?
          NoRow,       \* the record does not exist
          NoText       \* the body of an archive call

ASSUME RetryLimitAssumption == RetryLimit \in Nat \ {0}
ASSUME StaleReadsAssumption == StaleReads \in BOOLEAN

VARIABLES row,       \* the stored record, or NoRow
          values,    \* every value the record has had
          pc, req,   \* per call: the next request, and the input
          attempt,   \* per call: index of the retry loop
          seen,      \* per call: the row the pending write is based on
          reply      \* per call: what the caller received

vars == <<row, values, pc, req, attempt, seen, reply>>

-----------------------------------------------------------------------------
Row == [version : Nat \ {0}, state : {"draft", "archived"}, content : Texts,
        by : Calls]

ASSUME NoRowAssumption == NoRow \notin Row

Requests == [op : {"upsert", "seed"}, text : Texts]
              \cup [op : {"archive"}, text : {NoText}]

Statuses == {"none", "ok", "notFound", "conflict", "error"}

NoReply == [status |-> "none", row |-> NoRow, created |-> FALSE]

Archived(r) == r # NoRow /\ r.state = "archived"

\* DynamoDB reads without ConsistentRead: any value the row has had.
Readable == IF StaleReads THEN values ELSE {row}

Init ==
  /\ row = NoRow
  /\ values = {NoRow}
  /\ pc = [c \in Calls |-> "idle"]
  /\ req = [c \in Calls |-> [op |-> "archive", text |-> NoText]]
  /\ attempt = [c \in Calls |-> 0]
  /\ seen = [c \in Calls |-> NoRow]
  /\ reply = [c \in Calls |-> NoReply]

Goto(c, label) == pc' = [pc EXCEPT ![c] = label]

Return(c, r, isNew) ==
  /\ Goto(c, "done")
  /\ reply' = [reply EXCEPT ![c] = [status |-> "ok", row |-> r, created |-> isNew]]

Fail(c, status) ==
  /\ Goto(c, "done")
  /\ reply' = [reply EXCEPT ![c] = [NoReply EXCEPT !.status = status]]

Store(r) == row' = r /\ values' = values \cup {r}

-----------------------------------------------------------------------------
\* An upsert and a seed start with IfNotExists Create; the archive tool first
\* asks Get whether the record is archived already.
Begin(c) ==
  /\ pc[c] = "idle"
  /\ \E q \in Requests :
       /\ req' = [req EXCEPT ![c] = q]
       /\ Goto(c, IF q.op = "archive" THEN "check" ELSE "create")
  /\ UNCHANGED <<row, values, attempt, seen, reply>>

FirstRow(c) == [version |-> 1, state |-> "draft", content |-> req[c].text, by |-> c]

Unconditional == TRUE
Absent == row = NoRow

Create(c) ==
  /\ pc[c] = "create"
  /\ \/ /\ Absent
        /\ Store(FirstRow(c))
        /\ Return(c, FirstRow(c), TRUE)
     \/ /\ ~Absent
        /\ Goto(c, IF req[c].op = "seed" THEN "readSeed" ELSE "load")
        /\ UNCHANGED <<row, values, reply>>
  /\ UNCHANGED <<req, attempt, seen>>

\* SeedInstructions over an existing record answers with that record.
ReadSeed(c) ==
  /\ pc[c] = "readSeed"
  /\ \E r \in Readable :
       IF r = NoRow THEN Fail(c, "notFound") ELSE Return(c, r, FALSE)
  /\ UNCHANGED <<row, values, req, attempt, seen>>

\* handleAgentInstructionsArchive's Get; what it answers for already_archived is
\* not used again.
CheckArchived(c) ==
  /\ pc[c] = "check"
  /\ \E r \in Readable :
       \/ r = NoRow /\ Fail(c, "notFound")
       \/ r # NoRow /\ Goto(c, "load") /\ UNCHANGED reply
  /\ UNCHANGED <<row, values, req, attempt, seen>>

\* loadRecord at the head of the retry loops of Upsert and Archive.
Load(c) ==
  /\ pc[c] = "load"
  /\ \E r \in Readable :
       \/ /\ r = NoRow
          /\ Fail(c, "notFound")
          /\ UNCHANGED seen
       \/ /\ r # NoRow
          /\ seen' = [seen EXCEPT ![c] = r]
          /\ Goto(c, "write")
          /\ UNCHANGED reply
  /\ UNCHANGED <<row, values, req, attempt>>

RowExists(c) == row # NoRow
VersionHolds(c) == row.version = seen[c].version

EditedInPlace(c) == [row EXCEPT !.state = "draft", !.content = req[c].text, !.by = c]
\* Upsert's update of the stored row.
Edited(c) == [version |-> row.version + 1, state |-> "draft",
              content |-> req[c].text, by |-> c]

\* Archive's update of the stored row.
Retired(c) == [version |-> row.version, state |-> "archived",
               content |-> row.content, by |-> c]

Updated(c) == IF req[c].op = "archive" THEN Retired(c) ELSE Edited(c)

AppliedThenRetried(c, r) == Goto(c, "load") /\ UNCHANGED reply
\* ReturnValues ALL_NEW: the row as this update left it.
ReturnNew(c, r) == Return(c, r, FALSE)

Write(c) ==
  /\ pc[c] = "write"
  /\ \/ /\ VersionHolds(c)
        /\ Store(Updated(c))
        /\ ReturnNew(c, Updated(c))
        /\ UNCHANGED attempt
     \/ /\ ~VersionHolds(c)
        /\ attempt[c] + 1 < RetryLimit
        /\ attempt' = [attempt EXCEPT ![c] = @ + 1]
        /\ Goto(c, "load")
        /\ UNCHANGED <<row, values, reply>>
     \/ /\ ~VersionHolds(c)
        /\ attempt[c] + 1 = RetryLimit
        /\ Fail(c, "conflict")
        /\ UNCHANGED <<row, values, attempt>>
  /\ UNCHANGED <<req, seen>>

\* The Lambda times out or dies, or a request fails for another reason than
\* its condition: the caller cannot tell whether a write was applied.
Interrupt(c) ==
  /\ pc[c] \notin {"idle", "done"}
  /\ Fail(c, "error")
  /\ UNCHANGED <<row, values, req, attempt, seen>>

\* The same loss after the request was applied.
LoseAnswer(c) ==
  /\ \/ /\ pc[c] = "create"
        /\ Absent
        /\ Store(FirstRow(c))
     \/ /\ pc[c] = "write"
        /\ VersionHolds(c)
        /\ Store(Updated(c))
  /\ Fail(c, "error")
  /\ UNCHANGED <<req, attempt, seen>>

Step(c) == Create(c) \/ ReadSeed(c) \/ CheckArchived(c) \/ Load(c) \/ Write(c)

Next == \E c \in Calls : Begin(c) \/ Step(c) \/ Interrupt(c) \/ LoseAnswer(c)

Spec == Init /\ [][Next]_vars

-----------------------------------------------------------------------------
(***************************************************************************)
(* Properties                                                              *)
(***************************************************************************)

\* The types of the record and of every call's locals (store.go:154, 838).
TypeOK ==
  /\ row \in {NoRow} \cup Row
  /\ values \in SUBSET ({NoRow} \cup Row)
  /\ pc \in [Calls -> {"idle", "create", "readSeed", "check", "load", "write", "done"}]
  /\ req \in [Calls -> Requests]
  /\ attempt \in [Calls -> 0..RetryLimit - 1]
  /\ seen \in [Calls -> {NoRow} \cup Row]
  /\ reply \in [Calls -> [status : Statuses, row : {NoRow} \cup Row, created : BOOLEAN]]

\* A version names one body for ever, although an archive reuses the version of
\* the draft it retires: a stale reader that compares versions (store.go:312,
\* 712) never mistakes one text for another.
VersionNamesContent ==
  \A r, q \in values \ {NoRow} : r.version = q.version => r.content = q.content

\* However often a call retries, its text becomes at most one version, and the
\* caller who is told "ok" holds exactly the draft that was stored for it.
UpsertAppliedOnce ==
  \A c \in Calls :
    /\ \A r, q \in values \ {NoRow} :
         r.by = c /\ q.by = c /\ r.state = "draft" /\ q.state = "draft" => r = q
    /\ req[c].op = "upsert" /\ reply[c].status = "ok" =>
         /\ reply[c].row \in values
         /\ reply[c].row.by = c
         /\ reply[c].row.content = req[c].text
         /\ reply[c].row.state = "draft"

\* An archive retires the text its call read and an upsert replaces the text
\* its call read: neither acts on a body that was written in between.
WritesFollowWhatWasRead ==
  [][\A c \in Calls :
       pc[c] = "write" /\ pc'[c] # pc[c] /\ row' # row =>
         row.content = seen[c].content]_vars

\* A Genesis seed never touches a record that is there, whatever its state:
\* the owner's text survives every replay of a finalization (store.go:594-597).
SeedOnlyCreates ==
  [][\A c \in Calls :
       req[c].op = "seed" /\ pc'[c] # pc[c] /\ row' # row => row = NoRow]_vars

\* An archived record comes back only as a new version: the version a client
\* saw archived stays archived.
ArchivedVersionStaysArchived ==
  [][Archived(row) /\ row'.state = "draft" => row'.version > row.version]_vars

\* Versions can be relied on: one names one text, and an acknowledged upsert is
\* one version, whatever its retries and other calls did (store.go:268-331).
VersionsHold == VersionNamesContent /\ UpsertAppliedOnce

\* No write acts on a text it has not read: not an upsert's, not an archive's,
\* not a replayed seed's, and none brings an archived version back.
WritesKeepTexts ==
  WritesFollowWhatWasRead /\ SeedOnlyCreates /\ ArchivedVersionStaysArchived

=============================================================================
