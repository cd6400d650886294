-------------------- MODULE AgentInstructionsStoreProofs --------------------
(***************************************************************************)
(* AgentInstructionsStore for every set of calls and texts and every retry *)
(* limit, with or without stale reads.  An archive writes without raising  *)
(* the version, so "the version names the text" is not the usual counter   *)
(* argument: it needs that the stored row has the highest version of all   *)
(* values and that each call's pending write is based on one of them.      *)
(***************************************************************************)
EXTENDS AgentInstructionsStore, TLAPS

\* The stored row is the newest value.
RowIsNewest == /\ row \in values
               /\ \A r \in values \ {NoRow} : row # NoRow /\ r.version <= row.version

\* A pending write is based on a value the row has had.
SeenIsValue == \A c \in Calls : pc[c] = "write" => seen[c] \in values \ {NoRow}

\* Only a call that has returned is the author of a value.
AuthorsReturned == \A r \in values \ {NoRow} : pc[r.by] = "done"

\* Where a call can be, by its operation; it is answered when it is done.
RequestsFollowOps ==
  \A c \in Calls : /\ pc[c] = "create" => req[c].op \in {"upsert", "seed"}
                   /\ pc[c] \in {"load", "write"} => req[c].op \in {"upsert", "archive"}
                   /\ pc[c] = "check" => req[c].op = "archive"
                   /\ pc[c] = "readSeed" => req[c].op = "seed"
                   /\ pc[c] # "done" => reply[c].status = "none"

InstructionsInv == /\ TypeOK
                   /\ RequestsFollowOps
                   /\ RowIsNewest
                   /\ SeenIsValue
                   /\ AuthorsReturned
                   /\ VersionNamesContent
                   /\ UpsertAppliedOnce

LEMMA InitInv == Init => InstructionsInv
  BY RetryLimitAssumption DEF Init, InstructionsInv, TypeOK, RowIsNewest, SeenIsValue,
     AuthorsReturned, VersionNamesContent, UpsertAppliedOnce, RequestsFollowOps, Requests, Statuses, NoReply

\* A successful write of call c: a first row, an edit or an archive.
LEMMA WriteKeepsInv ==
  ASSUME InstructionsInv, NEW c \in Calls, NEW r \in Row,
         Store(r), r.by = c, pc[c] \in {"create", "write"},
         pc' = [pc EXCEPT ![c] = "done"],
         \/ row = NoRow
         \/ r.version > row.version
         \/ /\ r.version = row.version
            /\ r.content = row.content
            /\ r.state = "archived",
         UNCHANGED <<req, seen>>
  PROVE  /\ RowIsNewest' /\ SeenIsValue' /\ AuthorsReturned' /\ VersionNamesContent'
         /\ \A q \in values \ {NoRow} : q.by # c
  <1> USE NoRowAssumption
  <1>1. row' = r /\ values' = values \cup {r} /\ r # NoRow
    BY DEF Store
  <1>2. \A q \in values \ {NoRow} : q \in Row /\ q.by # c
    BY DEF InstructionsInv, TypeOK, AuthorsReturned
  <1>3. pc \in [Calls -> {"idle", "create", "readSeed", "check", "load", "write", "done"}]
    BY DEF InstructionsInv, TypeOK
  <1>4. \A q \in values \ {NoRow} : q.version \in Nat /\ r.version \in Nat
                                    /\ row # NoRow /\ q.version <= row.version
                                    /\ row.version \in Nat
    BY <1>2 DEF InstructionsInv, RowIsNewest, TypeOK, Row
  <1>5. RowIsNewest'
    BY <1>1, <1>4 DEF RowIsNewest, Row
  <1>6. SeenIsValue'
    BY <1>1, <1>3 DEF InstructionsInv, SeenIsValue
  <1>7. AuthorsReturned'
    BY <1>1, <1>3 DEF InstructionsInv, AuthorsReturned
  <1>8. VersionNamesContent'
    <2>1. \A q \in values \ {NoRow} : q.version = r.version => q.content = r.content
      BY <1>4 DEF InstructionsInv, VersionNamesContent, RowIsNewest
    <2> QED BY <1>1, <2>1 DEF InstructionsInv, VersionNamesContent
  <1> QED BY <1>2, <1>5, <1>6, <1>7, <1>8

\* What a successful write stores.
LEMMA Written ==
  ASSUME InstructionsInv, NEW c \in Calls
  PROVE  /\ pc[c] = "create" =>
              /\ FirstRow(c) \in Row /\ FirstRow(c).by = c
              /\ FirstRow(c).content = req[c].text /\ FirstRow(c).state = "draft"
         /\ pc[c] = "write" /\ VersionHolds(c) =>
              /\ row \in Row /\ seen[c] \in Row /\ row.content = seen[c].content
              /\ Updated(c) \in Row /\ Updated(c).by = c
              /\ req[c].op = "archive" => /\ Updated(c).version = row.version
                                          /\ Updated(c).content = row.content
                                          /\ Updated(c).state = "archived"
              /\ req[c].op = "upsert" => /\ Updated(c).version > row.version
                                         /\ Updated(c).content = req[c].text
                                         /\ Updated(c).state = "draft"
  <1>0. /\ pc[c] = "create" => req[c].text \in Texts
        /\ pc[c] = "write" => \/ req[c].op = "archive"
                              \/ req[c].op = "upsert" /\ req[c].text \in Texts
    BY DEF InstructionsInv, TypeOK, RequestsFollowOps, Requests
  <1>1. ASSUME pc[c] = "write", VersionHolds(c)
        PROVE row \in Row /\ seen[c] \in Row /\ row.content = seen[c].content
    BY <1>1 DEF InstructionsInv, TypeOK, SeenIsValue, RowIsNewest, VersionNamesContent,
                VersionHolds
  <1>2. ASSUME row \in Row PROVE row.version + 1 \in Nat \ {0} /\ row.version + 1 > row.version
    BY <1>2 DEF Row
  <1>3. ASSUME pc[c] = "write", VersionHolds(c), req[c].op = "archive"
        PROVE  /\ Updated(c) \in Row /\ Updated(c).by = c
               /\ Updated(c).version = row.version
               /\ Updated(c).content = row.content
               /\ Updated(c).state = "archived"
    BY <1>1, <1>3 DEF Updated, Retired, Row
  <1>4. ASSUME pc[c] = "write", VersionHolds(c), req[c].op = "upsert"
        PROVE  /\ Updated(c) \in Row /\ Updated(c).by = c
               /\ Updated(c).version > row.version
               /\ Updated(c).content = req[c].text
               /\ Updated(c).state = "draft"
    BY <1>0, <1>1, <1>2, <1>4 DEF Updated, Edited, Row
  <1>5. ASSUME req[c].text \in Texts
        PROVE /\ FirstRow(c) \in Row /\ FirstRow(c).by = c
              /\ FirstRow(c).content = req[c].text /\ FirstRow(c).state = "draft"
    BY <1>5 DEF FirstRow, Row
  <1> QED BY <1>0, <1>1, <1>3, <1>4, <1>5

\* A step that stores nothing: call c moves, or returns something it read.
LEMMA QuietKeepsInv ==
  ASSUME InstructionsInv, TypeOK', RequestsFollowOps', NEW c \in Calls,
         UNCHANGED <<row, values>>,
         pc' = [pc EXCEPT ![c] = pc'[c]],
         pc[c] # "done",
         pc'[c] = "write" => seen'[c] \in values \ {NoRow},
         \A d \in Calls \ {c} : seen'[d] = seen[d] /\ req'[d] = req[d] /\ reply'[d] = reply[d],
         req'[c].op = "upsert" => reply'[c].status # "ok"
  PROVE  InstructionsInv'
  <1>1. \A d \in Calls \ {c} : pc'[d] = pc[d]
    BY DEF InstructionsInv, TypeOK
  <1>2. RowIsNewest' /\ VersionNamesContent'
    BY DEF InstructionsInv, RowIsNewest, VersionNamesContent
  <1>3. SeenIsValue'
    BY <1>1 DEF InstructionsInv, SeenIsValue
  <1>4. AuthorsReturned'
    <2> SUFFICES ASSUME NEW r \in values \ {NoRow} PROVE pc'[r.by] = "done"
      BY DEF AuthorsReturned
    <2>1. pc[r.by] = "done" /\ r.by \in Calls
      BY DEF InstructionsInv, AuthorsReturned, TypeOK, Row
    <2> QED BY <2>1, <1>1
  <1>5. UpsertAppliedOnce'
    BY DEF InstructionsInv, UpsertAppliedOnce
  <1> QED BY <1>2, <1>3, <1>4, <1>5 DEF InstructionsInv

Replies == [status : Statuses, row : {NoRow} \cup Row, created : BOOLEAN]

\* The reply of a returned call is typed.
LEMMA ReturnType ==
  ASSUME reply \in [Calls -> Replies], NEW c \in Calls,
         NEW r \in {NoRow} \cup Row, NEW b \in BOOLEAN, Return(c, r, b)
  PROVE  reply' \in [Calls -> Replies]
  <1>1. [status |-> "ok", row |-> r, created |-> b] \in Replies
    BY DEF Replies, Statuses
  <1> QED BY <1>1 DEF Return

\* The reply of a failed call is typed.
LEMMA FailType ==
  ASSUME reply \in [Calls -> Replies], NEW c \in Calls, NEW t \in Statuses, Fail(c, t)
  PROVE  reply' \in [Calls -> Replies]
  <1>1. [NoReply EXCEPT !.status = t] \in Replies
    BY DEF Replies, NoReply
  <1> QED BY <1>1 DEF Fail

\* Every action moves its own call only.
LEMMA StepMovesOne ==
  ASSUME TypeOK, NEW c \in Calls,
         Begin(c) \/ Step(c) \/ Interrupt(c) \/ LoseAnswer(c)
  PROVE  /\ pc' = [pc EXCEPT ![c] = pc'[c]] /\ pc[c] # "done"
         /\ \A d \in Calls \ {c} : seen'[d] = seen[d] /\ req'[d] = req[d] /\ reply'[d] = reply[d]
  <1> USE DEF Goto, TypeOK
  <1>1. CASE Begin(c)
    BY <1>1 DEF Begin, Requests
  <1>2. CASE Create(c)
    BY <1>2 DEF Create, Return, Store
  <1>3. CASE ReadSeed(c)
    BY <1>3 DEF ReadSeed, Return, Fail
  <1>4. CASE CheckArchived(c)
    BY <1>4 DEF CheckArchived, Fail
  <1>5. CASE Load(c)
    BY <1>5 DEF Load, Fail
  <1>6. CASE Write(c)
    BY <1>6 DEF Write, ReturnNew, Return, Fail, Store
  <1>7. CASE Interrupt(c)
    BY <1>7 DEF Interrupt, Fail
  <1>8. CASE LoseAnswer(c)
    BY <1>8 DEF LoseAnswer, Fail, Store
  <1> QED BY <1>1, <1>2, <1>3, <1>4, <1>5, <1>6, <1>7, <1>8 DEF Step

\* Every action keeps each call in a place that fits its operation.
LEMMA StepPlaces ==
  ASSUME TypeOK, RequestsFollowOps, NEW c \in Calls,
         Begin(c) \/ Step(c) \/ Interrupt(c) \/ LoseAnswer(c)
  PROVE  /\ RequestsFollowOps'
         /\ pc' \in [Calls -> {"idle", "create", "readSeed", "check", "load", "write", "done"}]
         /\ req' \in [Calls -> Requests]
  <1> USE DEF Goto, TypeOK, RequestsFollowOps
  <1>1. CASE Begin(c)
    BY <1>1 DEF Begin, Requests
  <1>2. CASE Create(c)
    BY <1>2 DEF Create, Return, Store
  <1>3. CASE ReadSeed(c)
    BY <1>3 DEF ReadSeed, Return, Fail
  <1>4. CASE CheckArchived(c)
    BY <1>4 DEF CheckArchived, Fail
  <1>5. CASE Load(c)
    BY <1>5 DEF Load, Fail
  <1>6. CASE Write(c)
    BY <1>6 DEF Write, ReturnNew, Return, Fail, Store
  <1>7. CASE Interrupt(c)
    BY <1>7 DEF Interrupt, Fail
  <1>8. CASE LoseAnswer(c)
    BY <1>8 DEF LoseAnswer, Fail, Store
  <1> QED BY <1>1, <1>2, <1>3, <1>4, <1>5, <1>6, <1>7, <1>8 DEF Step

\* Every action keeps the types of the record and of what was read.
LEMMA StepTypes ==
  ASSUME InstructionsInv, NEW c \in Calls,
         Begin(c) \/ Step(c) \/ Interrupt(c) \/ LoseAnswer(c)
  PROVE  TypeOK'
  <1> USE DEF InstructionsInv
  <1>0. Readable \subseteq {NoRow} \cup Row
    BY DEF TypeOK, Readable
  <1>p. /\ pc' \in [Calls -> {"idle", "create", "readSeed", "check", "load", "write", "done"}]
        /\ req' \in [Calls -> Requests]
    BY StepPlaces
  <1>w. /\ pc[c] = "create" => FirstRow(c) \in Row
        /\ pc[c] = "write" /\ VersionHolds(c) => Updated(c) \in Row
    BY Written
  <1>s. {"ok", "notFound", "conflict", "error"} \subseteq Statuses
    BY DEF Statuses
  <1>1. row' \in {NoRow} \cup Row /\ values' \in SUBSET ({NoRow} \cup Row)
    BY <1>w DEF Begin, Step, Create, ReadSeed, CheckArchived, Load, Write, Interrupt, LoseAnswer,
                Store, TypeOK
  <1>2. attempt' \in [Calls -> 0..RetryLimit - 1]
    <2>1. attempt[c] + 1 < RetryLimit => attempt[c] + 1 \in 0..RetryLimit - 1
      BY RetryLimitAssumption DEF TypeOK
    <2> QED BY <2>1 DEF Begin, Step, Create, ReadSeed, CheckArchived, Load, Write, Interrupt,
                        LoseAnswer, TypeOK
  <1>3. seen' \in [Calls -> {NoRow} \cup Row]
    BY <1>0 DEF Begin, Step, Create, ReadSeed, CheckArchived, Load, Write, Interrupt, LoseAnswer,
                TypeOK
  <1>4. reply' \in [Calls -> Replies]
    <2> USE ReturnType, FailType, <1>s
    <2>0. reply \in [Calls -> Replies]
      BY DEF TypeOK, Replies
    <2>1. CASE Begin(c)
      BY <2>0, <2>1 DEF Begin
    <2>2. CASE Create(c)
      BY <2>0, <2>2, <1>w DEF Create
    <2>3. CASE ReadSeed(c)
      BY <2>0, <2>3, <1>0 DEF ReadSeed
    <2>4. CASE CheckArchived(c)
      BY <2>0, <2>4 DEF CheckArchived
    <2>5. CASE Load(c)
      BY <2>0, <2>5 DEF Load
    <2>6. CASE Write(c)
      BY <2>0, <2>6, <1>w DEF Write, ReturnNew
    <2>7. CASE Interrupt(c)
      BY <2>0, <2>7 DEF Interrupt
    <2>8. CASE LoseAnswer(c)
      BY <2>0, <2>8 DEF LoseAnswer
    <2> QED BY <2>1, <2>2, <2>3, <2>4, <2>5, <2>6, <2>7, <2>8 DEF Step
  <1> QED BY <1>p, <1>1, <1>2, <1>3, <1>4 DEF TypeOK, Replies

\* A write that is not the last thing heard of: it keeps the invariant whether
\* its answer arrives or not.
LEMMA StoreKeepsInv ==
  ASSUME InstructionsInv, TypeOK', RequestsFollowOps', NEW c \in Calls, NEW r \in Row,
         Store(r), r.by = c, pc[c] \in {"create", "write"},
         r.state = "draft" => r.content = req[c].text,
         pc' = [pc EXCEPT ![c] = "done"],
         \/ row = NoRow
         \/ r.version > row.version
         \/ /\ r.version = row.version
            /\ r.content = row.content
            /\ r.state = "archived",
         req[c].op = "upsert" => r.state = "draft",
         reply'[c].status = "ok" => reply'[c].row = r,
         \A d \in Calls \ {c} : reply'[d] = reply[d],
         UNCHANGED <<req, seen>>
  PROVE  InstructionsInv'
  <1>1. /\ RowIsNewest' /\ SeenIsValue' /\ AuthorsReturned' /\ VersionNamesContent'
        /\ \A q \in values \ {NoRow} : q.by # c
    BY WriteKeepsInv
  <1>2. values' = values \cup {r}
    BY DEF Store
  <1>3. UpsertAppliedOnce'
    BY <1>1, <1>2 DEF InstructionsInv, UpsertAppliedOnce
  <1> QED BY <1>1, <1>3 DEF InstructionsInv

\* The two writes of this module are such writes.
LEMMA FirstKeepsInv ==
  ASSUME InstructionsInv, TypeOK', RequestsFollowOps', NEW c \in Calls,
         pc[c] = "create", row = NoRow, Store(FirstRow(c)),
         pc' = [pc EXCEPT ![c] = "done"],
         reply'[c].status = "ok" => reply'[c].row = FirstRow(c),
         \A d \in Calls \ {c} : reply'[d] = reply[d],
         UNCHANGED <<req, seen>>
  PROVE  InstructionsInv'
  <1> DEFINE r == FirstRow(c)
  <1>1. r \in Row /\ r.by = c /\ r.content = req[c].text /\ r.state = "draft"
    BY Written
  <1> HIDE DEF r
  <1> QED BY <1>1, StoreKeepsInv DEF r

LEMMA UpdateKeepsInv ==
  ASSUME InstructionsInv, TypeOK', RequestsFollowOps', NEW c \in Calls,
         pc[c] = "write", VersionHolds(c), Store(Updated(c)),
         pc' = [pc EXCEPT ![c] = "done"],
         reply'[c].status = "ok" => reply'[c].row = Updated(c),
         \A d \in Calls \ {c} : reply'[d] = reply[d],
         UNCHANGED <<req, seen>>
  PROVE  InstructionsInv'
  <1> DEFINE r == Updated(c)
  <1>0. req[c].op \in {"upsert", "archive"}
    BY DEF InstructionsInv, RequestsFollowOps
  <1>1. r \in Row /\ r.by = c
    BY Written
  <1>2. CASE req[c].op = "archive"
    <2>1. r.version = row.version /\ r.content = row.content /\ r.state = "archived"
      BY <1>2, Written
    <2> HIDE DEF r
    <2> QED BY <1>1, <1>2, <2>1, StoreKeepsInv DEF r
  <1>3. CASE req[c].op = "upsert"
    <2>1. r.version > row.version /\ r.content = req[c].text /\ r.state = "draft"
      BY <1>3, Written
    <2> HIDE DEF r
    <2> QED BY <1>1, <1>3, <2>1, StoreKeepsInv DEF r
  <1> QED BY <1>0, <1>2, <1>3

\* Every step keeps the invariant.
LEMMA NextInv == InstructionsInv /\ [Next]_vars => InstructionsInv'
  <1> SUFFICES ASSUME InstructionsInv, [Next]_vars PROVE InstructionsInv'
    OBVIOUS
  <1>1. CASE UNCHANGED vars
    BY <1>1 DEF vars, InstructionsInv, TypeOK, RowIsNewest, SeenIsValue, AuthorsReturned,
                VersionNamesContent, UpsertAppliedOnce, RequestsFollowOps
  <1>2. CASE Next
    <2> PICK c \in Calls : Begin(c) \/ Step(c) \/ Interrupt(c) \/ LoseAnswer(c)
      BY <1>2 DEF Next
    <2>t. TypeOK /\ TypeOK' /\ RequestsFollowOps /\ RequestsFollowOps'
      BY StepTypes, StepPlaces DEF InstructionsInv
    <2>m. /\ pc' = [pc EXCEPT ![c] = pc'[c]] /\ pc[c] # "done"
          /\ \A d \in Calls \ {c} : seen'[d] = seen[d] /\ req'[d] = req[d] /\ reply'[d] = reply[d]
      BY <2>t, StepMovesOne
    <2>r. Readable \subseteq values
      BY DEF Readable, InstructionsInv, RowIsNewest
    <2>o. /\ pc[c] = "write" => req[c].op \in {"upsert", "archive"}
          /\ pc[c] \in {"check", "readSeed"} => req[c].op # "upsert"
      BY <2>t DEF RequestsFollowOps
    <2>d. pc \in [Calls -> {"idle", "create", "readSeed", "check", "load", "write", "done"}]
          /\ reply \in [Calls -> Replies]
      BY <2>t DEF TypeOK, Replies
    <2>1. CASE Begin(c)
      <3>1. UNCHANGED <<row, values, seen, reply>> /\ pc[c] = "idle"
            /\ pc'[c] \in {"check", "create"}
        BY <2>1, <2>d DEF Begin, Goto
      <3> QED BY <3>1, <2>t, <2>m, QuietKeepsInv DEF RequestsFollowOps
    <2>2. CASE Create(c)
      <3>1. CASE Absent
        <4>1. /\ pc[c] = "create" /\ Store(FirstRow(c)) /\ UNCHANGED <<req, seen>>
              /\ pc' = [pc EXCEPT ![c] = "done"] /\ reply'[c].row = FirstRow(c)
          BY <2>2, <3>1, <2>d DEF Create, Goto, Return
        <4>2. row = NoRow
          BY <3>1 DEF Absent
        <4> QED BY <4>1, <4>2, <2>t, <2>m, FirstKeepsInv
      <3>2. CASE ~Absent
        <4>1. UNCHANGED <<row, values, seen, reply>> /\ pc[c] = "create"
              /\ pc'[c] \in {"readSeed", "load"}
          BY <2>2, <3>2, <2>d DEF Create, Goto
        <4> QED BY <4>1, <2>t, <2>m, QuietKeepsInv DEF RequestsFollowOps
      <3> QED BY <3>1, <3>2
    <2>3. CASE ReadSeed(c)
      <3>1. UNCHANGED <<row, values, seen, req>> /\ pc[c] = "readSeed" /\ pc'[c] = "done"
        BY <2>3, <2>d DEF ReadSeed, Return, Fail, Goto
      <3> QED BY <3>1, <2>t, <2>m, <2>o, QuietKeepsInv
    <2>4. CASE CheckArchived(c)
      <3>1. UNCHANGED <<row, values, seen, req>> /\ pc[c] = "check" /\ pc'[c] \in {"load", "done"}
        BY <2>4, <2>d DEF CheckArchived, Fail, Goto
      <3> QED BY <3>1, <2>t, <2>m, <2>o, QuietKeepsInv
    <2>5. CASE Load(c)
      <3>1. /\ UNCHANGED <<row, values, req>> /\ pc[c] = "load"
            /\ pc'[c] = "write" => seen'[c] \in values \ {NoRow}
            /\ reply'[c].status # "ok"
        BY <2>5, <2>d, <2>r, <2>t DEF Load, Fail, Goto, NoReply, TypeOK, RequestsFollowOps
      <3> QED BY <3>1, <2>t, <2>m, QuietKeepsInv
    <2>6. CASE Write(c)
      <3>0. pc[c] = "write" /\ UNCHANGED <<req, seen>>
        BY <2>6 DEF Write
      <3>1. CASE VersionHolds(c)
        <4>1. /\ Store(Updated(c)) /\ pc' = [pc EXCEPT ![c] = "done"]
              /\ reply'[c].row = Updated(c)
          BY <2>6, <3>1, <2>d DEF Write, Goto, ReturnNew, Return
        <4> QED BY <4>1, <3>0, <3>1, <2>t, <2>m, UpdateKeepsInv
      <3>2. CASE ~VersionHolds(c)
        <4>1. UNCHANGED <<row, values>> /\ pc'[c] \in {"load", "done"}
              /\ reply'[c].status # "ok"
          BY <2>6, <3>2, <2>d, <2>t DEF Write, Goto, Fail, NoReply, RequestsFollowOps
        <4> QED BY <4>1, <3>0, <2>t, <2>m, QuietKeepsInv
      <3> QED BY <3>1, <3>2
    <2>7. CASE Interrupt(c)
      <3>1. /\ UNCHANGED <<row, values, seen, req>> /\ pc'[c] = "done"
            /\ reply'[c].status = "error"
        BY <2>7, <2>d DEF Interrupt, Goto, Fail, NoReply, Replies
      <3> QED BY <3>1, <2>t, <2>m, QuietKeepsInv
    <2>8. CASE LoseAnswer(c)
      <3>0. /\ UNCHANGED <<seen, req>> /\ pc' = [pc EXCEPT ![c] = "done"]
            /\ reply'[c].status = "error"
        BY <2>8, <2>d DEF LoseAnswer, Goto, Fail, NoReply, Replies
      <3>1. CASE pc[c] = "create"
        <4>1. Store(FirstRow(c)) /\ row = NoRow
          BY <2>8, <3>1 DEF LoseAnswer, Absent
        <4> QED BY <4>1, <3>0, <3>1, <2>t, <2>m, FirstKeepsInv
      <3>2. CASE pc[c] = "write"
        <4>1. Store(Updated(c)) /\ VersionHolds(c)
          BY <2>8, <3>2 DEF LoseAnswer
        <4> QED BY <4>1, <3>0, <3>2, <2>t, <2>m, UpdateKeepsInv
      <3> QED BY <2>8, <3>1, <3>2 DEF LoseAnswer
    <2> QED BY <2>1, <2>2, <2>3, <2>4, <2>5, <2>6, <2>7, <2>8 DEF Step
  <1> QED BY <1>1, <1>2

THEOREM InstructionsSafe == Spec => []InstructionsInv
  BY InitInv, NextInv, PTL DEF Spec

\* Whatever calls interleave, and however stale what they read, one version of
\* the record never stands for two texts (store.go:312, 712).
THEOREM VersionsNameContent == Spec => []VersionNamesContent
  <1>1. InstructionsInv => VersionNamesContent
    BY DEF InstructionsInv
  <1> QED BY <1>1, InstructionsSafe, PTL

\* An upsert is applied at most once, and answered with its own draft.
THEOREM UpsertsAppliedOnce == Spec => []UpsertAppliedOnce
  <1>1. InstructionsInv => UpsertAppliedOnce
    BY DEF InstructionsInv
  <1> QED BY <1>1, InstructionsSafe, PTL

\* A write replaces or retires exactly the text its call read, although an
\* archive leaves no trace in the version that other calls condition on.
THEOREM WritesFollow == Spec => WritesFollowWhatWasRead
  <1>1. InstructionsInv /\ [Next]_vars =>
          [\A c \in Calls : pc[c] = "write" /\ pc'[c] # pc[c] /\ row' # row =>
                              row.content = seen[c].content]_vars
    <2> SUFFICES ASSUME InstructionsInv, Next, NEW c \in Calls,
                        pc[c] = "write", pc'[c] # pc[c], row' # row
                 PROVE  row.content = seen[c].content
      BY DEF vars
    <2> PICK d \in Calls : Begin(d) \/ Step(d) \/ Interrupt(d) \/ LoseAnswer(d)
      BY DEF Next
    <2>1. c = d
      BY StepMovesOne DEF InstructionsInv, TypeOK
    <2>2. VersionHolds(c)
      BY <2>1 DEF Begin, Step, Create, ReadSeed, CheckArchived, Load, Write, Interrupt,
                  LoseAnswer
    <2> QED BY <2>2, Written
  <1> QED BY <1>1, InstructionsSafe, PTL DEF Spec, WritesFollowWhatWasRead

\* A seed writes only where there is no record (store.go:598-635).
THEOREM SeedsCreate == Spec => SeedOnlyCreates
  <1>1. InstructionsInv /\ [Next]_vars =>
          [\A c \in Calls :
             req[c].op = "seed" /\ pc'[c] # pc[c] /\ row' # row => row = NoRow]_vars
    <2> SUFFICES ASSUME InstructionsInv, Next, NEW c \in Calls,
                        req[c].op = "seed", pc'[c] # pc[c], row' # row
                 PROVE  row = NoRow
      BY DEF vars
    <2> PICK d \in Calls : Begin(d) \/ Step(d) \/ Interrupt(d) \/ LoseAnswer(d)
      BY DEF Next
    <2>1. c = d
      BY StepMovesOne DEF InstructionsInv, TypeOK
    <2>2. pc[c] # "write"
      BY DEF InstructionsInv, RequestsFollowOps
    <2> QED BY <2>1, <2>2 DEF Begin, Step, Create, ReadSeed, CheckArchived, Load, Write,
                              Interrupt, LoseAnswer, Absent
  <1> QED BY <1>1, InstructionsSafe, PTL DEF Spec, SeedOnlyCreates

\* What brings an archived record back is an edit, and an edit counts.
THEOREM ArchivedStays == Spec => ArchivedVersionStaysArchived
  <1>1. InstructionsInv /\ [Next]_vars =>
          [Archived(row) /\ row'.state = "draft" => row'.version > row.version]_vars
    <2> SUFFICES ASSUME InstructionsInv, Next, Archived(row), row'.state = "draft"
                 PROVE  row'.version > row.version
      BY DEF vars
    <2> PICK d \in Calls : Begin(d) \/ Step(d) \/ Interrupt(d) \/ LoseAnswer(d)
      BY DEF Next
    <2>1. row \in Row /\ row.state = "archived" /\ row # NoRow
      BY NoRowAssumption DEF Archived, InstructionsInv, TypeOK
    <2>2. row' # row
      BY <2>1
    <2>3. row' = Updated(d)
      BY <2>1, <2>2 DEF Begin, Step, Create, ReadSeed, CheckArchived, Load, Write,
                        Interrupt, LoseAnswer, Absent, Store
    <2> QED BY <2>1, <2>3 DEF Updated, Edited, Retired, Row
  <1> QED BY <1>1, InstructionsSafe, PTL DEF Spec, ArchivedVersionStaysArchived

\* One version names one text, and an acknowledged upsert is one version.
THEOREM VersionsAlwaysHold == Spec => []VersionsHold
  <1>1. VersionNamesContent /\ UpsertAppliedOnce => VersionsHold
    BY DEF VersionsHold
  <1> QED BY <1>1, VersionsNameContent, UpsertsAppliedOnce, PTL

\* No call writes over a text it has not read.
THEOREM TextsAreKept == Spec => WritesKeepTexts
  BY WritesFollow, SeedsCreate, ArchivedStays DEF WritesKeepTexts
=============================================================================
