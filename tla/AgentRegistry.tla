---------------------------- MODULE AgentRegistry ----------------------------
(***************************************************************************)
(* The registry row of one agent (internal/agentregistry) and the three    *)
(* tools that write it: agent_genesis_finalize (registerFinalizedGenesis-  *)
(* Agent), agent_bind_soul (refetchSoulBindingActorFromHost) and           *)
(* soul_self_recover.  Each reads the row, asks the Host for the agent's   *)
(* local id, and writes under the condition that the stored local id is    *)
(* the one it read; the row itself may be created by another call, and an  *)
(* operator may correct it, at any point in between.                       *)
(***************************************************************************)
EXTENDS Integers

CONSTANTS Calls,
          Actors,          \* Lesser usernames, up to ASCII case
          Spellings,       \* ways of writing one of them
          Empty,           \* the empty local id
          NoRow,
          MaxCorrections   \* operators stop correcting here

ASSUME MaxCorrectionsAssumption == MaxCorrections \in Nat

VARIABLES row,          \* the registry row, or NoRow
          corrections,  \* how often an operator has set the local id
          pc,           \* per call: the next request
          op,           \* per call: the tool
          projected,    \* per call: the local id the Host answers with
          expected,     \* per call: ExpectedLocalID
          wrote,        \* the calls whose write was applied
          reply,        \* per call: [status, localId, created]
          heardAt       \* per call: corrections when the reply was given

callVars == <<pc, op, projected, expected, wrote, reply, heardAt>>
vars     == <<row, corrections, callVars>>

-----------------------------------------------------------------------------
LocalIDs == [actor : Actors, spelling : Spellings]

ASSUME EmptyAssumption == Empty \notin LocalIDs

Ops == {"finalize", "refetch", "recover"}

Row == [localId : LocalIDs \cup {Empty}, source : {"genesis", "recovery"}]

ASSUME NoRowAssumption == NoRow \notin Row

Statuses == {"none", "ok", "divergence", "notFound", "unavailable", "error"}

\* actorendpoint.Validate.
Same(a, b) == a # Empty /\ b # Empty /\ a.actor = b.actor

NoReply == [status |-> "none", localId |-> Empty, created |-> FALSE]

Init ==
  /\ row = NoRow
  /\ corrections = 0
  /\ pc = [c \in Calls |-> "idle"]
  /\ op = [c \in Calls |-> "finalize"]
  /\ projected = [c \in Calls |-> Empty]
  /\ expected = [c \in Calls |-> Empty]
  /\ wrote = {}
  /\ reply = [c \in Calls |-> NoReply]
  /\ heardAt = [c \in Calls |-> 0]

Goto(c, label) == pc' = [pc EXCEPT ![c] = label]

Reply(c, status, localId, created) ==
  /\ Goto(c, "done")
  /\ reply' = [reply EXCEPT ![c] = [status |-> status, localId |-> localId,
                                    created |-> created]]
  /\ heardAt' = [heardAt EXCEPT ![c] = corrections]

Fail(c, status) == Reply(c, status, Empty, FALSE)

-----------------------------------------------------------------------------

\* Only the Host's finalization may answer without a local id.
Begin(c) ==
  /\ pc[c] = "idle"
  /\ Goto(c, "read")
  /\ \E o \in Ops, l \in LocalIDs \cup {Empty} :
       /\ o # "finalize" => l # Empty
       /\ op' = [op EXCEPT ![c] = o]
       /\ projected' = [projected EXCEPT ![c] = l]
  /\ UNCHANGED <<row, corrections, expected, wrote, reply, heardAt>>

Diverges(c) == row.localId # Empty /\ projected[c] # Empty /\ ~Same(projected[c], row.localId)

Expect(c) ==
  /\ expected' = [expected EXCEPT ![c] = row.localId]
  /\ Goto(c, "update")
  /\ UNCHANGED <<reply, heardAt>>

CheckAndExpect(c) ==
  \/ Diverges(c) /\ Fail(c, "divergence") /\ UNCHANGED expected
  \/ ~Diverges(c) /\ Expect(c)

\* Get, a consistent read.  agent_bind_soul works with a stored local id as it
\* is, and accepts no other source than a finalization.
Read(c) ==
  /\ pc[c] = "read"
  /\ \/ /\ row = NoRow
        /\ IF op[c] = "refetch" THEN Fail(c, "notFound")
           ELSE Goto(c, "create") /\ UNCHANGED <<reply, heardAt>>
        /\ UNCHANGED expected
     \/ /\ row # NoRow
        /\ op[c] # "refetch"
        /\ CheckAndExpect(c)
     \/ /\ row # NoRow
        /\ op[c] = "refetch"
        /\ \/ /\ row.source # "genesis"
              /\ Fail(c, "unavailable") /\ UNCHANGED expected
           \/ /\ row.source = "genesis" /\ row.localId # Empty
              /\ Reply(c, "ok", row.localId, FALSE) /\ UNCHANGED expected
           \/ /\ row.source = "genesis" /\ row.localId = Empty
              /\ Expect(c)
  /\ UNCHANGED <<row, corrections, op, projected, wrote>>

SourceOf(c) == IF op[c] = "recover" THEN "recovery" ELSE "genesis"

NewRow(c) == [localId |-> projected[c], source |-> SourceOf(c)]

\* An update keeps the stored local id when the Host named none.
Updated(c) ==
  [localId |-> IF projected[c] = Empty THEN row.localId ELSE projected[c],
   source  |-> SourceOf(c)]

WriteRow(c, new) == row' = new /\ wrote' = wrote \cup {c}

\* IfNotExists Create; whoever loses reads the winner again.
Create(c) ==
  /\ pc[c] = "create"
  /\ \/ /\ row = NoRow
        /\ WriteRow(c, NewRow(c))
        /\ Reply(c, "ok", projected[c], TRUE)
     \/ /\ row # NoRow
        /\ Goto(c, "reread")
        /\ UNCHANGED <<row, wrote, reply, heardAt>>
  /\ UNCHANGED <<corrections, op, projected, expected>>

ExpectAnything(c) ==
  /\ pc[c] = "reread"
  /\ Expect(c)
  /\ UNCHANGED <<row, corrections, op, projected, wrote>>

Reread(c) ==
  /\ pc[c] = "reread"
  /\ CheckAndExpect(c)
  /\ UNCHANGED <<row, corrections, op, projected, wrote>>

Anything(c) == TRUE
ExpectedHolds(c) == row.localId = expected[c]

\* The update, conditional on the local id that was read.
Update(c) ==
  /\ pc[c] = "update"
  /\ \/ /\ ExpectedHolds(c)
        /\ WriteRow(c, Updated(c))
        /\ Reply(c, "ok", Updated(c).localId, FALSE)
     \/ /\ ~ExpectedHolds(c)
        /\ Fail(c, "divergence")
        /\ UNCHANGED <<row, wrote>>
  /\ UNCHANGED <<corrections, op, projected, expected>>

\* A request fails or the Lambda dies.
Interrupt(c) ==
  /\ pc[c] \in {"read", "create", "reread", "update"}
  /\ Fail(c, "error")
  /\ UNCHANGED <<row, corrections, op, projected, expected, wrote>>

\* A write is applied and its answer lost.
LoseAnswer(c) ==
  /\ \/ pc[c] = "create" /\ row = NoRow /\ WriteRow(c, NewRow(c))
     \/ pc[c] = "update" /\ ExpectedHolds(c) /\ WriteRow(c, Updated(c))
  /\ Fail(c, "error")
  /\ UNCHANGED <<corrections, op, projected, expected>>

\* The repair that the divergence answers ask an operator for.
Correct ==
  /\ row # NoRow
  /\ corrections < MaxCorrections
  /\ corrections' = corrections + 1
  /\ \E l \in LocalIDs : row' = [localId |-> l, source |-> row.source]
  /\ UNCHANGED callVars

Step(c) == Read(c) \/ Create(c) \/ Reread(c) \/ Update(c)

Next == \/ Correct
        \/ \E c \in Calls : Begin(c) \/ Step(c) \/ Interrupt(c) \/ LoseAnswer(c)

Spec == Init /\ [][Next]_vars

-----------------------------------------------------------------------------
(***************************************************************************)
(* Properties                                                              *)
(***************************************************************************)

\* The types of the row and of the calls (store.go:98-150, 538-570).
TypeOK ==
  /\ row \in Row \cup {NoRow}
  /\ corrections \in 0..MaxCorrections
  /\ pc \in [Calls -> {"idle", "read", "create", "reread", "update", "done"}]
  /\ op \in [Calls -> Ops]
  /\ projected \in [Calls -> LocalIDs \cup {Empty}]
  /\ \A c \in Calls : pc[c] # "idle" /\ op[c] # "finalize" => projected[c] # Empty
  /\ expected \in [Calls -> LocalIDs \cup {Empty}]
  /\ wrote \in SUBSET Calls
  /\ reply \in [Calls -> [status : Statuses, localId : LocalIDs \cup {Empty},
                          created : BOOLEAN]]
  /\ heardAt \in [Calls -> 0..MaxCorrections]

\* Once the row names an actor, no call makes it name another one or none: not
\* a replay, not a recovery, not one that decided before the row existed or
\* before an operator corrected it (docs/mcp.md:1368-1371).
OnlyOperatorsRename ==
  [][row # NoRow /\ row.localId # Empty /\ ~Same(row.localId, row'.localId)
       => corrections' = corrections + 1]_vars

\* The actor a caller was told still is the row's actor, however many calls
\* have written since, unless an operator corrected it: the endpoint rendered
\* from the answer stays the agent's.
AnsweredActorHolds ==
  \A c \in Calls :
    reply[c].status = "ok" /\ reply[c].localId # Empty /\ heardAt[c] = corrections
      => row # NoRow /\ Same(row.localId, reply[c].localId)

\* A call that reports a divergence has not written, and one that succeeds in
\* naming an actor named the Host's, or a stored one in agent_bind_soul.
DivergenceWritesNothing ==
  \A c \in Calls :
    /\ reply[c].status \in {"divergence", "notFound", "unavailable"} => c \notin wrote
    /\ c \in wrote /\ projected[c] # Empty /\ reply[c].status = "ok"
         => reply[c].localId = projected[c]

=============================================================================
