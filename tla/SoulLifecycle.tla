---------------------------- MODULE SoulLifecycle ----------------------------
(***************************************************************************)
(* What Body promises about one agent_soul: a single current document that *)
(* only moves through draft -> published -> archived, a new soul_version   *)
(* for every authoring write, and a write-once history of every lifecycle  *)
(* event (docs/soul-document-v2.md, internal/agentcontent).                *)
(*                                                                         *)
(* Every operation is one atomic step here.  AgentSoulStore is the same    *)
(* system with its reads, conditional transactions, retries and crashes,   *)
(* and implements this module.                                             *)
(***************************************************************************)
EXTENDS Integers

CONSTANTS Documents,       \* the authored documents (body, summary, structure, provenance)
          Subjects,        \* authenticated subjects that may write
          LegacyVersions,  \* record versions a pre-v2 opaque row may carry
          NoRow            \* no current agent_soul row

\* What the proofs ask of the constants; AgentSoulStore assumes both.
LegacyVersionsAssumption == LegacyVersions \subseteq Nat \ {0}

VARIABLES current,   \* the current row, or NoRow
          history    \* the set of lifecycle events recorded so far

vars == <<current, history>>

-----------------------------------------------------------------------------
States == {"draft", "published", "archived"}

Rank(state) == CASE state = "draft"     -> 0
                 [] state = "published" -> 1
                 [] state = "archived"  -> 2

Current == [version : Nat, soulVersion : Nat, state : States,
            content : Documents, by : Subjects]

Event == [version : Nat, soulVersion : Nat, state : States,
          content : Documents, by : Subjects, actor : Subjects]

NoRowAssumption == NoRow \notin Current

\* A pre-v2 row has no soul_version of its own: its record version stands in.
EffectiveSoulVersion(r) == IF r.soulVersion < 1 THEN r.version ELSE r.soulVersion

IsLegacy(r) == r.soulVersion = 0

LegacyRows == [version : LegacyVersions, soulVersion : {0}, state : States,
               content : Documents, by : Subjects]

EventFor(r, s) == [version |-> r.version, soulVersion |-> r.soulVersion,
                   state |-> r.state, content |-> r.content, by |-> r.by,
                   actor |-> s]

-----------------------------------------------------------------------------
Init == /\ current \in {NoRow} \cup LegacyRows
        /\ history = {}

\* The projection and its history event change in one transaction.
Record(r, s) == /\ current' = r
                /\ history' = history \cup {EventFor(r, s)}

\* The first draft of an agent that has no soul.
Draft(d, s) ==
  /\ current = NoRow
  /\ Record([version |-> 1, soulVersion |-> 1, state |-> "draft",
             content |-> d, by |-> s], s)

\* A later authoring write: a new draft under the next soul_version.
Revise(d, s) ==
  /\ current # NoRow
  /\ Record([version |-> current.version + 1,
             soulVersion |-> EffectiveSoulVersion(current) + 1,
             state |-> "draft", content |-> d, by |-> s], s)

Moved(r, to) == [version |-> r.version + 1, soulVersion |-> r.soulVersion,
                 state |-> to, content |-> r.content, by |-> r.by]

\* A lifecycle move keeps the document, its author and its soul_version.
Move(from, to, s) ==
  /\ current # NoRow
  /\ ~IsLegacy(current)
  /\ current.state = from
  /\ Record(Moved(current, to), s)

Publish(s) == Move("draft", "published", s)
Archive(s) == Move("published", "archived", s)

Next == \E s \in Subjects :
          \/ \E d \in Documents : Draft(d, s) \/ Revise(d, s)
          \/ Publish(s)
          \/ Archive(s)

Spec == Init /\ [][Next]_vars

-----------------------------------------------------------------------------
\* The types of the projection and of the history rows (store.go:154-169, 943).
TypeOK == /\ current \in {NoRow} \cup Current
          /\ history \in SUBSET Event

\* The event that made the current row what it is has been recorded
\* (docs/mcp.md: projection and history are one transaction).
CurrentIsRecorded ==
  current # NoRow /\ ~IsLegacy(current) =>
    \E e \in history : \E s \in Subjects : e = EventFor(current, s)

\* Nothing is recorded ahead of the current row: every event belongs to an
\* earlier soul_version, or to the current one in a state already passed.
NothingRecordedAhead ==
  \A e \in history :
    /\ current # NoRow
    /\ e.soulVersion >= 1
    /\ e.version <= current.version
    /\ \/ e.soulVersion < EffectiveSoulVersion(current)
       \/ /\ e.soulVersion = current.soulVersion
          /\ Rank(e.state) <= Rank(current.state)
          /\ e.content = current.content
          /\ e.by = current.by

\* Write-once: one event per soul_version and state, the key of its row.
OneEventPerKey ==
  \A e, f \in history :
    e.soulVersion = f.soulVersion /\ e.state = f.state => e = f

\* What was published, and later archived, is exactly what its author wrote:
\* every event of a soul_version carries the draft's document and author, and
\* no state is recorded without the states before it.
PublishedAsAuthored ==
  \A e \in history :
    /\ e.state # "draft" =>
         \E f \in history : /\ f.soulVersion = e.soulVersion
                            /\ f.state = "draft"
                            /\ f.content = e.content
                            /\ f.by = e.by
                            /\ f.version < e.version
    /\ e.state = "archived" =>
         \E f \in history : /\ f.soulVersion = e.soulVersion
                            /\ f.state = "published"
                            /\ f.version < e.version

=============================================================================
