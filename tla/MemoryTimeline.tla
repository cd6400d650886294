--------------------------- MODULE MemoryTimeline ---------------------------
(***************************************************************************)
(* One agent's memory timeline in DynamoDB: memory_append, which a caller  *)
(* makes idempotent with an event id of its own, and memory_query, which   *)
(* walks the timeline in pages (mcpserver/memory_tools.go,                 *)
(* internal/memory/dynamo_store.go).  Events expire, DynamoDB removes the  *)
(* expired ones some time later, and reads that do not ask for consistency *)
(* may see the table as it was.  A page is cut before its expired events   *)
(* are filtered out, so it may be short or empty and still not the last.   *)
(***************************************************************************)
EXTENDS Integers, FiniteSets, FiniteSetsExt

CONSTANTS Appends,      \* calls of memory_append; also their contents
          EventIDs,     \* ULIDs as numbers, in their order
          PerTime,      \* ULIDs with the same timestamp
          Expiries,     \* the expires_at that callers give, as seconds
          Never,        \* no expiry
          Absent,       \* no event
          PageLimits,
          MaxTime       \* the clock stops here

ASSUME MemoryAssumption ==
  /\ EventIDs \in SUBSET Nat /\ IsFiniteSet(EventIDs) /\ Absent \notin EventIDs
  /\ Expiries \subseteq Nat /\ PageLimits \subseteq Nat \ {0} /\ MaxTime \in Nat

VARIABLES timeline,  \* EventIDs -> event, or Absent
          lagging,   \* the timeline as an eventually consistent read has it
          clock,
          append,    \* per call: [pc, id, expires, event]
          query      \* one caller's walk

memoryVars == <<timeline, lagging, clock, append, query>>

-----------------------------------------------------------------------------
\* The timestamp of a ULID.
TimeOf(id) == id \div PerTime

\* record.TTL: the attribute is left out when it is 0, and with it the expiry.
TTL(expires) == IF expires = 0 THEN Never ELSE expires

Event == [content : Appends, ttl : Expiries \cup {Never}]

ASSUME NoEventAssumption == Absent \notin Event

Expired(event) == event.ttl # Never /\ event.ttl <= clock

NotYet == [pc |-> "idle", id |-> 0, expires |-> Never, event |-> Absent]

NoQuery == [pc |-> "idle", desc |-> FALSE, from |-> 0, to |-> 0, cursor |-> Absent,
            shown |-> {}, twice |-> {}, steady |-> {}]

MemoryInit ==
  /\ timeline = [id \in EventIDs |-> Absent]
  /\ lagging = timeline
  /\ clock = 1
  /\ append = [c \in Appends |-> NotYet]
  /\ query = NoQuery

-----------------------------------------------------------------------------
(***************************************************************************)
(* memory_append                                                           *)
(***************************************************************************)
InUse == {append[c].id : c \in {d \in Appends : append[d].pc # "idle"}}
           \cup {id \in EventIDs : timeline[id] # Absent}

\* resolveEventID: the caller's ULID, whose timestamp a given occurred_at must
\* have, or a new one for the given time or for now.
Resolved(occurred, given) ==
  IF given # Absent THEN {id \in {given} : occurred \in {Absent, TimeOf(id)}}
  ELSE {id \in EventIDs \ InUse :
          TimeOf(id) = (IF occurred = Absent THEN clock ELSE occurred)}

AskAppend(c) ==
  /\ append[c].pc = "idle"
  /\ \E given \in EventIDs \cup {Absent}, occurred \in {TimeOf(id) : id \in EventIDs} \cup {Absent},
        expires \in Expiries \cup {Never} :
       \/ \E id \in Resolved(occurred, given) :
            append' = [append EXCEPT ![c] = [pc |-> "create", id |-> id, expires |-> expires,
                                             event |-> Absent]]
       \/ /\ given # Absent /\ Resolved(occurred, given) = {}
          /\ append' = [append EXCEPT ![c].pc = "refused"]
  /\ UNCHANGED <<timeline, lagging, clock, query>>

EventOf(c) == [content |-> c, ttl |-> TTL(append[c].expires)]

Told(c, event) == append' = [append EXCEPT ![c].pc = "ok", ![c].event = event]

Store(c) == timeline' = [timeline EXCEPT ![append[c].id] = EventOf(c)]

StoreAlways(c) ==
  /\ append[c].pc = "create"
  /\ Store(c) /\ Told(c, EventOf(c))
  /\ UNCHANGED <<lagging, clock, query>>

\* IfNotExists Create.
CreateEvent(c) ==
  /\ append[c].pc = "create"
  /\ \/ /\ timeline[append[c].id] = Absent
        /\ Store(c) /\ Told(c, EventOf(c))
     \/ /\ timeline[append[c].id] # Absent
        /\ append' = [append EXCEPT ![c].pc = "fetch"]
        /\ UNCHANGED timeline
  /\ UNCHANGED <<lagging, clock, query>>

\* The event that was there first, by an eventually consistent read: it may be
\* missing still, or the one of that id before the last removal.
FetchExisting(c) ==
  /\ append[c].pc = "fetch"
  /\ \E table \in {timeline, lagging} :
       IF table[append[c].id] = Absent THEN append' = [append EXCEPT ![c].pc = "error"]
       ELSE Told(c, table[append[c].id])
  /\ UNCHANGED <<timeline, lagging, clock, query>>

\* A request fails, or the create is applied and its answer lost.
AppendFails(c) ==
  /\ append[c].pc \in {"create", "fetch"}
  /\ append' = [append EXCEPT ![c].pc = "error"]
  /\ \/ UNCHANGED timeline
     \/ append[c].pc = "create" /\ timeline[append[c].id] = Absent /\ Store(c)
  /\ UNCHANGED <<lagging, clock, query>>

-----------------------------------------------------------------------------
(***************************************************************************)
(* memory_query                                                            *)
(***************************************************************************)
\* skLowerBound and skUpperBound: both ends include their timestamp.
InRange(id, q) == q.from <= TimeOf(id) /\ TimeOf(id) <= q.to

Beyond(id, q) ==
  q.cursor = Absent \/ (IF q.desc THEN id < q.cursor ELSE id > q.cursor)

\* What a walk that starts now must show once, if it does not expire.
Settled(q) == {id \in EventIDs : timeline[id] # Absent /\ lagging[id] = timeline[id]
                                 /\ ~Expired(timeline[id]) /\ q.from <= TimeOf(id)
                                 /\ TimeOf(id) <= q.to}

AskQuery ==
  /\ query.pc = "idle"
  /\ \E desc \in BOOLEAN, from, to \in {TimeOf(id) : id \in EventIDs} :
       LET q == [NoQuery EXCEPT !.pc = "page", !.desc = desc, !.from = from, !.to = to]
       IN query' = [q EXCEPT !.steady = Settled(q)]
  /\ UNCHANGED <<timeline, lagging, clock, append>>

CursorAfterShown(evaluated, visible, limit) ==
  IF Cardinality(visible) = limit
  THEN (IF query.desc THEN Min(visible) ELSE Max(visible)) ELSE Absent

\* DynamoDB's: the last key evaluated, shown or not, when the page is full.
CursorAfter(evaluated, visible, limit) ==
  IF Cardinality(evaluated) = limit
  THEN (IF query.desc THEN Min(evaluated) ELSE Max(evaluated)) ELSE Absent

Remaining(table) ==
  {id \in EventIDs : table[id] # Absent /\ InRange(id, query) /\ Beyond(id, query)}

\* The first of them in the order of the walk, up to the limit.
FirstOf(rest, limit) ==
  {id \in rest : Cardinality({other \in rest :
                    IF query.desc THEN other >= id ELSE other <= id}) <= limit}

\* DynamoStore.Query: evaluate up to the limit, then filter.
NextPage(limit) ==
  /\ query.pc = "page"
  /\ \E table \in {timeline, lagging} :
       LET evaluated == FirstOf(Remaining(table), limit)
           visible == {id \in evaluated : ~Expired(table[id])}
           next  == CursorAfter(evaluated, visible, limit)
       IN query' = [query EXCEPT
            !.pc     = IF next = Absent THEN "done" ELSE "page",
            !.cursor = next,
            !.shown  = @ \cup visible,
            !.twice  = @ \cup (query.shown \cap visible)]
  /\ UNCHANGED <<timeline, lagging, clock, append>>

-----------------------------------------------------------------------------
Tick == clock < MaxTime /\ clock' = clock + 1 /\ UNCHANGED <<timeline, lagging, append, query>>

\* DynamoDB's expiry removes an event in its own time.
Reap(id) ==
  /\ timeline[id] # Absent /\ Expired(timeline[id])
  /\ timeline' = [timeline EXCEPT ![id] = Absent]
  /\ query' = [query EXCEPT !.steady = @ \ {id}]
  /\ UNCHANGED <<lagging, clock, append>>

CatchUp ==
  /\ lagging # timeline
  /\ lagging' = timeline
  /\ UNCHANGED <<timeline, clock, append, query>>

MemoryNext ==
  \/ \E c \in Appends : AskAppend(c) \/ CreateEvent(c) \/ FetchExisting(c) \/ AppendFails(c)
  \/ AskQuery \/ \E limit \in PageLimits : NextPage(limit)
  \/ Tick \/ (\E id \in EventIDs : Reap(id)) \/ CatchUp

MemorySpec == MemoryInit /\ [][MemoryNext]_memoryVars

-----------------------------------------------------------------------------
(***************************************************************************)
(* Properties                                                              *)
(***************************************************************************)

\* The event an append was answered with, created or found, is the timeline's
\* event of that id until it expires, so all answers for one id agree: neither
\* a repeated call nor another writer with that id replaces it, whatever was
\* lost on the way (dynamo_store.go:68-83).
AnsweredIsKept ==
  \A c \in Appends :
    append[c].pc = "ok" /\ ~Expired(append[c].event)
      => timeline[append[c].id] = append[c].event

\* A walk shows each event of its range exactly once, in either order and with
\* appends, expiries and removals between its pages; an empty page in the
\* middle does not end it (dynamo_store.go:100-166).
WalkShowsEach ==
  /\ query.steady \cap query.twice = {}
  /\ query.pc = "done" =>
       \A id \in query.steady : Expired(timeline[id]) \/ id \in query.shown

\* What the store has promised holds: answers stand, and a walk misses nothing.
TimelineHolds == AnsweredIsKept /\ WalkShowsEach

=============================================================================
