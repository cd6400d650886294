--------------------------- MODULE AgentDirectory ---------------------------
(***************************************************************************)
(* agent_list over the registry: a page reads the account's registry rows, *)
(* then Lesser's live agents, merges them by identity and continues after  *)
(* the last key it showed.  Keys sort "agent:<username>" before            *)
(* "registry:<agent id>", and a row has the first kind only while its      *)
(* actor is live, so keys move between pages: the row of AgentRegistry is  *)
(* written, the registry's eventually consistent list lags behind it and   *)
(* agents come and go while a caller walks.  The other rows of the account *)
(* (Neighbours) do not change.                                             *)
(***************************************************************************)
EXTENDS AgentRegistry, FiniteSets, FiniteSetsExt

CONSTANTS This,            \* the agent id of the row
          Neighbours,      \* the agent ids of the other rows
          NeighbourActor,  \* the actors those rows name
          Nobody,          \* no actor, no row
          Place,           \* alphabetical places of usernames and of agent ids
          Limits,          \* page sizes a caller asks for
          MaxLiveChanges   \* agents stop coming and going here

VARIABLES live,         \* the usernames of Lesser's live agents
          liveChanges,
          replica,      \* the row as the registry's list sees it
          walk          \* one caller's walk through the pages

directoryVars == <<live, liveChanges, replica, walk>>

AgentIDs == Neighbours \cup {This}

ASSUME DirectoryAssumption ==
  /\ This \notin Neighbours /\ AgentIDs \cap Actors = {}
  /\ Nobody \notin Actors \cup AgentIDs
  /\ IsFiniteSet(Actors) /\ IsFiniteSet(Neighbours)
  /\ NeighbourActor \in [Neighbours -> Actors]
  /\ Place \in [Actors \cup AgentIDs -> 1..Cardinality(Actors \cup AgentIDs)]
  /\ \A m, n \in Actors \cup AgentIDs : Place[m] = Place[n] => m = n
  /\ Limits \subseteq Nat \ {0} /\ MaxLiveChanges \in Nat

\* The actor of a row: registryLiveIdentity without its fallback to the agent
\* id, which is no live agent's username.
ActorOf(r) == IF r = NoRow \/ r.localId = Empty THEN Nobody ELSE r.localId.actor

\* The account's rows as the merge takes them, the changing one being r.
Rows(r) ==
  {[agent |-> n, actor |-> NeighbourActor[n]] : n \in Neighbours}
    \cup (IF r = NoRow THEN {} ELSE {[agent |-> This, actor |-> ActorOf(r)]})

LiveKey(a) == Place[a]
RowKey(g)  == Cardinality(DOMAIN Place) + Place[g]

\* Of two rows whose actor is the same live agent, the first agent id has the
\* key and the other row has no entry.
HasEntry(e, rows, alive) ==
  e.actor \in alive => ~\E f \in rows : f.actor = e.actor /\ Place[f.agent] < Place[e.agent]

EntriesOf(rows, alive) ==
  {[agent |-> e.agent, actor |-> IF e.actor \in alive THEN e.actor ELSE Nobody,
    key |-> IF e.actor \in alive THEN LiveKey(e.actor) ELSE RowKey(e.agent)] :
     e \in {e \in rows : HasEntry(e, rows, alive)}}
    \cup {[agent |-> Nobody, actor |-> a, key |-> LiveKey(a)] :
            a \in alive \ {e.actor : e \in rows}}

AfterOrSame(entries, cursor) == {e \in entries : e.key >= cursor}
After(entries, cursor)       == {e \in entries : e.key > cursor}

Names(entries) == ({e.agent : e \in entries} \cup {e.actor : e \in entries}) \ {Nobody}

-----------------------------------------------------------------------------
\* What a walk that starts now must list once, as long as it stays as it is:
\* each live agent, and each row whose actor no other row names.
Unshared ==
  {n \in Neighbours : NeighbourActor[n] \notin {ActorOf(row), ActorOf(replica)}
                      /\ \A m \in Neighbours \ {n} : NeighbourActor[m] # NeighbourActor[n]}
    \cup {g \in {This} : row # NoRow /\ replica # NoRow /\ ActorOf(row) = ActorOf(replica)
                         /\ \A m \in Neighbours : NeighbourActor[m] # ActorOf(row)}

NoWalk == [pc |-> "idle", rows |-> NoRow, cursor |-> 0,
           shown |-> {}, twice |-> {}, steady |-> {}]

DirectoryInit ==
  /\ Init
  /\ live \in SUBSET Actors
  /\ liveChanges = 0
  /\ replica = NoRow
  /\ walk = NoWalk

StartWalk ==
  /\ walk.pc = "idle"
  /\ walk' = [NoWalk EXCEPT !.pc = "registry", !.steady = live \cup Unshared]
  /\ UNCHANGED <<vars, live, liveChanges, replica>>

\* listAllAgentRegistryEntries: every page of the registry.
ReadRegistry ==
  /\ walk.pc = "registry"
  /\ \E r \in {row, replica} : walk' = [walk EXCEPT !.pc = "live", !.rows = r]
  /\ UNCHANGED <<vars, live, liveChanges, replica>>

\* ListAgents answers: merge, cut the page after the cursor, answer.
ShowPage(limit) ==
  /\ walk.pc = "live"
  /\ LET rest == After(EntriesOf(Rows(walk.rows), live), walk.cursor)
         page == {e \in rest : Cardinality({f \in rest : f.key <= e.key}) <= limit}
     IN walk' = [walk EXCEPT
          !.pc     = IF page = rest THEN "done" ELSE "registry",
          !.rows   = NoRow,
          !.cursor = IF page = rest THEN 0 ELSE Max({e.key : e \in page}),
          !.shown  = @ \cup Names(page),
          !.twice  = @ \cup (walk.shown \cap Names(page))]
  /\ UNCHANGED <<vars, live, liveChanges, replica>>

\* agentLiveSourceError: the caller asks again with the same cursor.
LiveSourceFails ==
  /\ walk.pc = "live"
  /\ walk' = [walk EXCEPT !.pc = "registry", !.rows = NoRow]
  /\ UNCHANGED <<vars, live, liveChanges, replica>>

\* An agent appears in Lesser's directory or leaves it.
ComeOrGo(a) ==
  /\ liveChanges < MaxLiveChanges
  /\ liveChanges' = liveChanges + 1
  /\ live' = IF a \in live THEN live \ {a} ELSE live \cup {a}
  /\ walk' = [walk EXCEPT
       !.steady = @ \ ({a} \cup {e.agent : e \in {e \in Rows(row) : e.actor = a}})]
  /\ UNCHANGED <<vars, replica>>

Replicate ==
  /\ replica # row
  /\ replica' = row
  /\ UNCHANGED <<vars, live, liveChanges, walk>>

\* A tool or an operator writes the row.
RegistryStep ==
  /\ Next
  /\ walk' = [walk EXCEPT
       !.steady = IF ActorOf(row') = ActorOf(row) THEN @
                  ELSE @ \ {e.agent : e \in {e \in Rows(row') :
                                               e.agent = This \/ e.actor = ActorOf(row')}}]
  /\ UNCHANGED <<live, liveChanges, replica>>

DirectoryNext ==
  \/ RegistryStep
  \/ StartWalk \/ ReadRegistry \/ LiveSourceFails
  \/ \E limit \in Limits : ShowPage(limit)
  \/ \E a \in Actors : ComeOrGo(a)
  \/ Replicate

DirectorySpec == DirectoryInit /\ [][DirectoryNext]_<<vars, directoryVars>>

-----------------------------------------------------------------------------
\* Whatever is written, comes or goes between the pages of a walk, an agent
\* that stays live throughout is listed exactly once, and so is a row whose
\* actor stays the same, keeps its liveness and is named by no other row
\* (ptahserver.go:940-960).
ListedOnce ==
  /\ walk.steady \cap walk.twice = {}
  /\ walk.pc = "done" => walk.steady \subseteq walk.shown

=============================================================================
