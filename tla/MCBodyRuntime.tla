---------------------------- MODULE MCBodyRuntime ----------------------------
(***************************************************************************)
(* What a process of Body keeps: its configuration caches, the mint        *)
(* limiter, and the memory of an agent behind it.  The three share no      *)
(* variable, so that a behaviour that moves one of them shows all that it  *)
(* can do: each is explored while the others rest.                         *)
(***************************************************************************)
EXTENDS BodyProcess, MemoryTimeline, GrantMintLimiter

RuntimeInit == ProcessInit /\ MemoryInit /\ LimiterInit

MemoryRests  == append = [c \in Appends |-> NotYet] /\ query = NoQuery /\ clock = 1
ProcessRests == /\ life = "down" /\ server = "ka" /\ restarts = 0 /\ rotations = 0
                /\ published = CHOOSE i \in Issuers : TRUE
LimiterRests == seconds = 0 /\ \A a \in Accounts : hits[a] = <<>>

RuntimeNext ==
  \/ MemoryRests /\ LimiterRests /\ ProcessNext /\ UNCHANGED <<memoryVars, limiterVars>>
  \/ ProcessRests /\ LimiterRests /\ MemoryNext /\ UNCHANGED <<processVars, limiterVars>>
  \/ ProcessRests /\ MemoryRests /\ LimiterNext /\ UNCHANGED <<processVars, memoryVars>>

RuntimeSpec ==
  RuntimeInit /\ [][RuntimeNext]_<<processVars, memoryVars, limiterVars>> /\ Fairness

=============================================================================
