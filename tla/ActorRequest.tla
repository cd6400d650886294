---------------------------- MODULE ActorRequest ----------------------------
(***************************************************************************)
(* A request to the MCP endpoint of one agent, /mcp/{actor}, on its way     *)
(* through the gates of the actor route: authentication (OAuth bearer,      *)
(* managed instance key, or a paid x402 invocation grant that the Host      *)
(* consumes), admission by Lesser, the runtime profile of the agent, the    *)
(* scopes of the tools, the MCP runtime with its sessions, and the tools.   *)
(*                                                                         *)
(* Each gate asks another service, so the soul binding, the share grants    *)
(* and the session may change between two gates of one request.  Tools are  *)
(* represented by one of each class: of read or write scope, open to a      *)
(* drone or to souled agents only, run by Lesser, by Body or by the Host.   *)
(***************************************************************************)
EXTENDS Naturals, FiniteSets, Sequences

CONSTANTS Calls,       \* slots of concurrent requests
          Owner,       \* the human that owns the agent
          Guests,      \* humans that may hold a share grant
          Requests,    \* requests sent: [cred, route, method, session, items]
          Grants,      \* the Host's invocation grants
          Issued,      \* [Grants -> [tool, scope, agent, named]]
          MaxArrivals, \* bound: requests sent
          MaxMoves,    \* bound: changes of the binding and of the shares
          MaxFaults    \* bound: failed reads, lost answers, dead sessions, panics

VARIABLES call,     \* per slot: the request and how far it is
          bound,    \* the agent has a soul binding
          shares,   \* guests that hold a share grant
          keys,     \* per grant: requests the Host has consumed it for
          paidRuns, \* per grant: tool runs on behalf of its holder
          posts,    \* what Lesser recorded: [human, actedBy]
          arrivals, moves, faults  \* spent of their bounds

worldVars == <<bound, shares>>
boundVars == <<arrivals, moves, faults>>
vars == <<call, worldVars, keys, paidRuns, posts, boundVars>>

NoOne == "no one"

\* Nobody is granted a share of an agent of its own.
ASSUME PeopleAssumption == Owner \notin Guests /\ NoOne \notin Guests

ASSUME CallsAssumption == IsFiniteSet(Calls)

-----------------------------------------------------------------------------
(* The surface: tools, their scopes and the runtime profiles *)

Tools == {"timeline_read", "post_create", "memory_append", "email_send"}

RequiredScope(t) == IF t = "timeline_read" THEN "read" ELSE "write"

\* The contract of each runtime profile.
ToolAllowed(profile, t) == profile = "souled" \/ t # "email_send"

\* Mutant: only an actor known to have no soul is a drone.
ResolveOpen(binding) == IF binding = "none" THEN "drone" ELSE "souled"

\* What a runtime profile is resolved from: the binding read for the actor.
Resolve(binding) == IF binding = "soul" THEN "souled" ELSE "drone"

\* The agent a grant must be issued for: the bound soul, or the actor itself.
ExpectedAgent(binding) == IF binding = "soul" THEN "soul" ELSE "actor"

ScopeRank == [none |-> 0, read |-> 1, write |-> 2, admin |-> 3]

\* Tokens: admin covers all, write covers read.
TokenCovers(scope, t) ==
  \/ scope = "admin"
  \/ scope = RequiredScope(t)
  \/ scope = "write" /\ RequiredScope(t) = "read"

GrantCovers(scope, t) == ScopeRank[scope] >= ScopeRank[RequiredScope(t)]

\* An item of a request is a tool call, or a method that needs no scope.
Items == Tools \cup {"initialize"}

IsTool(item) == item \in Tools

\* Bounds: a batch has two items at most, and no paid request goes to the route
\* of the instance actor, where it is that of an actor without a soul.
ASSUME RequestsAssumption ==
  /\ Requests # {}
  /\ \A req \in Requests :
       /\ req.items \in Seq(Items) /\ Len(req.items) <= 2
       /\ req.cred.kind = "grant" => req.cred.grant \in Grants /\ req.route = "agent"

ToolsOf(req) == {req.items[i] : i \in DOMAIN req.items} \cap Tools

-----------------------------------------------------------------------------
(* One request *)

Stages == {"idle", "auth", "consume", "admit", "policy", "dispatch", "run",
           "rebind", "done"}

Vacant == [at |-> "idle", req |-> CHOOSE r \in Requests : TRUE, via |-> "none",
           share |-> NoOne, agent |-> "actor", attempt |-> 1, next |-> 1,
           runs |-> [i \in 1 .. 2 |-> 0], answer |-> "none",
           spent |-> FALSE, excused |-> FALSE, everBound |-> FALSE]

Init ==
  /\ call = [c \in Calls |-> Vacant]
  /\ bound \in BOOLEAN
  /\ shares \in SUBSET Guests
  /\ keys = [g \in Grants |-> {}]
  /\ paidRuns = [g \in Grants |-> 0]
  /\ posts = {}
  /\ arrivals = 0 /\ moves = 0 /\ faults = 0

Fault == faults < MaxFaults /\ faults' = faults + 1 /\ UNCHANGED <<arrivals, moves>>

Step(c, r) == call' = [call EXCEPT ![c] = r]

Refused(r)     == [r EXCEPT !.at = "done", !.answer = "refused"]
Interrupted(r) == [r EXCEPT !.at = "done", !.answer = "internal"]

InFlight(r) == r.at \notin {"idle", "done"}

Arrive(c) ==
  /\ ~InFlight(call[c])
  /\ arrivals < MaxArrivals
  /\ arrivals' = arrivals + 1
  /\ \E req \in Requests :
       Step(c, [Vacant EXCEPT !.at = "auth", !.req = req, !.everBound = bound])
  /\ UNCHANGED <<worldVars, keys, paidRuns, posts, moves, faults>>

\* What the agent's binding names now.
Binding == IF bound THEN "soul" ELSE "none"

\* A read of the binding: what it is, or a failed lookup, which counts as none.
ReadBinding(c, Then(_, _)) ==
  \/ /\ Step(c, Then(call[c], Binding))
     /\ UNCHANGED boundVars
  \/ /\ Fault
     /\ Step(c, Then([call[c] EXCEPT !.excused = TRUE], "unreadable"))

-----------------------------------------------------------------------------
(* WithMCPAuthorization *)

\* A bearer is an access token for this endpoint, or the managed instance key
\* while that is still let in.
AuthenticatesAs(cred) ==
  CASE cred.kind = "token" /\ cred.valid /\ cred.audience -> "oauth"
    [] cred.kind = "key" /\ cred.valid                    -> "key"
    [] OTHER                                              -> "none"

AuthBearer(c) ==
  LET r == call[c] IN
  /\ r.at = "auth" /\ r.req.cred.kind # "grant"
  /\ Step(c, IF AuthenticatesAs(r.req.cred) = "none" THEN Refused(r)
             ELSE [r EXCEPT !.at = "admit", !.via = AuthenticatesAs(r.req.cred)])
  /\ UNCHANGED <<worldVars, keys, paidRuns, posts, boundVars>>

\* Mutant: what the profile allows is left to the gates behind.
PaidPrecheckLate(r, binding) ==
  IF r.req.cred.mixed THEN Refused(r)
  ELSE IF r.req.items = <<"initialize">>
  THEN [r EXCEPT !.at = "admit", !.via = "pending"]
  ELSE IF Len(r.req.items) = 1 /\ IsTool(r.req.items[1]) /\ r.req.cred.evidence
  THEN [r EXCEPT !.at = "consume", !.agent = ExpectedAgent(binding)]
  ELSE Refused(r)

\* initialize opens a session for a paid caller and spends nothing; any other
\* request must be a single tool call that the profile allows.
PaidPrecheck(r, binding) ==
  IF r.req.cred.mixed THEN Refused(r)
  ELSE IF r.req.items = <<"initialize">>
  THEN [r EXCEPT !.at = "admit", !.via = "pending"]
  ELSE IF /\ Len(r.req.items) = 1 /\ IsTool(r.req.items[1])
          /\ r.req.cred.evidence
          /\ ToolAllowed(Resolve(binding), r.req.items[1])
  THEN [r EXCEPT !.at = "consume", !.agent = ExpectedAgent(binding)]
  ELSE Refused(r)

AuthPaid(c) ==
  /\ call[c].at = "auth" /\ call[c].req.cred.kind = "grant"
  /\ ReadBinding(c, PaidPrecheck)
  /\ UNCHANGED <<worldVars, keys, paidRuns, posts>>

\* The Host binds a grant to its agent, its tool and the hash of the request.
HostAccepts(g, r) ==
  /\ Issued[g].agent = r.agent
  /\ r.req.items = <<Issued[g].tool>>

\* Mutant: a replayed answer is as good as the first.
ConsumedAgain(g, r, replayed) ==
  IF ~GrantCovers(Issued[g].scope, Issued[g].tool)
  THEN Refused(r)
  ELSE [r EXCEPT !.at = "admit", !.via = "paid"]

\* What Body makes of an accepted answer.
Consumed(g, r, replayed) ==
  IF replayed \/ ~GrantCovers(Issued[g].scope, Issued[g].tool)
  THEN Refused(r)
  ELSE [r EXCEPT !.at = "admit", !.via = "paid"]

\* The consume call.  Its idempotency key is the grant and the request, so the
\* Host answers a second call with the first one's outcome, as a replay.
Consume(c) ==
  LET r == call[c]
      g == r.req.cred.grant
      spends == HostAccepts(g, r) /\ r.req.items \notin keys[g]
      charged == [r EXCEPT !.spent = spends,
                           !.excused = @ \/ ~GrantCovers(Issued[g].scope, Issued[g].tool)]
  IN
  /\ r.at = "consume"
  /\ \/ /\ Step(c, IF HostAccepts(g, r)
                   THEN Consumed(g, charged, r.req.items \in keys[g])
                   ELSE Refused(r))
        /\ keys' = IF spends THEN [keys EXCEPT ![g] = @ \cup {r.req.items}] ELSE keys
        /\ UNCHANGED boundVars
     \/ \* the answer is lost, or does not repeat what was asked
        /\ Fault
        /\ Step(c, Refused([charged EXCEPT !.excused = TRUE]))
        /\ keys' = IF spends THEN [keys EXCEPT ![g] = @ \cup {r.req.items}] ELSE keys
     \/ \* the call did not reach the Host
        /\ Fault
        /\ Step(c, Refused(r))
        /\ UNCHANGED keys
  /\ UNCHANGED <<worldVars, paidRuns, posts>>

-----------------------------------------------------------------------------
(* WithActorBinding *)

Relationship(h) == IF h = Owner THEN "owner"
                   ELSE IF h \in shares THEN "grantee" ELSE "none"

\* Mutant: a guest is let in without the marker.
AdmittedUnmarked(r, relationship) ==
  IF relationship = "none" THEN Refused(r) ELSE [r EXCEPT !.at = "policy"]

\* The relationship that Lesser reports, and the marker of a guest.
Admitted(r, relationship) ==
  CASE relationship = "owner"   -> [r EXCEPT !.at = "policy"]
    [] relationship = "grantee" -> [r EXCEPT !.at = "policy", !.share = r.req.cred.human]
    [] OTHER                    -> Refused(r)

AdmitToken(c) ==
  LET r == call[c] IN
  /\ r.at = "admit" /\ r.via = "oauth"
  /\ \/ /\ Step(c, IF r.req.cred.human = NoOne THEN Refused(r)
                   ELSE Admitted(r, Relationship(r.req.cred.human)))
        /\ UNCHANGED boundVars
     \/ Fault /\ Step(c, Refused(r))
  /\ UNCHANGED <<worldVars, keys, paidRuns, posts>>

\* The instance key opens the route of the instance actor only.
AdmitKey(c) ==
  LET r == call[c] IN
  /\ r.at = "admit" /\ r.via = "key"
  /\ Step(c, IF r.req.route = "instance" THEN [r EXCEPT !.at = "policy"] ELSE Refused(r))
  /\ UNCHANGED <<worldVars, keys, paidRuns, posts, boundVars>>

\* A grant that names no actor is matched through the binding, read anew.
GrantMatches(r, binding) ==
  LET g == Issued[r.req.cred.grant] IN
  IF r.via = "pending" \/ g.named \/ g.agent \in {"actor", ExpectedAgent(binding)}
  THEN [r EXCEPT !.at = "policy"]
  ELSE Refused(r)

AdmitPaid(c) ==
  /\ call[c].at = "admit" /\ call[c].via \in {"paid", "pending"}
  /\ ReadBinding(c, GrantMatches)
  /\ UNCHANGED <<worldVars, keys, paidRuns, posts>>

-----------------------------------------------------------------------------
(* WithRuntimePolicy and WithAudit *)

\* The instance actor has no soul.
ProfileOf(r, binding) == IF r.req.route = "instance" THEN "drone" ELSE Resolve(binding)

WithinProfile(r, profile) == \A t \in ToolsOf(r.req) : ToolAllowed(profile, t)

WithinScopes(r) ==
  CASE r.via = "oauth" -> \A t \in ToolsOf(r.req) : TokenCovers(r.req.cred.scope, t)
    [] r.via = "key"   -> TRUE
    [] r.via = "paid"  -> \A t \in ToolsOf(r.req) : t = Issued[r.req.cred.grant].tool
    [] OTHER           -> ToolsOf(r.req) = {}

\* A request is refused whole when one of its items is out of bounds.
Gate(r, binding) ==
  IF WithinProfile(r, ProfileOf(r, binding)) /\ WithinScopes(r)
  THEN [r EXCEPT !.at = "dispatch"]
  ELSE Refused(r)

Policy(c) ==
  /\ call[c].at = "policy"
  /\ ReadBinding(c, Gate)
  /\ UNCHANGED <<worldVars, keys, paidRuns, posts>>

-----------------------------------------------------------------------------
(* WithOAuthSessionRecovery and the MCP runtime *)

\* Mutant: an internal error is worth another try.
RecoverableWide(r, answer) ==
  answer \in {"gone", "internal"} /\ r.via = "oauth" /\ r.req.method = "POST"

\* The one failure that is recovered: a dead session of a token's, off the
\* event stream.
Recoverable(r, answer) ==
  answer = "gone" /\ r.via = "oauth" /\ r.req.method = "POST"

\* Mutant: a failure inside a tool is answered as a refusal.
SettledAsRefused(r, answer) ==
  IF r.attempt = 1 /\ Recoverable(r, answer)
  THEN [r EXCEPT !.at = "rebind"]
  ELSE [r EXCEPT !.at = "done", !.answer = IF answer = "internal" THEN "refused" ELSE answer]

Settled(r, answer) ==
  IF r.attempt = 1 /\ Recoverable(r, answer)
  THEN [r EXCEPT !.at = "rebind"]
  ELSE [r EXCEPT !.at = "done", !.answer = answer]

\* The runtime looks up the session before it dispatches anything.
Dispatch(c) ==
  LET r == call[c] IN
  /\ r.at = "dispatch"
  /\ \/ /\ Step(c, [r EXCEPT !.at = "run", !.next = 1])
        /\ UNCHANGED boundVars
     \/ /\ r.req.session = "held"
        /\ Fault
        /\ Step(c, Settled([r EXCEPT !.excused = TRUE], "gone"))
  /\ UNCHANGED <<worldVars, keys, paidRuns, posts>>

\* A new session, and the request once more.
Rebind(c) ==
  LET r == call[c] IN
  /\ r.at = "rebind"
  /\ \/ Step(c, [r EXCEPT !.at = "dispatch", !.attempt = 2]) /\ UNCHANGED boundVars
     \/ Fault /\ Step(c, Interrupted(r))
  /\ UNCHANGED <<worldVars, keys, paidRuns, posts>>

\* What a tool sends to Lesser: the caller's bearer, which is the agent's, and
\* for a guest the act-as header, which makes Lesser check the share again.
LesserAllows(r) == r.share = NoOne \/ r.share \in shares

Post(r) == IF r.via = "oauth" /\ LesserAllows(r)
           THEN {[human |-> r.req.cred.human, actedBy |-> r.share]}
           ELSE {}

RunItem(c) ==
  LET r == call[c]
      item == r.req.items[r.next]
  IN
  /\ r.at = "run" /\ r.next <= Len(r.req.items)
  /\ posts' = posts \cup (IF item = "post_create" THEN Post(r) ELSE {})
  /\ paidRuns' = IF r.via = "paid" THEN [paidRuns EXCEPT ![r.req.cred.grant] = @ + 1]
                                   ELSE paidRuns
  /\ LET after == [r EXCEPT !.next = @ + 1, !.runs[r.next] = @ + 1] IN
     \/ Step(c, after) /\ UNCHANGED boundVars
     \/ Fault /\ Step(c, Settled(after, "internal"))   \* a panic at the boundary
  /\ UNCHANGED <<worldVars, keys>>

Answer(c) ==
  LET r == call[c] IN
  /\ r.at = "run" /\ r.next > Len(r.req.items)
  /\ Step(c, Settled(r, "ok"))
  /\ UNCHANGED <<worldVars, keys, paidRuns, posts, boundVars>>

-----------------------------------------------------------------------------
(* Meanwhile *)

Move == moves < MaxMoves /\ moves' = moves + 1 /\ UNCHANGED <<arrivals, faults>>

\* The agent is promoted to a soul, or loses its binding.
MoveBinding ==
  /\ Move
  /\ bound' = ~bound
  /\ call' = [c \in Calls |->
                IF InFlight(call[c])
                THEN [call[c] EXCEPT !.excused = TRUE, !.everBound = TRUE]
                ELSE call[c]]
  /\ UNCHANGED <<shares, keys, paidRuns, posts>>

\* The owner grants a share, or takes it back.
MoveShare(h) ==
  /\ Move
  /\ shares' = IF h \in shares THEN shares \ {h} ELSE shares \cup {h}
  /\ UNCHANGED <<call, bound, keys, paidRuns, posts>>

Serve(c) ==
  \/ AuthBearer(c) \/ AuthPaid(c) \/ Consume(c)
  \/ AdmitToken(c) \/ AdmitKey(c) \/ AdmitPaid(c)
  \/ Policy(c) \/ Dispatch(c) \/ Rebind(c) \/ RunItem(c) \/ Answer(c)

Next ==
  \/ \E c \in Calls : Arrive(c) \/ Serve(c)
  \/ MoveBinding
  \/ \E h \in Guests : MoveShare(h)

Spec == Init /\ [][Next]_vars

-----------------------------------------------------------------------------
(* Properties *)

Answers == {"none", "ok", "refused", "internal", "gone"}

\* The shape of the variables.
TypeOK ==
  /\ \A c \in Calls :
       /\ call[c].at \in Stages /\ call[c].req \in Requests
       /\ call[c].via \in {"none", "oauth", "key", "paid", "pending"}
       /\ call[c].share \in Guests \cup {NoOne}
       /\ call[c].agent \in {"soul", "actor"}
       /\ call[c].attempt \in 1 .. 2 /\ call[c].next \in 1 .. 3
       /\ call[c].runs \in [1 .. 2 -> Nat]
       /\ call[c].answer \in Answers
       /\ call[c].spent \in BOOLEAN /\ call[c].excused \in BOOLEAN
       /\ call[c].everBound \in BOOLEAN
  /\ bound \in BOOLEAN /\ shares \subseteq Guests
  /\ \A g \in Grants : paidRuns[g] \in Nat

\* A tool runs at most as often for the holder of a grant as the Host consumed
\* the grant, whatever is retried, replayed or cut short: an answer of the
\* Host's that repeats an earlier one buys nothing, and the session recovery
\* never replays a paid call.
PaidRunsAreBought == \A g \in Grants : paidRuns[g] <= Cardinality(keys[g])

\* A caller whose grant was spent gets its tool run, unless the Host's answer
\* was lost or wrong, the grant covers less than its tool, the binding moved or
\* could not be read, or the session was dead: whatever Body itself can refuse
\* it refuses before it asks the Host to consume the grant.
SpentCallsRun ==
  \A c \in Calls :
    call[c].at = "done" /\ call[c].spent /\ ~call[c].excused => call[c].runs[1] = 1

\* No item of a request runs twice, although a request is sent to the runtime
\* again when its session turns out to be dead.
ItemsRunOnce == \A c \in Calls : \A i \in 1 .. 2 : call[c].runs[i] <= 1

\* A request that was refused ran nothing of its batch.
RefusedRanNothing ==
  \A c \in Calls : call[c].answer = "refused" => \A i \in 1 .. 2 : call[c].runs[i] = 0

\* A communication tool runs only in a request during which the agent had a
\* soul: a binding that cannot be read makes the agent a drone.
DronesStaySilent ==
  \A c \in Calls : \A i \in DOMAIN call[c].req.items :
    call[c].runs[i] > 0 /\ call[c].req.items[i] = "email_send" => call[c].everBound

\* What Lesser records of a guest's call names the guest, and is recorded only
\* while the guest's share stands, also when the share is taken back after the
\* request was admitted; what the owner does is never recorded as a guest's.
GuestsPostByShare ==
  [][\A p \in posts' \ posts :
        IF p.human \in Guests THEN p.actedBy = p.human /\ p.human \in shares
        ELSE p.actedBy = NoOne]_vars

\* What is paid for runs, and what runs is paid for.
PaymentsBuyRuns == PaidRunsAreBought /\ SpentCallsRun

\* No answer hides a run: a refused request ran nothing, and nothing ran twice;
\* and what ran was for the agent to run, with or without a soul
\* (session_recovery.go:41, runtime_policy.go:24).
RunsMatchAnswers == ItemsRunOnce /\ RefusedRanNothing /\ DronesStaySilent

=============================================================================
