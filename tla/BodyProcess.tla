---------------------------- MODULE BodyProcess ----------------------------
(***************************************************************************)
(* One Lambda process of Body and what it keeps from request to request:   *)
(* the trust configuration, the JWT secret and the Host instance key, each *)
(* behind a sync.Once that keeps the first outcome, error or not, for the  *)
(* life of the process (trustconfig.go, auth/secrets.go), and the issuer   *)
(* of the authorization server behind a probe lock, where only successes   *)
(* are kept (mcpapp/discovery_validation.go).  The actor server ("ka")     *)
(* reads the trust configuration at cold start and panics if it cannot;    *)
(* the instance server reads it in the first request that needs it, and    *)
(* asks for the issuer at cold start instead.                              *)
(***************************************************************************)
EXTENDS Naturals, FiniteSets

CONSTANTS Requests,
          Issuers,       \* what the authorization server may publish
          Nothing,       \* no value, no holder
          MaxRestarts,   \* processes stop being recycled here
          MaxRotations   \* the issuer stops changing here

ASSUME ProcessAssumption ==
  /\ Nothing \notin Requests \cup Issuers
  /\ "trustUnread" \notin {Nothing} \cup Issuers
  /\ MaxRestarts \in Nat /\ MaxRotations \in Nat

VARIABLES server,     \* "ka" or "instance"
          life,       \* "down" or "serving"
          probes,     \* ka: discovery asks the authorization server
          once,       \* per cell: Unset, "failed" or what was read
          runner,     \* per cell: the request inside Do
          cached,     \* the cached issuer, or Nothing
          prober,     \* the request that holds the probe lock
          published,  \* the issuer the authorization server publishes
          rotations,
          restarts,
          request,    \* per request: [pc, answer]
          told        \* the issuers this process has answered with

world  == <<published, rotations>>
caches == <<once, runner, cached, prober>>
processVars   == <<server, life, probes, caches, world, restarts, request, told>>

-----------------------------------------------------------------------------
Cells == {"trust", "jwt", "key"}

Unset == "unset"

\* What reading a cell may end in.  The trust row: none, without a base URL,
\* without the key's ARN, or complete.
Outcomes(cell) ==
  {"failed"} \cup (IF cell = "trust" THEN {"absent", "noURL", "noKey", "full"} ELSE {"value"})

Fresh == [pc |-> "idle", answer |-> Nothing]

Unread  == [cell \in Cells |-> Unset]
Nowhere == [cell \in Cells |-> Nothing]

ProcessInit ==
  /\ server \in {"ka", "instance"}
  /\ life = "down" /\ probes = FALSE
  /\ once = Unread /\ runner = Nowhere /\ cached = Nothing /\ prober = Nothing
  /\ published \in Issuers
  /\ rotations = 0 /\ restarts = 0
  /\ request = [r \in Requests |-> Fresh]
  /\ told = {}

\* A ka that serves whatever the trust row says.
BootUnchecked ==
  /\ life = "down" /\ server = "ka"
  /\ \E read \in Outcomes("trust") :
       /\ once' = [once EXCEPT !["trust"] = read]
       /\ probes' = (read \in {"noKey", "full"})
  /\ life' = "serving"
  /\ UNCHANGED <<server, runner, cached, prober, world, restarts, request, told>>

\* validateDiscoveryStartupConfig; a refusal is a panic, and the next cold
\* start begins with nothing.
BootKa ==
  /\ life = "down" /\ server = "ka"
  /\ \E read \in Outcomes("trust") \ {"failed", "noURL"} :
       /\ once' = [once EXCEPT !["trust"] = read]
       /\ probes' = (read # "absent")
  /\ life' = "serving"
  /\ UNCHANGED <<server, runner, cached, prober, world, restarts, request, told>>

\* The instance server asks for the issuer at cold start, and dies without it.
BootInstance ==
  /\ life = "down" /\ server = "instance"
  /\ life' = "serving"
  /\ cached' = published
  /\ UNCHANGED <<server, probes, once, runner, prober, world, restarts, request, told>>

\* Lambda recycles the process; callers of what was in flight hear an error.
Recycle ==
  /\ life = "serving" /\ restarts < MaxRestarts
  /\ restarts' = restarts + 1
  /\ life' = "down" /\ probes' = FALSE
  /\ once' = Unread /\ runner' = Nowhere /\ cached' = Nothing /\ prober' = Nothing
  /\ request' = [r \in Requests |->
       IF request[r].pc \in {"idle", "done"} THEN request[r]
       ELSE [pc |-> "done", answer |-> "lost"]]
  /\ told' = {}
  /\ UNCHANGED <<server, world>>

Rotate ==
  /\ rotations < MaxRotations
  /\ rotations' = rotations + 1
  /\ \E i \in Issuers \ {published} : published' = i
  /\ UNCHANGED <<server, life, probes, caches, restarts, request, told>>

-----------------------------------------------------------------------------
Proceed(r, label) == request' = [request EXCEPT ![r].pc = label]
Respond(r, a)   == request' = [request EXCEPT ![r] = [pc |-> "done", answer |-> a]]

\* A request to the metadata route, one with a token to validate, one that
\* needs the instance key.
Arrive(r) ==
  /\ life = "serving" /\ request[r].pc = "idle"
  /\ \E label \in {"jwt", "trust", "metadata"} : Proceed(r, label)
  /\ UNCHANGED <<server, life, probes, caches, world, restarts, told>>

\* sync.Once.Do: the first caller runs the read; all others wait for it.
Enter(r, cell) ==
  /\ request[r].pc = cell
  /\ once[cell] = Unset /\ runner[cell] = Nothing
  /\ runner' = [runner EXCEPT ![cell] = r]
  /\ UNCHANGED <<server, life, probes, once, cached, prober, world, restarts, request, told>>

\* The read ends, with the error of the caller's expired context too.
ReadEnds(r, cell) ==
  /\ runner[cell] = r
  /\ \E read \in Outcomes(cell) : once' = [once EXCEPT ![cell] = read]
  /\ runner' = [runner EXCEPT ![cell] = Nothing]
  /\ UNCHANGED <<server, life, probes, cached, prober, world, restarts, request, told>>

UseSecret(r, cell) ==
  /\ cell # "trust"
  /\ request[r].pc = cell /\ once[cell] # Unset
  /\ Respond(r, once[cell])
  /\ UNCHANGED <<server, life, probes, caches, world, restarts, told>>

\* lesserHostInstanceKeySecretID: which secret holds the key.
UseTrust(r) ==
  /\ request[r].pc = "trust" /\ once["trust"] # Unset
  /\ \/ once["trust"] = "failed" /\ Respond(r, "trustUnread")
     \/ once["trust"] \in {"absent", "noURL", "noKey"} /\ Respond(r, "unconfigured")
     \/ once["trust"] = "full" /\ Proceed(r, "key")
  /\ UNCHANGED <<server, life, probes, caches, world, restarts, told>>

AnswerIssuer(r, i) == Respond(r, i) /\ told' = told \cup {i}

\* A request under another public URL than the configured endpoint's.
Mismatch(r) ==
  /\ request[r].pc = "metadata"
  /\ Respond(r, "invalid")
  /\ UNCHANGED <<server, life, probes, caches, world, restarts, told>>

\* The metadata route: the cached issuer, the derived URL, or a probe.
Metadata(r) ==
  /\ request[r].pc = "metadata"
  /\ \/ cached # Nothing /\ AnswerIssuer(r, cached)
     \/ ~probes /\ cached = Nothing /\ Respond(r, "derived") /\ UNCHANGED told
     \/ probes /\ cached = Nothing /\ Proceed(r, "waiting") /\ UNCHANGED told
  /\ UNCHANGED <<server, life, probes, caches, world, restarts>>

Acquired(r) == Proceed(r, "probe") /\ UNCHANGED told

AcquireUnchecked(r) ==
  /\ request[r].pc = "waiting" /\ prober = Nothing
  /\ prober' = r /\ Acquired(r)
  /\ UNCHANGED <<server, life, probes, once, runner, cached, world, restarts>>

\* The cache is looked at again once the lock is held.
Acquire(r) ==
  /\ request[r].pc = "waiting" /\ prober = Nothing
  /\ \/ cached = Nothing /\ prober' = r /\ Acquired(r)
     \/ cached # Nothing /\ AnswerIssuer(r, cached) /\ UNCHANGED prober
  /\ UNCHANGED <<server, life, probes, once, runner, cached, world, restarts>>

\* What a probe brings back: the issuer in the metadata, or nothing after a
\* refusal, a malformed document or three seconds.
Found == {published, Nothing}

ProbeKeepsLock(r) ==
  /\ request[r].pc = "probe"
  /\ \/ /\ cached' = published /\ AnswerIssuer(r, published) /\ prober' = Nothing
     \/ /\ Respond(r, "unavailable") /\ UNCHANGED <<cached, told, prober>>
  /\ UNCHANGED <<server, life, probes, once, runner, world, restarts>>

\* The cache is set or left, and the lock is released either way.
Probe(r) ==
  /\ request[r].pc = "probe"
  /\ prober' = Nothing
  /\ \E found \in Found :
       IF found = Nothing THEN Respond(r, "unavailable") /\ UNCHANGED <<cached, told>>
       ELSE cached' = found /\ AnswerIssuer(r, found)
  /\ UNCHANGED <<server, life, probes, once, runner, world, restarts>>

Serve(r) ==
  \/ \E cell \in Cells : Enter(r, cell) \/ ReadEnds(r, cell) \/ UseSecret(r, cell)
  \/ UseTrust(r) \/ Mismatch(r) \/ Metadata(r) \/ Acquire(r) \/ Probe(r)

ProcessNext ==
  \/ BootKa \/ BootInstance \/ Recycle \/ Rotate
  \/ \E r \in Requests : Arrive(r) \/ Serve(r)

\* The reads and probes carry deadlines, so a request that can go on does.
Fairness == \A r \in Requests : WF_processVars(Serve(r))

ProcessSpec == ProcessInit /\ [][ProcessNext]_processVars /\ Fairness

-----------------------------------------------------------------------------
(***************************************************************************)
(* Properties                                                              *)
(***************************************************************************)

\* Two clients of one process are never sent to different issuers: concurrent
\* first requests share one probe, even while the server changes its issuer
\* (discovery_validation.go:92-117).
OneIssuerPerProcess == Cardinality(told) <= 1

\* The actor server never refuses for want of a trust configuration: the error
\* its sync.Once would keep for ever can only arise at the cold start, which
\* then dies (discovery_validation.go:50-90, trustconfig.go:73-78).
ServingKaKnowsTrust ==
  server = "ka" => \A r \in Requests : request[r].answer # "trustUnread"

\* Every request is answered, whichever of them runs the read or the probe the
\* others wait for, and however that ends (discovery_validation.go:97-98).
RequestsReturn ==
  \A r \in Requests : request[r].pc # "idle" ~> request[r].pc = "done"

\* What a process has once found out it stays with, and an actor server is
\* never kept from serving by it.
CachesHold == OneIssuerPerProcess /\ ServingKaKnowsTrust

=============================================================================
