----------------------------- MODULE AgentComm -----------------------------
(***************************************************************************)
(* The communication tools of a bound agent: e-mail, SMS and voicemail     *)
(* through the Host, who the caller is, and whether a message came from    *)
(* whom it says.  Every tool first finds out for which soul the caller     *)
(* acts, asks Lesser to confirm it (an owner) or relies on the share that  *)
(* admitted it (a guest), reads the soul's registration and its            *)
(* contactability, and decides by BoundOperationPolicy; then it makes one   *)
(* call to the Host.                                                       *)
(*                                                                         *)
(* These are reads of different services at different times.  `world' is   *)
(* the history of what they would answer; its last element is the present. *)
(***************************************************************************)
EXTENDS Naturals, FiniteSets, Sequences, BoundOperationPolicy

CONSTANTS Calls,         \* slots of concurrent tool calls
          Actor,         \* the account of the agent
          Accounts,      \* Actor and the accounts of its guests
          Souls,
          Requests,      \* tool calls: [user, token, tool, ...]
          Registrations, \* registrations the Host may publish
          Contacts,      \* contactability records the Host may hold
          Messages,      \* messages received: [store, soul, channel, from, names]
          Names,         \* ENS names: [name -> the soul it resolves to]
          FirstWorlds,   \* what the services may answer at first
          MaxArrivals,   \* bound: tool calls
          MaxMoves,      \* bound: changes of the world
          MaxFaults      \* bound: failed reads and lost answers

ASSUME ActorIsAnAccount == Actor \in Accounts

VARIABLES call,    \* per slot: the tool call and how far it is
          world,   \* history of bindings, registrations and contactability
          outbox,  \* messages the Host has sent out
          flags,   \* per message of the mailbox: read, and where it is kept
          arrivals, faults \* spent of their bounds

vars == <<call, world, outbox, flags, arrivals, faults>>

NoSoul == "no soul"
NoOne  == "no one"
NoKey  == 0

Now == world[Len(world)]

Contacted == {NoContact} \cup {{k} : k \in Contacts}

Worlds ==
  [projected : [Accounts -> Souls \cup {NoSoul}],  \* bindings as Body looks them up
   bound     : [Accounts -> Souls \cup {NoSoul}],  \* bindings as Lesser knows them
   registration : [Souls -> Registrations],
   contact      : [Souls -> Contacted]]

ASSUME FirstWorldsAreWorlds == FirstWorlds \subseteq Worlds

-----------------------------------------------------------------------------
(* Tools *)

ReadOperation(channel) ==
  CASE channel = "email"                  -> "email.read"
    [] channel = "sms"                    -> "sms.read"
    [] channel \in {"voice", "voicemail"} -> "voice.read"
    [] OTHER                              -> "none"

\* The operation a tool is authorized for before it calls the Host.
Operation(req) ==
  CASE req.tool \in {"email_send", "email_reply"}              -> "email.send"
    [] req.tool = "sms_send"                                   -> "sms.send"
    [] req.tool \in {"email_read", "email_search", "email_get"} -> "email.read"
    [] req.tool \in {"email_delete", "email_mark"}             -> "email.manage"
    [] req.tool = "sms_read"                                   -> "sms.read"
    [] req.tool = "voicemail_read"                             -> "voice.read"
    [] req.tool = "identity_verify" ->
         IF req.channel = "phone" THEN "sms.read" ELSE "email.read"
    [] OTHER                                                   -> "identity.self.read"

Shared(req) == req.user # Actor

Class(req) == CallerClass([req.token EXCEPT !.shared = Shared(req)])

\* The account whose binding names the soul: a guest acts for the agent.
Account(req) == IF Shared(req) THEN Actor ELSE req.user

\* The key of a message: the caller's, or one of its own for every call.
OwnKey == arrivals + 1

\* Mutant: the key is made anew where the message is sent.
KeyAnew(req) == OwnKey

KeyOf(req) == IF req.key = NoKey THEN OwnKey ELSE req.key

-----------------------------------------------------------------------------
(* A tool call *)

Stages == {"idle", "binding", "confirm", "registration", "contact", "host", "done"}

Vacant == [at |-> "idle", req |-> CHOOSE r \in Requests : TRUE, key |-> NoKey,
           op |-> "none", soul |-> NoSoul, reg |-> CHOOSE r \in Registrations : TRUE,
           fetched |-> NoSoul, did |-> {}, answer |-> "none", since |-> 1]

Init ==
  /\ world \in {<<w>> : w \in FirstWorlds}
  /\ call = [c \in Calls |-> Vacant]
  /\ outbox = {}
  /\ flags = [m \in Messages |-> [read |-> FALSE, place |-> "inbox"]]
  /\ arrivals = 0 /\ faults = 0

InFlight(r) == r.at \notin {"idle", "done"}
Step(c, r)  == call' = [call EXCEPT ![c] = r]
Ends(r, answer) == [r EXCEPT !.at = "done", !.answer = answer]

\* Whatever error a read ends with, the caller gets one refusal.
Refuses(r) == Ends(r, "refused")

Fault == faults < MaxFaults /\ faults' = faults + 1

\* A message named in identity_verify that is not the mailbox's is looked up
\* in the notifications of Lesser, under the caller's own token.
FirstStage(req) ==
  IF req.tool = "identity_verify" /\ req.ref.store = "lesser" THEN "host" ELSE "binding"

Arrive(c) ==
  /\ ~InFlight(call[c])
  /\ arrivals < MaxArrivals
  /\ arrivals' = arrivals + 1
  /\ \E req \in Requests :
       Step(c, [Vacant EXCEPT !.at = FirstStage(req), !.req = req, !.key = KeyOf(req),
                              !.op = Operation(req), !.since = Len(world)])
  /\ UNCHANGED <<world, outbox, flags, faults>>

\* A read of another service, or its failure.
Reads(c, stage, Then(_)) ==
  /\ call[c].at = stage
  /\ \/ Step(c, Then(call[c])) /\ UNCHANGED faults
     \/ Fault /\ Step(c, Refuses(call[c]))
  /\ UNCHANGED <<world, outbox, flags, arrivals>>

ResolvedBinding(r) ==
  LET soul == Now.projected[Account(r.req)] IN
  IF soul = NoSoul THEN Refuses(r)
  ELSE [r EXCEPT !.soul = soul, !.at = IF Shared(r.req) THEN "registration" ELSE "confirm"]

ResolveBinding(c) == Reads(c, "binding", ResolvedBinding)

\* Mutant: Lesser need only report some bound soul.
ConfirmedSome(r) ==
  IF Now.bound[r.req.user] # NoSoul THEN [r EXCEPT !.at = "registration"]
  ELSE Refuses(r)

\* Lesser's answer about the token's own binding must name the same soul.
ConfirmedSame(r) ==
  IF Now.bound[r.req.user] = r.soul THEN [r EXCEPT !.at = "registration"]
  ELSE Refuses(r)

ConfirmBinding(c) == Reads(c, "confirm", ConfirmedSame)

ReadRegistration(c) ==
  Reads(c, "registration",
        LAMBDA r : [r EXCEPT !.reg = Now.registration[r.soul], !.at = "contact"])

\* The decision: what is done next is the call to the Host, unless a message
\* that identity_verify has already fetched waits for it.
Decided(r, contact) ==
  IF ~Allowed(WithContactability(r.reg, contact), r.op, Class(r.req)) THEN Refuses(r)
  ELSE IF r.req.tool = "identity_whoami"
  THEN [Ends(r, "ok") EXCEPT !.did = {[op |-> r.op, soul |-> r.soul, when |-> Len(world)]}]
  ELSE [r EXCEPT !.at = "host"]

\* A contactability record that cannot be read counts as an empty one.
Decide(c) ==
  /\ call[c].at = "contact"
  /\ \/ Step(c, Decided(call[c], Now.contact[call[c].soul])) /\ UNCHANGED faults
     \/ Fault /\ Step(c, Decided(call[c], NoContact))
  /\ UNCHANGED <<world, outbox, flags, arrivals>>

-----------------------------------------------------------------------------
(* The call to the Host *)

ActedBy(req) == IF Shared(req) THEN req.user ELSE NoOne

Did(r) == [r EXCEPT !.did = @ \cup {[op |-> r.op, soul |-> r.soul, when |-> Len(world)]}]

\* The Host sends a message once per agent and key, and answers again with
\* what it answered then.
Sent(r, actedBy) ==
  IF \E d \in outbox : d.soul = r.soul /\ d.key = r.key THEN outbox
  ELSE outbox \cup {[soul |-> r.soul, key |-> r.key, req |-> r.req, actedBy |-> actedBy]}

\* An answer, a lost answer, or a call that does not arrive.
Delivers(c, actedBy) ==
  LET r == call[c] IN
  /\ \/ Step(c, Ends(Did(r), "ok"))    /\ outbox' = Sent(r, actedBy) /\ UNCHANGED faults
     \/ Step(c, Ends(Did(r), "error")) /\ outbox' = Sent(r, actedBy) /\ Fault
     \/ Step(c, Ends(r, "error"))      /\ UNCHANGED outbox           /\ Fault
  /\ UNCHANGED <<world, flags, arrivals>>

AtHost(c, tool) == call[c].at = "host" /\ call[c].req.tool = tool

EmailSend(c) == AtHost(c, "email_send") /\ Delivers(c, ActedBy(call[c].req))
SmsSend(c)   == AtHost(c, "sms_send") /\ Delivers(c, ActedBy(call[c].req))

Mail(soul) == {m \in Messages : m.store = "mailbox" /\ m.soul = soul}

\* The Host looks the message up in the mailbox of the agent it is asked for.
Found(r) == r.req.ref \in Mail(r.soul)

\* The Host derives recipient and thread from the message; nobody is named.
EmailReply(c) == AtHost(c, "email_reply") /\ Found(call[c]) /\ Delivers(c, NoOne)

MissingMessage(c) ==
  /\ call[c].at = "host" /\ call[c].req.tool \in {"email_reply", "email_get", "email_delete",
                                                 "email_mark", "identity_verify"}
  /\ call[c].req.ref.store = "mailbox" /\ call[c].fetched = NoSoul /\ ~Found(call[c])
  /\ Step(c, Ends(call[c], IF call[c].req.tool = "identity_verify" THEN "unverified" ELSE "refused"))
  /\ UNCHANGED <<world, outbox, flags, arrivals, faults>>

Shows(c) == Reads(c, "host", LAMBDA r : Ends(Did(r), "ok"))

EmailRead(c)     == AtHost(c, "email_read") /\ Shows(c)
EmailSearch(c)   == AtHost(c, "email_search") /\ Shows(c)
EmailGet(c)      == AtHost(c, "email_get") /\ Found(call[c]) /\ Shows(c)
SmsRead(c)       == AtHost(c, "sms_read") /\ Shows(c)
VoicemailRead(c) == AtHost(c, "voicemail_read") /\ Shows(c)

Marked(flag, action) ==
  CASE action = "read"    -> [flag EXCEPT !.read = TRUE]
    [] action = "unread"  -> [flag EXCEPT !.read = FALSE]
    [] action = "archive" -> [flag EXCEPT !.place = "archive"]
    [] OTHER              -> [flag EXCEPT !.place = "trash"]

Manages(c) ==
  LET r == call[c]
      marked == [flags EXCEPT ![r.req.ref] = Marked(@, r.req.action)]
  IN
  /\ \/ Step(c, Ends(Did(r), "ok"))    /\ flags' = marked /\ UNCHANGED faults
     \/ Step(c, Ends(Did(r), "error")) /\ flags' = marked /\ Fault
     \/ Step(c, Ends(r, "error"))      /\ UNCHANGED flags /\ Fault
  /\ UNCHANGED <<world, outbox, arrivals>>

EmailDelete(c) == AtHost(c, "email_delete") /\ Found(call[c]) /\ Manages(c)
EmailMark(c)   == AtHost(c, "email_mark") /\ Found(call[c]) /\ Manages(c)

-----------------------------------------------------------------------------
(* identity_verify *)

\* Mutant: whoever may read e-mail may be told of any message.
FetchedAsAsked(r) == [r EXCEPT !.fetched = r.soul]

\* The message came in on a channel of its own: unless the call was authorized
\* for that channel, it is authorized anew, from the binding on.
FetchedFor(r) ==
  LET op == ReadOperation(r.req.ref.channel) IN
  IF op = "none" THEN Refuses(r)
  ELSE IF op = r.op THEN [r EXCEPT !.fetched = r.soul]
  ELSE [r EXCEPT !.fetched = r.soul, !.op = op, !.at = "binding"]

Fetch(c) ==
  /\ AtHost(c, "identity_verify")
  /\ call[c].req.ref.store = "mailbox" /\ call[c].fetched = NoSoul /\ Found(call[c])
  /\ Reads(c, "host", FetchedFor)

\* Mutant: what the sender calls itself counts.
SendersClaimed(m) == m.from \cup {Names[n] : n \in m.names}

\* Only what the Host says of the sender counts.
Senders(m) == m.from

\* A name resolves to a soul, which must be the sender; an address or a number
\* is private and is never confirmed.
Verdict(r) ==
  IF r.req.channel = "ens" /\ Names[r.req.name] \in Senders(r.req.ref)
  THEN "verified" ELSE "unverified"

Verify(c) ==
  /\ AtHost(c, "identity_verify")
  /\ call[c].fetched # NoSoul \/ call[c].req.ref.store = "lesser"
  /\ Reads(c, "host",
           LAMBDA r : Ends(IF r.fetched = NoSoul THEN r
                           ELSE Did([r EXCEPT !.soul = r.fetched,
                                           !.op = ReadOperation(r.req.ref.channel)]), Verdict(r)))

-----------------------------------------------------------------------------
(* Lesser and the Host change what the tools read *)

\* One of the answers changes.
Changes ==
  {[Now EXCEPT !.projected[a] = s] : a \in Accounts, s \in Souls \cup {NoSoul}}
  \cup {[Now EXCEPT !.bound[a] = s] : a \in Accounts, s \in Souls \cup {NoSoul}}
  \cup {[Now EXCEPT !.registration[s] = g] : s \in Souls, g \in Registrations}
  \cup {[Now EXCEPT !.contact[s] = k] : s \in Souls, k \in Contacted}

Move ==
  /\ Len(world) <= MaxMoves
  /\ \E w \in Changes : w # Now /\ world' = Append(world, w)
  /\ UNCHANGED <<call, outbox, flags, arrivals, faults>>

Next ==
  \/ \E c \in Calls :
       \/ Arrive(c) \/ ResolveBinding(c) \/ ConfirmBinding(c) \/ ReadRegistration(c)
       \/ Decide(c) \/ EmailSend(c) \/ SmsSend(c) \/ EmailReply(c) \/ MissingMessage(c)
       \/ EmailRead(c) \/ EmailSearch(c) \/ EmailGet(c) \/ SmsRead(c) \/ VoicemailRead(c)
       \/ EmailDelete(c) \/ EmailMark(c) \/ Fetch(c) \/ Verify(c)
  \/ Move

Spec == Init /\ [][Next]_vars

-----------------------------------------------------------------------------
(* Properties *)

TypeOK ==
  /\ world \in Seq(Worlds)
  /\ \A c \in Calls :
       /\ call[c].at \in Stages /\ call[c].req \in Requests
       /\ call[c].op \in Operations \cup {"none"}
       /\ call[c].soul \in Souls \cup {NoSoul}
       /\ call[c].reg \in Registrations
       /\ call[c].since \in 1 .. Len(world)
  /\ \A d \in outbox : d.soul \in Souls /\ d.req \in Requests
  /\ flags \in [Messages -> [read : BOOLEAN, place : {"inbox", "archive", "trash"}]]

\* The moments that a call may have read for something it did.
Moments(r, e) == r.since .. e.when

\* The soul whose policy decides: the one a call acts for.  A message that was
\* fetched is shown under the policy of the soul that is bound after that.
Deciding(r, e) ==
  IF r.fetched = NoSoul THEN {e.soul}
  ELSE {world[i].projected[Account(r.req)] : i \in Moments(r, e)} \ {NoSoul}

\* Policies that a call may have put together: a registration and a
\* contactability record of its time, or a registration alone.
Policies(r, e) ==
  UNION {{WithContactability(world[i].registration[s], k) :
            i \in Moments(r, e),
            k \in {world[j].contact[s] : j \in Moments(r, e)} \cup {NoContact}} :
         s \in Deciding(r, e)}

\* What a call does, at the Host or by what it discloses, some policy of its
\* time allowed to its caller.
ActsWithinPolicy ==
  \A c \in Calls : \A e \in call[c].did :
    \E p \in Policies(call[c], e) : Allowed(p, e.op, Class(call[c].req))

\* No SMS leaves and no SMS or voicemail is shown unless during the call the
\* soul's phone was paid for or provisioned, by some entry, payment policy or
\* channel.
UnpaidPhonesStaySilent ==
  \A c \in Calls : \A e \in call[c].did :
    e.op \in PhoneOperations =>
      \E p \in Policies(call[c], e) :
        \/ p.entitled
        \/ p.channels \cap {"sms", "voice", "phone"} # {}
        \/ \E x \in p.rules \cup p.policyRules : x.entitled
        \/ \E x \in p.hosted : x.entitled

\* The soul in whose name a call acts was bound to the agent's account when
\* Body looked, and for an owner Lesser confirmed that very soul.
SenderIsConfirmed ==
  \A c \in Calls : \A e \in call[c].did :
    /\ \E i \in Moments(call[c], e) :
         world[i].projected[Account(call[c].req)] = e.soul
    /\ ~Shared(call[c].req) =>
         \E i \in Moments(call[c], e) : world[i].bound[call[c].req.user] = e.soul

\* A tool call repeated under the caller's own key sends one message per soul,
\* whatever answers are lost.
KeyDeliversOnce ==
  \A d, e \in outbox :
    d.req = e.req /\ d.soul = e.soul /\ d.req.key # NoKey => d = e

\* A message is confirmed as a soul's only when the Host names that soul as
\* its sender, whatever the message calls itself.
SpoofsStayUnverified ==
  \A c \in Calls :
    call[c].answer = "verified" => Names[call[c].req.name] \in call[c].req.ref.from

\* A call reaches no further than the policies of its time: not in what it may
\* do, and not to a phone nobody has paid for.
ActsAsAllowed == ActsWithinPolicy /\ UnpaidPhonesStaySilent

\* In whose name: a soul that was bound when a call acts for it, and that the
\* Host names when a message is confirmed as its own.
SendersAreTrue == SenderIsConfirmed /\ SpoofsStayUnverified

=============================================================================
