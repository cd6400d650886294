--------------------------- MODULE AgentCommProofs ---------------------------
(***************************************************************************)
(* AgentComm for every set of callers, souls, policies and messages, any   *)
(* number of concurrent calls, and any number of changes of what they      *)
(* read.  The inductive invariant says, per stage of a call, what the call *)
(* has established so far and from which moments of the world.  At the     *)
(* end, the same of SoulRead.                                              *)
(***************************************************************************)
EXTENDS AgentComm, SoulRead, TLAPS

Fields == {"at", "req", "key", "op", "soul", "reg", "fetched", "did", "answer", "since"}

\* In the history w, between the start of r and moment n, s is bound to the
\* account that r acts for.
Seen(r, s, w, n) ==
  /\ s # NoSoul
  /\ \E i \in r.since .. n : w[i].projected[Account(r.req)] = s

\* And for an owner Lesser has confirmed it.
BoundFor(r, s, w, n) ==
  /\ Seen(r, s, w, n)
  /\ ~Shared(r.req) => \E i \in r.since .. n : w[i].bound[r.req.user] = s

\* A registration and a contactability record of s allow op to r.
Authority(r, op, s, w, n) ==
  \E i, j \in r.since .. n : \E k \in {NoContact, w[j].contact[s]} :
    Allowed(WithContactability(w[i].registration[s], k), op, Class(r.req))

\* What r has done for e.soul, the policy that decides allowed: the soul's, or
\* after a fetch that of any soul seen bound.
Backed(r, w, e) ==
  /\ e.when \in r.since .. Len(w)
  /\ BoundFor(r, e.soul, w, e.when)
  /\ \E i \in r.since .. e.when :
       \E s \in {e.soul, w[i].projected[Account(r.req)]} :
         /\ r.fetched = NoSoul => s = e.soul
         /\ Seen(r, s, w, e.when)
         /\ Authority(r, e.op, s, w, e.when)

\* A message of Lesser's needs no binding; any other call has one by now.
Cleared(r, w) ==
  \/ FirstStage(r.req) = "host" /\ r.fetched = NoSoul
  \/ BoundFor(r, r.soul, w, Len(w)) /\ Authority(r, r.op, r.soul, w, Len(w))

StageHolds(r, w) ==
  /\ r.at = "confirm" => Seen(r, r.soul, w, Len(w))
  /\ r.at \in {"registration", "contact"} => BoundFor(r, r.soul, w, Len(w))
  /\ r.at = "contact" =>
       \E i \in r.since .. Len(w) : r.reg = w[i].registration[r.soul]
  /\ r.at = "host" => Cleared(r, w)

FetchedHolds(r, w) ==
  r.fetched # NoSoul => /\ BoundFor(r, r.fetched, w, Len(w))
                        /\ r.op = ReadOperation(r.req.ref.channel)

VerdictHolds(r) ==
  r.answer = "verified" => Names[r.req.name] \in r.req.ref.from

KeyHolds(r) == InFlight(r) /\ r.req.key # NoKey => r.key = r.req.key

CallHolds(r, w) ==
  /\ DOMAIN r = Fields
  /\ r.since \in 1 .. Len(w)
  /\ InFlight(r) => r.did = {}
  /\ StageHolds(r, w)
  /\ FetchedHolds(r, w)
  /\ VerdictHolds(r)
  /\ KeyHolds(r)
  /\ \A e \in r.did : Backed(r, w, e)

\* The Host has one message per soul and key, under the caller's own key.
OutboxHolds(sent) ==
  /\ \A d, e \in sent : d.soul = e.soul /\ d.key = e.key => d = e
  /\ \A d \in sent : d.req.key # NoKey => d.key = d.req.key

CommInv == /\ world \in Seq(Worlds) /\ Len(world) >= 1
           /\ DOMAIN call = Calls
           /\ \A c \in Calls : CallHolds(call[c], world)
           /\ OutboxHolds(outbox)

-----------------------------------------------------------------------------
(* What the decision promises *)

\* A phone operation that is allowed has been paid for or provisioned, by an
\* entry, a payment policy or a channel.
LEMMA AllowedPhoneIsPaid ==
  ASSUME NEW p, NEW op \in PhoneOperations, NEW class, Allowed(p, op, class)
  PROVE  \/ p.entitled
         \/ p.channels \cap {"sms", "voice", "phone"} # {}
         \/ \E x \in p.rules \cup p.policyRules : x.entitled
         \/ \E x \in p.hosted : x.entitled
  <1>1. Entitled(p, op)
    BY DEF Allowed
  <1>2. CASE EntitlingChannels(op) \cap p.channels # {}
    BY <1>2 DEF EntitlingChannels, PhoneOperations
  <1>3. ASSUME NEW e \in Enabled(p, op), e.entitled
        PROVE  \/ \E x \in p.rules \cup p.policyRules : x.entitled
               \/ \E x \in p.hosted : x.entitled
    <2>1. CASE e \in p.rules \cup p.policyRules
      BY <1>3, <2>1
    <2>2. ASSUME NEW policy \in p.hosted, e = HostedEntry(policy, op)
          PROVE  policy.entitled
      <3>1. e.entitled = (policy.binding /\ op \in PhoneOperations /\ policy.entitled)
        BY <2>2 DEF HostedEntry
      <3> QED BY <1>3, <3>1
    <2> QED BY <1>3, <2>1, <2>2 DEF Enabled, Entries
  <1> QED BY <1>1, <1>2, <1>3 DEF Entitled

-----------------------------------------------------------------------------
LEMMA InitInv == Init => CommInv
  <1> SUFFICES ASSUME Init PROVE CommInv
    OBVIOUS
  <1>1. PICK w \in FirstWorlds : world = <<w>>
    BY DEF Init
  <1>2. world \in Seq(Worlds) /\ Len(world) = 1
    BY <1>1, FirstWorldsAreWorlds
  <1>3. CallHolds(Vacant, world)
    BY <1>2 DEF CallHolds, Vacant, Fields, InFlight, StageHolds, FetchedHolds, VerdictHolds,
                KeyHolds
  <1> QED BY <1>2, <1>3 DEF Init, CommInv, OutboxHolds

-----------------------------------------------------------------------------
(* A longer history only adds moments *)

LEMMA HistoryGrows ==
  ASSUME NEW w \in Seq(Worlds), NEW x \in Worlds, NEW r, CallHolds(r, w)
  PROVE  CallHolds(r, Append(w, x))
  <1> DEFINE v == Append(w, x)
  <1>1. /\ Len(v) = Len(w) + 1 /\ Len(w) \in Nat
        /\ \A i \in 1 .. Len(w) : v[i] = w[i]
    OBVIOUS
  <1> HIDE DEF v
  <1>2. r.since \in 1 .. Len(w) /\ r.since \in 1 .. Len(v)
    BY <1>1 DEF CallHolds
  <1>3. \A s : \A n \in Nat : n <= Len(w) =>
          /\ Seen(r, s, w, n) => Seen(r, s, v, n)
          /\ BoundFor(r, s, w, n) => BoundFor(r, s, v, n)
    BY <1>1, <1>2 DEF Seen, BoundFor
  <1>4. \A s : /\ Seen(r, s, v, Len(w)) => Seen(r, s, v, Len(v))
               /\ BoundFor(r, s, v, Len(w)) => BoundFor(r, s, v, Len(v))
    BY <1>1, <1>2 DEF Seen, BoundFor
  <1>5. \A op, s : \A n \in Nat :
          n <= Len(w) /\ Authority(r, op, s, w, n) => Authority(r, op, s, v, n)
    BY <1>1, <1>2 DEF Authority
  <1>6. \A op, s : Authority(r, op, s, v, Len(w)) => Authority(r, op, s, v, Len(v))
    BY <1>1, <1>2 DEF Authority
  <1>7. Cleared(r, w) => Cleared(r, v)
    BY <1>1, <1>3, <1>4, <1>5, <1>6 DEF Cleared
  <1>8. StageHolds(r, v)
    BY <1>1, <1>2, <1>3, <1>4, <1>7 DEF CallHolds, StageHolds
  <1>9. FetchedHolds(r, v)
    BY <1>1, <1>3, <1>4 DEF CallHolds, FetchedHolds
  <1>10. ASSUME NEW e \in r.did PROVE Backed(r, v, e)
    <2>1. e.when \in r.since .. Len(w) /\ e.when \in Nat /\ e.when <= Len(w)
      BY <1>2, <1>10 DEF CallHolds, Backed
    <2>2. BoundFor(r, e.soul, v, e.when)
      BY <1>3, <1>10, <2>1 DEF CallHolds, Backed
    <2>3. PICK i \in r.since .. e.when :
            \E s \in {e.soul, w[i].projected[Account(r.req)]} :
              /\ r.fetched = NoSoul => s = e.soul
              /\ Seen(r, s, w, e.when)
              /\ Authority(r, e.op, s, w, e.when)
      BY <1>10 DEF CallHolds, Backed
    <2>4. v[i] = w[i]
      BY <1>1, <1>2, <2>1
    <2> QED BY <1>1, <1>2, <1>3, <1>5, <2>1, <2>2, <2>3, <2>4 DEF Backed
  <1> QED BY <1>2, <1>8, <1>9, <1>10 DEF CallHolds, v

-----------------------------------------------------------------------------
(* One call moves *)

LEMMA StepKeepsInv ==
  ASSUME CommInv, NEW c \in Calls, NEW r, CallHolds(r, world), Step(c, r),
         world' = world, OutboxHolds(outbox')
  PROVE  CommInv'
  BY DEF CommInv, Step

LEMMA EndsHolds ==
  ASSUME NEW w, NEW r, CallHolds(r, w), InFlight(r), NEW answer,
         answer = "verified" => Names[r.req.name] \in r.req.ref.from
  PROVE  CallHolds(Ends(r, answer), w)
  <1> DEFINE q == Ends(r, answer)
  <1>1. /\ DOMAIN q = Fields /\ q.at = "done" /\ q.answer = answer /\ q.did = {}
        /\ q.since = r.since /\ q.req = r.req /\ q.op = r.op /\ q.fetched = r.fetched
    BY DEF CallHolds, Ends, Fields
  <1> HIDE DEF q
  <1>2. FetchedHolds(q, w)
    BY <1>1 DEF CallHolds, FetchedHolds, BoundFor, Seen
  <1> QED BY <1>1, <1>2 DEF CallHolds, InFlight, StageHolds, VerdictHolds, KeyHolds, q

LEMMA RefusesHolds ==
  ASSUME NEW w, NEW r, CallHolds(r, w), InFlight(r)
  PROVE  CallHolds(Refuses(r), w)
  BY EndsHolds DEF Refuses

\* What the Host does for a call that is cleared and was bound.
LEMMA DidHolds ==
  ASSUME NEW r, CallHolds(r, world), r.at = "host", r.req.tool # "identity_verify",
         NEW answer \in {"ok", "error"}
  PROVE  CallHolds(Ends(Did(r), answer), world)
  <1> DEFINE q == Ends(Did(r), answer)
             e == [op |-> r.op, soul |-> r.soul, when |-> Len(world)]
  <1>1. InFlight(r) /\ r.did = {} /\ r.since \in 1 .. Len(world)
    BY DEF CallHolds, InFlight
  <1>2. /\ DOMAIN q = Fields /\ q.at = "done" /\ q.answer = answer /\ q.did = {e}
        /\ q.since = r.since /\ q.req = r.req /\ q.op = r.op /\ q.fetched = r.fetched
    BY <1>1 DEF CallHolds, Ends, Did, Fields
  <1>3. BoundFor(r, r.soul, world, Len(world)) /\ Authority(r, r.op, r.soul, world, Len(world))
    BY DEF CallHolds, StageHolds, Cleared, FirstStage
  <1>4. e.op = r.op /\ e.soul = r.soul /\ e.when = Len(world)
    OBVIOUS
  <1> HIDE DEF q, e
  <1>5. Backed(q, world, e)
    BY <1>1, <1>2, <1>3, <1>4 DEF Backed, BoundFor, Seen, Authority
  <1>6. FetchedHolds(q, world)
    BY <1>2 DEF CallHolds, FetchedHolds, BoundFor, Seen
  <1> QED BY <1>1, <1>2, <1>5, <1>6 DEF CallHolds, InFlight, StageHolds, VerdictHolds, KeyHolds, q

LEMMA BindingHolds ==
  ASSUME CommInv, NEW r, CallHolds(r, world), r.at = "binding"
  PROVE  CallHolds(ResolvedBinding(r), world)
  <1> DEFINE s == Now.projected[Account(r.req)]
             q == [r EXCEPT !.soul = s,
                            !.at = IF Shared(r.req) THEN "registration" ELSE "confirm"]
  <1>1. CASE s = NoSoul
    BY <1>1, RefusesHolds DEF ResolvedBinding, InFlight
  <1>2. CASE s # NoSoul
    <2>1. Len(world) \in r.since .. Len(world) /\ r.since \in 1 .. Len(world)
      BY DEF CommInv, CallHolds
    <2>2. /\ DOMAIN q = Fields /\ q.soul = s /\ q.since = r.since /\ q.req = r.req
          /\ q.at = (IF Shared(r.req) THEN "registration" ELSE "confirm")
          /\ q.op = r.op /\ q.fetched = r.fetched /\ q.did = r.did /\ q.key = r.key
          /\ q.answer = r.answer
      BY DEF CallHolds, Fields
    <2>3. Seen(r, s, world, Len(world))
      BY <1>2, <2>1 DEF Seen, Now
    <2> HIDE DEF q, s
    <2>4. StageHolds(q, world)
      BY <2>2, <2>3 DEF StageHolds, BoundFor, Seen
    <2>5. FetchedHolds(q, world)
      BY <2>2 DEF CallHolds, FetchedHolds, BoundFor, Seen
    <2>6. CallHolds(q, world)
      BY <2>1, <2>2, <2>4, <2>5 DEF CallHolds, InFlight, VerdictHolds, KeyHolds
    <2> QED BY <1>2, <2>6 DEF ResolvedBinding, q, s
  <1> QED BY <1>1, <1>2

LEMMA ConfirmHolds ==
  ASSUME CommInv, NEW r, CallHolds(r, world), r.at = "confirm"
  PROVE  CallHolds(ConfirmedSame(r), world)
  <1> DEFINE q == [r EXCEPT !.at = "registration"]
  <1>1. CASE Now.bound[r.req.user] # r.soul
    BY <1>1, RefusesHolds DEF ConfirmedSame, InFlight
  <1>2. CASE Now.bound[r.req.user] = r.soul
    <2>1. Len(world) \in r.since .. Len(world) /\ r.since \in 1 .. Len(world)
      BY DEF CommInv, CallHolds
    <2>2. /\ DOMAIN q = Fields /\ q.soul = r.soul /\ q.since = r.since /\ q.req = r.req
          /\ q.at = "registration" /\ q.op = r.op /\ q.fetched = r.fetched /\ q.did = r.did
          /\ q.key = r.key /\ q.answer = r.answer
      BY DEF CallHolds, Fields
    <2>3. BoundFor(r, r.soul, world, Len(world))
      BY <1>2, <2>1 DEF CallHolds, StageHolds, BoundFor, Now
    <2> HIDE DEF q
    <2>4. StageHolds(q, world) /\ FetchedHolds(q, world)
      BY <2>2, <2>3 DEF CallHolds, StageHolds, FetchedHolds, BoundFor, Seen
    <2>5. CallHolds(q, world)
      BY <2>1, <2>2, <2>4 DEF CallHolds, InFlight, VerdictHolds, KeyHolds
    <2> QED BY <1>2, <2>5 DEF ConfirmedSame, q
  <1> QED BY <1>1, <1>2

LEMMA RegistrationHolds ==
  ASSUME CommInv, NEW r, CallHolds(r, world), r.at = "registration"
  PROVE  CallHolds([r EXCEPT !.reg = Now.registration[r.soul], !.at = "contact"], world)
  <1> DEFINE q == [r EXCEPT !.reg = Now.registration[r.soul], !.at = "contact"]
  <1>1. Len(world) \in r.since .. Len(world) /\ r.since \in 1 .. Len(world)
    BY DEF CommInv, CallHolds
  <1>2. /\ DOMAIN q = Fields /\ q.soul = r.soul /\ q.since = r.since /\ q.req = r.req
        /\ q.at = "contact" /\ q.op = r.op /\ q.fetched = r.fetched /\ q.did = r.did
        /\ q.key = r.key /\ q.answer = r.answer
        /\ q.reg = world[Len(world)].registration[r.soul]
    BY DEF CallHolds, Fields, Now
  <1> HIDE DEF q
  <1>3. StageHolds(q, world) /\ FetchedHolds(q, world)
    BY <1>1, <1>2 DEF CallHolds, StageHolds, FetchedHolds, BoundFor, Seen
  <1>4. CallHolds(q, world)
    BY <1>1, <1>2, <1>3 DEF CallHolds, InFlight, VerdictHolds, KeyHolds
  <1> QED BY <1>4 DEF q

LEMMA DecisionHolds ==
  ASSUME CommInv, NEW r, CallHolds(r, world), r.at = "contact",
         NEW contact \in {NoContact, Now.contact[r.soul]}
  PROVE  CallHolds(Decided(r, contact), world)
  <1> DEFINE held == Allowed(WithContactability(r.reg, contact), r.op, Class(r.req))
             e == [op |-> r.op, soul |-> r.soul, when |-> Len(world)]
             shown == [Ends(r, "ok") EXCEPT !.did = {e}]
             q == [r EXCEPT !.at = "host"]
  <1>1. Len(world) \in r.since .. Len(world) /\ r.since \in 1 .. Len(world) /\ InFlight(r)
    BY DEF CommInv, CallHolds, InFlight
  <1>2. CASE ~held
    <2>1. Decided(r, contact) = Refuses(r)
      BY <1>2 DEF Decided
    <2> QED BY <1>1, <2>1, RefusesHolds
  <1>3. CASE held
    <2>1. Authority(r, r.op, r.soul, world, Len(world))
      BY <1>1, <1>3 DEF CallHolds, StageHolds, Authority, Now
    <2>2. BoundFor(r, r.soul, world, Len(world))
      BY DEF CallHolds, StageHolds
    <2>3. e.op = r.op /\ e.soul = r.soul /\ e.when = Len(world)
      OBVIOUS
    <2>4. /\ DOMAIN q = Fields /\ q.soul = r.soul /\ q.since = r.since /\ q.req = r.req
          /\ q.at = "host" /\ q.op = r.op /\ q.fetched = r.fetched /\ q.did = r.did
          /\ q.key = r.key /\ q.answer = r.answer
      BY DEF CallHolds, Fields
    <2>5. /\ DOMAIN shown = Fields /\ shown.at = "done" /\ shown.answer = "ok"
          /\ shown.did = {e} /\ shown.since = r.since /\ shown.req = r.req
          /\ shown.op = r.op /\ shown.fetched = r.fetched
      BY DEF CallHolds, Ends, Fields
    <2>6. Decided(r, contact) \in {shown, q}
      BY <1>3 DEF Decided
    <2> HIDE DEF held, e, shown, q
    <2>7. CallHolds(q, world)
      <3>1. StageHolds(q, world) /\ FetchedHolds(q, world)
        BY <2>1, <2>2, <2>4 DEF CallHolds, StageHolds, Cleared, FetchedHolds, BoundFor, Seen,
                                Authority
      <3> QED BY <1>1, <2>4, <3>1 DEF CallHolds, InFlight, VerdictHolds, KeyHolds
    <2>8. CallHolds(shown, world)
      <3>1. Backed(shown, world, e)
        BY <1>1, <2>1, <2>2, <2>3, <2>5 DEF Backed, BoundFor, Seen, Authority
      <3>2. FetchedHolds(shown, world)
        BY <2>5 DEF CallHolds, FetchedHolds, BoundFor, Seen
      <3> QED BY <1>1, <2>5, <3>1, <3>2 DEF CallHolds, InFlight, StageHolds, VerdictHolds,
                                            KeyHolds
    <2> QED BY <2>6, <2>7, <2>8
  <1> QED BY <1>2, <1>3

-----------------------------------------------------------------------------
(* identity_verify *)

LEMMA FetchHolds ==
  ASSUME NEW r, CallHolds(r, world), r.at = "host", r.req.tool = "identity_verify",
         r.req.ref.store = "mailbox"
  PROVE  CallHolds(FetchedFor(r), world)
  <1> DEFINE op == ReadOperation(r.req.ref.channel)
             here  == [r EXCEPT !.fetched = r.soul]
             anew  == [r EXCEPT !.fetched = r.soul, !.op = op, !.at = "binding"]
  <1>1. InFlight(r) /\ r.since \in 1 .. Len(world)
    BY DEF CallHolds, InFlight
  <1>2. BoundFor(r, r.soul, world, Len(world)) /\ Authority(r, r.op, r.soul, world, Len(world))
    BY DEF CallHolds, StageHolds, Cleared, FirstStage
  <1>3. CASE op = "none"
    <2>1. FetchedFor(r) = Refuses(r)
      BY <1>3 DEF FetchedFor
    <2> QED BY <1>1, <2>1, RefusesHolds
  <1>4. CASE op # "none" /\ op = r.op
    <2>1. FetchedFor(r) = here
      BY <1>4 DEF FetchedFor
    <2>2. /\ DOMAIN here = Fields /\ here.soul = r.soul /\ here.since = r.since
          /\ here.req = r.req /\ here.at = "host" /\ here.op = op /\ here.fetched = r.soul
          /\ here.did = r.did /\ here.key = r.key /\ here.answer = r.answer /\ here.op = r.op
      BY <1>4 DEF CallHolds, Fields
    <2> HIDE DEF here
    <2>3. StageHolds(here, world) /\ FetchedHolds(here, world)
      BY <1>2, <2>2 DEF StageHolds, Cleared, FetchedHolds, BoundFor, Seen, Authority
    <2>4. here.did = {}
      BY <1>1, <2>2 DEF CallHolds
    <2> QED BY <1>1, <2>1, <2>2, <2>3, <2>4 DEF CallHolds, InFlight, VerdictHolds, KeyHolds
  <1>5. CASE op # "none" /\ op # r.op
    <2>1. FetchedFor(r) = anew
      BY <1>5 DEF FetchedFor
    <2>2. /\ DOMAIN anew = Fields /\ anew.soul = r.soul /\ anew.since = r.since
          /\ anew.req = r.req /\ anew.at = "binding" /\ anew.op = op /\ anew.fetched = r.soul
          /\ anew.did = r.did /\ anew.key = r.key /\ anew.answer = r.answer
      BY DEF CallHolds, Fields
    <2> HIDE DEF anew
    <2>3. StageHolds(anew, world) /\ FetchedHolds(anew, world)
      BY <1>2, <2>2 DEF StageHolds, FetchedHolds, BoundFor, Seen
    <2>4. anew.did = {}
      BY <1>1, <2>2 DEF CallHolds
    <2> QED BY <1>1, <2>1, <2>2, <2>3, <2>4 DEF CallHolds, InFlight, VerdictHolds, KeyHolds
  <1> QED BY <1>3, <1>4, <1>5

\* What the verdict answers: a fetched message is disclosed with it.
Verified(r) ==
  Ends(IF r.fetched = NoSoul THEN r
       ELSE Did([r EXCEPT !.soul = r.fetched,
                          !.op = ReadOperation(r.req.ref.channel)]), Verdict(r))

LEMMA VerifyHolds ==
  ASSUME NEW r, CallHolds(r, world), r.at = "host"
  PROVE  CallHolds(Verified(r), world)
  <1>1. InFlight(r) /\ r.did = {} /\ r.since \in 1 .. Len(world)
    BY DEF CallHolds, InFlight
  <1>2. Verdict(r) = "verified" => Names[r.req.name] \in r.req.ref.from
    BY DEF Verdict, Senders
  <1>3. CASE r.fetched = NoSoul
    BY <1>1, <1>2, <1>3, EndsHolds DEF Verified
  <1>4. CASE r.fetched # NoSoul
    <2> DEFINE op == ReadOperation(r.req.ref.channel)
               e == [op |-> op, soul |-> r.fetched, when |-> Len(world)]
               p == [r EXCEPT !.soul = r.fetched, !.op = op]
               q == Verified(r)
    <2>1. /\ DOMAIN p = Fields /\ p.soul = r.fetched /\ p.op = op /\ p.did = {}
          /\ p.since = r.since /\ p.req = r.req /\ p.fetched = r.fetched
      BY <1>1 DEF CallHolds, Fields
    <2>2. q = Ends(Did(p), Verdict(r))
      BY <1>4 DEF Verified
    <2> HIDE DEF p
    <2>3. /\ DOMAIN q = Fields /\ q.at = "done" /\ q.answer = Verdict(r) /\ q.did = {e}
          /\ q.since = r.since /\ q.req = r.req /\ q.op = op /\ q.fetched = r.fetched
      BY <2>1, <2>2 DEF Ends, Did, Fields
    <2>4. e.op = op /\ e.soul = r.fetched /\ e.when = Len(world)
      OBVIOUS
    <2> HIDE DEF q, e
    <2>5. /\ BoundFor(r, r.fetched, world, Len(world)) /\ r.op = op
          /\ BoundFor(r, r.soul, world, Len(world))
          /\ Authority(r, r.op, r.soul, world, Len(world))
      BY <1>4 DEF CallHolds, StageHolds, Cleared, FetchedHolds
    <2> HIDE DEF op
    <2>6. PICK i \in r.since .. Len(world) : world[i].projected[Account(r.req)] = r.soul
      BY <2>5 DEF BoundFor, Seen
    <2>7. Backed(q, world, e)
      BY <1>1, <1>4, <2>3, <2>4, <2>5, <2>6 DEF Backed, BoundFor, Seen, Authority
    <2>8. FetchedHolds(q, world)
      BY <2>3, <2>5 DEF FetchedHolds, BoundFor, Seen, op
    <2>9. CallHolds(q, world)
      BY <1>1, <1>2, <2>3, <2>7, <2>8 DEF CallHolds, InFlight, StageHolds, VerdictHolds, KeyHolds
    <2> QED BY <2>9 DEF q
  <1> QED BY <1>3, <1>4

-----------------------------------------------------------------------------
(* The Host's outbox *)

LEMMA SentHolds ==
  ASSUME CommInv, NEW r, CallHolds(r, world), InFlight(r), NEW actedBy
  PROVE  OutboxHolds(Sent(r, actedBy))
  <1> DEFINE m == [soul |-> r.soul, key |-> r.key, req |-> r.req, actedBy |-> actedBy]
  <1>1. m.soul = r.soul /\ m.key = r.key /\ m.req = r.req
    OBVIOUS
  <1>2. m.req.key # NoKey => m.key = m.req.key
    BY <1>1 DEF CallHolds, KeyHolds
  <1> HIDE DEF m
  <1>3. CASE \E d \in outbox : d.soul = r.soul /\ d.key = r.key
    BY <1>3 DEF Sent, CommInv
  <1>4. CASE ~\E d \in outbox : d.soul = r.soul /\ d.key = r.key
    <2>1. Sent(r, actedBy) = outbox \cup {m}
      BY <1>4 DEF Sent, m
    <2> QED BY <1>1, <1>2, <1>4, <2>1 DEF CommInv, OutboxHolds
  <1> QED BY <1>3, <1>4

LEMMA DeliversKeepsInv ==
  ASSUME CommInv, NEW c \in Calls, NEW actedBy, call[c].at = "host",
         call[c].req.tool # "identity_verify", Delivers(c, actedBy)
  PROVE  CommInv'
  <1> DEFINE r == call[c]
  <1>1. CallHolds(r, world) /\ InFlight(r) /\ world' = world
    BY DEF CommInv, Delivers, InFlight
  <1>2. /\ CallHolds(Ends(Did(r), "ok"), world) /\ CallHolds(Ends(Did(r), "error"), world)
        /\ CallHolds(Ends(r, "error"), world)
    BY <1>1, DidHolds, EndsHolds
  <1>3. OutboxHolds(outbox) /\ OutboxHolds(Sent(r, actedBy))
    BY <1>1, SentHolds DEF CommInv
  <1>4. /\ outbox' \in {outbox, Sent(r, actedBy)}
        /\ \E q \in {Ends(Did(r), "ok"), Ends(Did(r), "error"), Ends(r, "error")} : Step(c, q)
    BY DEF Delivers
  <1> HIDE DEF r
  <1> QED BY <1>1, <1>2, <1>3, <1>4, StepKeepsInv

-----------------------------------------------------------------------------
(* Every step keeps the invariant *)

\* A step that changes one call and nothing that was sent.
LEMMA QuietKeepsInv ==
  ASSUME CommInv, NEW c \in Calls, NEW r, CallHolds(r, world), Step(c, r),
         UNCHANGED <<world, outbox>>
  PROVE  CommInv'
  BY StepKeepsInv DEF CommInv

LEMMA ArriveKeepsInv ==
  ASSUME CommInv, NEW c \in Calls, Arrive(c)
  PROVE  CommInv'
  <1> PICK req \in Requests :
        Step(c, [Vacant EXCEPT !.at = FirstStage(req), !.req = req, !.key = KeyOf(req),
                               !.op = Operation(req), !.since = Len(world)])
    BY DEF Arrive
  <1> DEFINE q == [Vacant EXCEPT !.at = FirstStage(req), !.req = req, !.key = KeyOf(req),
                                 !.op = Operation(req), !.since = Len(world)]
  <1>1. /\ DOMAIN q = Fields /\ q.at = FirstStage(req) /\ q.req = req /\ q.key = KeyOf(req)
        /\ q.since = Len(world) /\ q.fetched = NoSoul /\ q.did = {} /\ q.answer = "none"
    BY DEF Vacant, Fields
  <1>2. q.since \in 1 .. Len(world)
    BY <1>1 DEF CommInv
  <1>3. Step(c, q)
    OBVIOUS
  <1> HIDE DEF q
  <1>4. q.req.key # NoKey => q.key = q.req.key
    BY <1>1 DEF KeyOf
  <1>5. StageHolds(q, world)
    BY <1>1 DEF StageHolds, Cleared, FirstStage
  <1>6. CallHolds(q, world)
    BY <1>1, <1>2, <1>4, <1>5 DEF CallHolds, FetchedHolds, VerdictHolds, KeyHolds
  <1> QED BY <1>3, <1>6, QuietKeepsInv DEF Arrive

\* A read that answers or fails.
LEMMA ReadKeepsInv ==
  ASSUME CommInv, NEW c \in Calls, InFlight(call[c]), NEW r, CallHolds(r, world),
         Step(c, r) \/ Step(c, Refuses(call[c])), UNCHANGED <<world, outbox>>
  PROVE  CommInv'
  <1>1. CallHolds(Refuses(call[c]), world)
    BY RefusesHolds DEF CommInv
  <1> QED BY <1>1, QuietKeepsInv

LEMMA ReadsKeepInv ==
  ASSUME CommInv, NEW c \in Calls,
         ResolveBinding(c) \/ ConfirmBinding(c) \/ ReadRegistration(c) \/ Decide(c)
  PROVE  CommInv'
  <1> DEFINE r == call[c]
  <1>0. CallHolds(r, world)
    BY DEF CommInv
  <1>1. CASE ResolveBinding(c)
    <2>1. /\ r.at = "binding" /\ UNCHANGED <<world, outbox>>
          /\ Step(c, ResolvedBinding(r)) \/ Step(c, Refuses(r))
      BY <1>1 DEF ResolveBinding, Reads
    <2>2. CallHolds(ResolvedBinding(r), world)
      BY <1>0, <2>1, BindingHolds
    <2> QED BY <2>1, <2>2, ReadKeepsInv DEF InFlight
  <1>2. CASE ConfirmBinding(c)
    <2>1. /\ r.at = "confirm" /\ UNCHANGED <<world, outbox>>
          /\ Step(c, ConfirmedSame(r)) \/ Step(c, Refuses(r))
      BY <1>2 DEF ConfirmBinding, Reads
    <2>2. CallHolds(ConfirmedSame(r), world)
      BY <1>0, <2>1, ConfirmHolds
    <2> QED BY <2>1, <2>2, ReadKeepsInv DEF InFlight
  <1>3. CASE ReadRegistration(c)
    <2> DEFINE q == [r EXCEPT !.reg = Now.registration[r.soul], !.at = "contact"]
    <2>1. /\ r.at = "registration" /\ UNCHANGED <<world, outbox>>
          /\ Step(c, q) \/ Step(c, Refuses(r))
      BY <1>3 DEF ReadRegistration, Reads
    <2>2. CallHolds(q, world)
      BY <1>0, <2>1, RegistrationHolds
    <2> HIDE DEF q
    <2> QED BY <2>1, <2>2, ReadKeepsInv DEF InFlight
  <1>4. CASE Decide(c)
    <2>1. /\ r.at = "contact" /\ UNCHANGED <<world, outbox>>
          /\ \/ Step(c, Decided(r, Now.contact[r.soul]))
             \/ Step(c, Decided(r, NoContact))
      BY <1>4 DEF Decide
    <2>2. /\ CallHolds(Decided(r, Now.contact[r.soul]), world)
          /\ CallHolds(Decided(r, NoContact), world)
      BY <1>0, <2>1, DecisionHolds
    <2> QED BY <2>1, <2>2, QuietKeepsInv
  <1> QED BY <1>1, <1>2, <1>3, <1>4

LEMMA SendsKeepInv ==
  ASSUME CommInv, NEW c \in Calls, EmailSend(c) \/ SmsSend(c) \/ EmailReply(c)
  PROVE  CommInv'
  BY DeliversKeepsInv DEF EmailSend, SmsSend, EmailReply, AtHost

LEMMA MissingKeepsInv ==
  ASSUME CommInv, NEW c \in Calls, MissingMessage(c)
  PROVE  CommInv'
  <1>1. InFlight(call[c]) /\ CallHolds(call[c], world) /\ UNCHANGED <<world, outbox>>
    BY DEF MissingMessage, InFlight, CommInv
  <1>2. PICK answer \in {"unverified", "refused"} : Step(c, Ends(call[c], answer))
    BY DEF MissingMessage
  <1>3. CallHolds(Ends(call[c], answer), world)
    BY <1>1, EndsHolds
  <1> QED BY <1>1, <1>2, <1>3, QuietKeepsInv

LEMMA ShowsKeepInv ==
  ASSUME CommInv, NEW c \in Calls,
         EmailRead(c) \/ EmailSearch(c) \/ EmailGet(c) \/ SmsRead(c) \/ VoicemailRead(c)
  PROVE  CommInv'
  <1> DEFINE r == call[c]
  <1>1. r.at = "host" /\ r.req.tool # "identity_verify" /\ Shows(c)
    BY DEF EmailRead, EmailSearch, EmailGet, SmsRead, VoicemailRead, AtHost
  <1>2. /\ UNCHANGED <<world, outbox>>
        /\ Step(c, Ends(Did(r), "ok")) \/ Step(c, Refuses(r))
    BY <1>1 DEF Shows, Reads
  <1>3. CallHolds(Ends(Did(r), "ok"), world)
    BY <1>1, DidHolds DEF CommInv
  <1> QED BY <1>1, <1>2, <1>3, ReadKeepsInv DEF InFlight

LEMMA ManagesKeepInv ==
  ASSUME CommInv, NEW c \in Calls, EmailDelete(c) \/ EmailMark(c)
  PROVE  CommInv'
  <1> DEFINE r == call[c]
  <1>1. r.at = "host" /\ r.req.tool # "identity_verify" /\ Manages(c)
    BY DEF EmailDelete, EmailMark, AtHost
  <1>2. CallHolds(r, world) /\ InFlight(r)
    BY <1>1 DEF CommInv, InFlight
  <1>3. /\ CallHolds(Ends(Did(r), "ok"), world) /\ CallHolds(Ends(Did(r), "error"), world)
        /\ CallHolds(Ends(r, "error"), world)
    BY <1>1, <1>2, DidHolds, EndsHolds
  <1>4. UNCHANGED <<world, outbox>>
        /\ \E q \in {Ends(Did(r), "ok"), Ends(Did(r), "error"), Ends(r, "error")} : Step(c, q)
    BY <1>1 DEF Manages
  <1> HIDE DEF r
  <1> QED BY <1>3, <1>4, QuietKeepsInv

LEMMA VerifyKeepsInv ==
  ASSUME CommInv, NEW c \in Calls, Fetch(c) \/ Verify(c)
  PROVE  CommInv'
  <1> DEFINE r == call[c]
  <1>0. CallHolds(r, world)
    BY DEF CommInv
  <1>1. CASE Fetch(c)
    <2>1. /\ r.at = "host" /\ r.req.tool = "identity_verify" /\ r.req.ref.store = "mailbox"
          /\ UNCHANGED <<world, outbox>>
          /\ Step(c, FetchedFor(r)) \/ Step(c, Refuses(r))
      BY <1>1 DEF Fetch, AtHost, Reads
    <2>2. CallHolds(FetchedFor(r), world)
      BY <1>0, <2>1, FetchHolds
    <2> QED BY <2>1, <2>2, ReadKeepsInv DEF InFlight
  <1>2. CASE Verify(c)
    <2>1. /\ r.at = "host" /\ UNCHANGED <<world, outbox>>
          /\ Step(c, Verified(r)) \/ Step(c, Refuses(r))
      BY <1>2 DEF Verify, AtHost, Reads, Verified
    <2>2. CallHolds(Verified(r), world)
      BY <1>0, <2>1, VerifyHolds
    <2> QED BY <2>1, <2>2, ReadKeepsInv DEF InFlight
  <1> QED BY <1>1, <1>2

LEMMA MoveKeepsInv == CommInv /\ Move => CommInv'
  <1> SUFFICES ASSUME CommInv, Move PROVE CommInv'
    OBVIOUS
  <1>1. Now \in Worlds
    BY DEF CommInv, Now
  <1>2. PICK w : w \in Worlds /\ world' = Append(world, w)
    <2>1. PICK w \in Changes : world' = Append(world, w)
      BY DEF Move
    <2>2. w \in Worlds
      BY <1>1, <2>1 DEF Changes, Worlds
    <2> QED BY <2>1, <2>2
  <1>3. \A c \in Calls : CallHolds(call[c], world')
    BY <1>2, HistoryGrows DEF CommInv
  <1>4. world' \in Seq(Worlds) /\ Len(world') >= 1
    BY <1>2 DEF CommInv
  <1> QED BY <1>3, <1>4 DEF CommInv, Move

LEMMA NextInv == CommInv /\ [Next]_vars => CommInv'
  <1> SUFFICES ASSUME CommInv, [Next]_vars PROVE CommInv'
    OBVIOUS
  <1>1. CASE UNCHANGED vars
    BY <1>1 DEF CommInv, vars
  <1>2. CASE Move
    BY <1>2, MoveKeepsInv
  <1>3. ASSUME NEW c \in Calls, Arrive(c) PROVE CommInv'
    BY <1>3, ArriveKeepsInv
  <1>4. ASSUME NEW c \in Calls,
               ResolveBinding(c) \/ ConfirmBinding(c) \/ ReadRegistration(c) \/ Decide(c)
        PROVE  CommInv'
    BY <1>4, ReadsKeepInv
  <1>5. ASSUME NEW c \in Calls, EmailSend(c) \/ SmsSend(c) \/ EmailReply(c) PROVE CommInv'
    BY <1>5, SendsKeepInv
  <1>6. ASSUME NEW c \in Calls, MissingMessage(c) PROVE CommInv'
    BY <1>6, MissingKeepsInv
  <1>7. ASSUME NEW c \in Calls,
               EmailRead(c) \/ EmailSearch(c) \/ EmailGet(c) \/ SmsRead(c) \/ VoicemailRead(c)
        PROVE  CommInv'
    BY <1>7, ShowsKeepInv
  <1>8. ASSUME NEW c \in Calls, EmailDelete(c) \/ EmailMark(c) PROVE CommInv'
    BY <1>8, ManagesKeepInv
  <1>9. ASSUME NEW c \in Calls, Fetch(c) \/ Verify(c) PROVE CommInv'
    BY <1>9, VerifyKeepsInv
  <1> QED BY <1>1, <1>2, <1>3, <1>4, <1>5, <1>6, <1>7, <1>8, <1>9 DEF Next

\* What a call knows, did and sent, at every stage and for any bindings,
\* registrations and contactability records.
THEOREM CommSafe == Spec => []CommInv
  BY InitInv, NextInv, PTL DEF Spec

-----------------------------------------------------------------------------
(* What follows for a reader *)

LEMMA BackedWithinPolicy ==
  ASSUME NEW r, NEW e, Backed(r, world, e), r.since \in 1 .. Len(world),
         world \in Seq(Worlds)
  PROVE  \E p \in Policies(r, e) : Allowed(p, e.op, Class(r.req))
  <1>1. PICK i \in r.since .. e.when :
          \E s \in {e.soul, world[i].projected[Account(r.req)]} :
            /\ r.fetched = NoSoul => s = e.soul
            /\ Seen(r, s, world, e.when)
            /\ Authority(r, e.op, s, world, e.when)
    BY DEF Backed
  <1>2. PICK s : /\ r.fetched = NoSoul => s = e.soul
                 /\ Seen(r, s, world, e.when)
                 /\ Authority(r, e.op, s, world, e.when)
    BY <1>1
  <1>3. s \in Deciding(r, e)
    BY <1>2 DEF Deciding, Seen, Moments
  <1>4. PICK m, j \in r.since .. e.when :
          \E k \in {NoContact, world[j].contact[s]} :
            Allowed(WithContactability(world[m].registration[s], k), e.op, Class(r.req))
    BY <1>2 DEF Authority
  <1>5. PICK k \in {NoContact, world[j].contact[s]} :
          Allowed(WithContactability(world[m].registration[s], k), e.op, Class(r.req))
    BY <1>4
  <1> DEFINE p == WithContactability(world[m].registration[s], k)
  <1>6. p \in Policies(r, e)
    BY <1>3, <1>5 DEF Policies, Moments
  <1> QED BY <1>5, <1>6

\* Whatever a call does, policies of its time allowed to its caller, and no
\* phone is used that nobody has paid for (the bound operation policy is read
\* in three requests and applied before a fourth).
THEOREM CallsActAsAllowed == Spec => []ActsAsAllowed
  <1>1. CommInv => ActsWithinPolicy
    BY BackedWithinPolicy DEF CommInv, CallHolds, ActsWithinPolicy
  <1>2. ActsWithinPolicy => UnpaidPhonesStaySilent
    BY AllowedPhoneIsPaid DEF ActsWithinPolicy, UnpaidPhonesStaySilent
  <1>3. CommInv => ActsAsAllowed
    BY <1>1, <1>2 DEF ActsAsAllowed
  <1> QED BY <1>3, CommSafe, PTL

\* A call acts for a soul that was bound during it, for an owner by Lesser's
\* own answer too; and a sender is confirmed only when the Host names it.
THEOREM SendersAreAlwaysTrue == Spec => []SendersAreTrue
  <1>1. CommInv => SenderIsConfirmed
    BY DEF CommInv, CallHolds, Backed, BoundFor, Seen, SenderIsConfirmed, Moments
  <1>2. CommInv => SpoofsStayUnverified
    BY DEF CommInv, CallHolds, VerdictHolds, SpoofsStayUnverified
  <1>3. CommInv => SendersAreTrue
    BY <1>1, <1>2 DEF SendersAreTrue
  <1> QED BY <1>3, CommSafe, PTL

\* A tool call repeated under its caller's key sends one message per soul.
THEOREM KeysDeliverOnce == Spec => []KeyDeliversOnce
  <1>1. CommInv => KeyDeliversOnce
    BY DEF CommInv, OutboxHolds, KeyDeliversOnce
  <1> QED BY <1>1, CommSafe, PTL

-----------------------------------------------------------------------------
(***************************************************************************)
(* SoulRead: for every set of souls, enquiries and publications, any       *)
(* number of changes between the requests and any number of them that      *)
(* fail.  An enquiry keeps, per stage, what it has established so far and  *)
(* at which moments of the sources; what was so at a moment stays so, and  *)
(* publications are counted upwards.                                       *)
(***************************************************************************)
ReadFields == {"at", "of", "soul", "domain", "todo", "draft", "done", "answer", "since", "until"}

PartRecord == [part : Parts, source : {"ok", "unavailable"}, version : Nat, declares : SUBSET Blocks]
SoulRecord == [soul : Identities, parts : Seq(PartRecord), private : Identities \cup {Unbound}]

\* At the moments I of the history w, Body took s for the actor's soul;
ProjectedIn(s, w, I) == \E i \in I : w[i].projected = s

\* and Lesser confirmed it after that for an owner;
ConfirmedIn(q, s, w, I) ==
  \E i, j \in I :
    /\ i <= j
    /\ w[i].projected = s
    /\ q.caller = "owner" => w[j].bound = s

\* a domain was that of the actor's own soul;
DomainIn(domain, w, I) ==
  \E i, j \in I :
    /\ w[j].projected \in Identities /\ w[j].projected # Unbound
    /\ domain = w[i].host[w[j].projected].domain

\* the query q meant the souls all;
MeantIn(q, all, w, I) ==
  CASE q.query.kind = "agent" -> all = <<q.query.soul>>
    [] q.query.kind = "ens"   -> \E i \in I : all = <<w[i].names[q.query.name]>>
    [] q.query.kind = "local" ->
         \E domain \in Domains : DomainIn(domain, w, I) /\ \E i \in I : all = w[i].found[domain]
    [] OTHER -> \E i \in I : all = w[i].found[q.query.kind]

\* m are the souls to show to q, whose own is s;
Cut(q, all) == SubSeq(all, 1, Min({Len(all), LimitOf(q)}))

Wanted(q, s, m, w, I) ==
  IF q.self THEN m = <<s>> /\ ConfirmedIn(q, s, w, I)
  ELSE \E all \in Seq(Identities) : MeantIn(q, all, w, I) /\ m = Cut(q, all)

\* the part p was published of s, or declared with its registration;
PublishedIn(s, p, w, I) ==
  p.version # NoBlock =>
    \E i \in I :
      LET host == w[i].host[s]
      IN /\ host.version = p.version
         /\ p.part \in host.holds \cup (IF "registration" \in host.holds THEN host.declares ELSE {})

\* and p declares what the registration of s did.
DeclaredIn(s, p, w, I) ==
  p.declares # {} =>
    \E i \in I :
      LET host == w[i].host[s]
      IN /\ host.version = p.version /\ "registration" \in host.holds
         /\ p.declares = host.declares

\* The parts of s that were read, one after the other.
PartsInv(s, parts, w, I) ==
  /\ Len(parts) <= Len(PartOrder)
  /\ \A k \in 1 .. Len(parts) :
       /\ parts[k].part = PartOrder[k]
       /\ PublishedIn(s, parts[k], w, I)
       /\ DeclaredIn(s, parts[k], w, I)
       /\ parts[k].declares # {} => k = 2 /\ parts[k].version # NoBlock
  /\ \A k, l \in 1 .. Len(parts) :
       /\ k < l /\ k <= 2 /\ parts[l].version # NoBlock => parts[k].version <= parts[l].version
       /\ parts[l].part \in parts[k].declares => parts[l].version # NoBlock

\* None of them is newer than what is published by now.
NoneNewer(s, parts, w) ==
  \A k \in 1 .. Len(parts) : parts[k].version <= w[Len(w)].host[s].version

\* What is shown, and what is still to be read, are the souls of m.
Follows(done, todo, m) ==
  /\ Len(done) + Len(todo) = Len(m)
  /\ \A i \in 1 .. Len(done) : done[i].soul = m[i]
  /\ \A i \in 1 .. Len(todo) : todo[i] = m[Len(done) + i]

ItemInv(q, item, w, I) ==
  /\ PartsInv(item.soul, item.parts, w, I)
  /\ item.private # Unbound =>
       /\ q.self /\ q.private # "none" /\ q.view # "summary"
       /\ \E j \in I : w[j].bound = item.private

Shown(q, s, done, todo, w, I) ==
  /\ \E m \in Seq(Identities) : Wanted(q, s, m, w, I) /\ Follows(done, todo, m)
  /\ \A i \in 1 .. Len(done) : ItemInv(q, done[i], w, I)

Seeking == {"projection", "confirm", "domain", "ens", "search"}
Showing == {"part", "private", "answer"}

StageInv(e, w, I) ==
  /\ e.at \in Seeking =>
       /\ e.todo = <<>> /\ e.draft = <<>> /\ e.done = <<>>
       /\ e.of.query.kind # "agent"
  /\ e.at \in {"projection", "confirm"} => e.of.self \/ e.of.query.kind = "local"
  /\ e.at \in {"confirm", "domain"} => e.soul \in Identities /\ e.soul # Unbound
                                       /\ ProjectedIn(e.soul, w, I)
  /\ e.at = "domain" => ~e.of.self /\ e.of.query.kind = "local"
  /\ e.at = "ens"    => ~e.of.self /\ e.of.query.kind = "ens"
  /\ e.at = "search" =>
       /\ ~e.of.self /\ e.of.query.kind # "ens"
       /\ IF e.of.query.kind = "local" THEN DomainIn(e.domain, w, I) /\ e.domain \in Domains
          ELSE e.of.query.kind \notin Unmatched
  /\ e.at \in Showing => Shown(e.of, e.soul, e.done, e.todo, w, I)
  /\ e.at = "part" =>
       /\ Len(e.todo) > 0 /\ Len(e.draft) < LastPart(e.of)
       /\ PartsInv(e.todo[1], e.draft, w, I)
       /\ NoneNewer(e.todo[1], e.draft, w)
  /\ e.at \in {"private", "answer"} => e.draft = <<>> /\ e.todo = <<>>
  /\ e.at = "private" => e.of.private # "none" /\ Len(e.done) = 1

Asking(q) == q \in Enquiries /\ ~Malformed(q) /\ ~Unsupported(q)

EnquiryTypes(e) ==
  /\ DOMAIN e = ReadFields
  /\ e.at \in Seeking \cup Showing \cup {"idle", "done"}
  /\ e.todo \in Seq(Identities) /\ e.draft \in Seq(PartRecord) /\ e.done \in Seq(SoulRecord)

EnquiryInv(e, w) ==
  /\ EnquiryTypes(e)
  /\ e.since \in 1 .. Len(w)
  /\ e.at \in Seeking \cup Showing => /\ e.answer = "none" /\ Asking(e.of)
                                      /\ StageInv(e, w, e.since .. Len(w))
  /\ e.at = "idle" => e.answer = "none"
  /\ e.answer = "ok" =>
       /\ e.at = "done" /\ e.todo = <<>>
       /\ e.until \in e.since .. Len(w)
       /\ Shown(e.of, e.soul, e.done, e.todo, w, e.since .. e.until)

SourcesInv(w) ==
  /\ w \in Seq(Source) /\ Len(w) > 0
  /\ \A i, j \in 1 .. Len(w) :
       /\ i <= j => \A s \in Identities : w[i].host[s].version <= w[j].host[s].version
       /\ w[i].found = w[j].found

ReadInv == SourcesInv(sources) /\ EnquiryInv(enquiry, sources)

-----------------------------------------------------------------------------
(* What was so at a moment stays so *)

Grows(w, v) == Len(w) <= Len(v) /\ \A i \in 1 .. Len(w) : v[i] = w[i]

LEMMA MeaningStays ==
  ASSUME NEW w, NEW v, NEW I, NEW J, I \subseteq J, \A i \in I : v[i] = w[i],
         NEW q, NEW s, NEW m
  PROVE  /\ ProjectedIn(s, w, I) => ProjectedIn(s, v, J)
         /\ DomainIn(s, w, I) => DomainIn(s, v, J)
         /\ Wanted(q, s, m, w, I) => Wanted(q, s, m, v, J)
  <1>1. ASSUME NEW d, DomainIn(d, w, I) PROVE DomainIn(d, v, J)
    BY <1>1 DEF DomainIn
  <1>2. ASSUME NEW all, MeantIn(q, all, w, I) PROVE MeantIn(q, all, v, J)
    <2>1. CASE q.query.kind = "agent" BY <1>2, <2>1 DEF MeantIn
    <2>2. CASE q.query.kind = "ens" BY <1>2, <2>2 DEF MeantIn
    <2>3. CASE q.query.kind = "local"
      <3>1. PICK d \in Domains : DomainIn(d, w, I) /\ \E i \in I : all = w[i].found[d]
        BY <1>2, <2>3 DEF MeantIn
      <3>2. DomainIn(d, v, J) /\ \E i \in J : all = v[i].found[d] BY <1>1, <3>1
      <3> QED BY <2>3, <3>1, <3>2 DEF MeantIn
    <2>4. CASE q.query.kind \notin {"agent", "ens", "local"}
      BY <1>2, <2>4 DEF MeantIn
    <2> QED BY <2>1, <2>2, <2>3, <2>4
  <1>3. ConfirmedIn(q, s, w, I) => ConfirmedIn(q, s, v, J)
    BY DEF ConfirmedIn
  <1>4. Wanted(q, s, m, w, I) => Wanted(q, s, m, v, J)
    <2>1. CASE q.self BY <1>3, <2>1 DEF Wanted
    <2>2. CASE ~q.self
      <3> SUFFICES ASSUME Wanted(q, s, m, w, I) PROVE Wanted(q, s, m, v, J)
        OBVIOUS
      <3>1. PICK all \in Seq(Identities) : MeantIn(q, all, w, I) /\ m = Cut(q, all)
        BY <2>2 DEF Wanted
      <3> QED BY <1>2, <2>2, <3>1 DEF Wanted
    <2> QED BY <2>1, <2>2
  <1> QED BY <1>1, <1>4 DEF ProjectedIn

LEMMA PartsStay ==
  ASSUME NEW w, NEW v, NEW I, NEW J, I \subseteq J, \A i \in I : v[i] = w[i],
         NEW s, NEW parts, PartsInv(s, parts, w, I)
  PROVE  PartsInv(s, parts, v, J)
  <1>1. ASSUME NEW p, PublishedIn(s, p, w, I) PROVE PublishedIn(s, p, v, J)
    <2> SUFFICES ASSUME p.version # NoBlock PROVE PublishedIn(s, p, v, J)
      BY DEF PublishedIn
    <2>1. PICK i \in I : /\ w[i].host[s].version = p.version
                         /\ p.part \in w[i].host[s].holds \cup
                              (IF "registration" \in w[i].host[s].holds THEN w[i].host[s].declares ELSE {})
      BY <1>1 DEF PublishedIn
    <2>2. i \in J /\ v[i] = w[i] BY <2>1
    <2> QED BY <2>1, <2>2 DEF PublishedIn
  <1>2. ASSUME NEW p, DeclaredIn(s, p, w, I) PROVE DeclaredIn(s, p, v, J)
    <2> SUFFICES ASSUME p.declares # {} PROVE DeclaredIn(s, p, v, J)
      BY DEF DeclaredIn
    <2>1. PICK i \in I : /\ w[i].host[s].version = p.version /\ "registration" \in w[i].host[s].holds
                         /\ p.declares = w[i].host[s].declares
      BY <1>2 DEF DeclaredIn
    <2>2. i \in J /\ v[i] = w[i] BY <2>1
    <2> QED BY <2>1, <2>2 DEF DeclaredIn
  <1> QED BY <1>1, <1>2 DEF PartsInv

LEMMA ShownStays ==
  ASSUME NEW w, NEW v, NEW I, NEW J, I \subseteq J, \A i \in I : v[i] = w[i],
         NEW q, NEW s, NEW done, NEW todo, Shown(q, s, done, todo, w, I)
  PROVE  Shown(q, s, done, todo, v, J)
  <1>1. ASSUME NEW item, ItemInv(q, item, w, I) PROVE ItemInv(q, item, v, J)
    <2>1. PartsInv(item.soul, item.parts, v, J)
      BY <1>1, PartsStay DEF ItemInv
    <2> QED BY <1>1, <2>1 DEF ItemInv
  <1>2. PICK m \in Seq(Identities) : Wanted(q, s, m, w, I) /\ Follows(done, todo, m)
    BY DEF Shown
  <1>3. Wanted(q, s, m, v, J) BY <1>2, MeaningStays
  <1> QED BY <1>1, <1>2, <1>3 DEF Shown

LEMMA EnquiryStays ==
  ASSUME NEW w, NEW v, SourcesInv(w), SourcesInv(v), Grows(w, v), NEW e, EnquiryInv(e, w)
  PROVE  EnquiryInv(e, v)
  <1>1. Len(w) \in Nat /\ Len(v) \in Nat /\ Len(w) <= Len(v) /\ Len(w) > 0 /\ e.since \in 1 .. Len(w)
    BY DEF SourcesInv, Grows, EnquiryInv
  <1> DEFINE I == e.since .. Len(w)
             J == e.since .. Len(v)
             K == e.since .. e.until
  <1>2. I \subseteq J /\ \A i \in I : v[i] = w[i]
    BY <1>1 DEF Grows
  <1> HIDE DEF I, J
  <1>3. Shown(e.of, e.soul, e.done, e.todo, w, I) => Shown(e.of, e.soul, e.done, e.todo, v, J)
    BY <1>2, ShownStays
  <1>4. ASSUME e.at \in Seeking \cup Showing PROVE StageInv(e, v, J)
    <2>1. StageInv(e, w, I) BY <1>4 DEF EnquiryInv, I
    <2>2. e.at = "part" => PartsInv(e.todo[1], e.draft, v, J)
      <3>1. e.at = "part" => PartsInv(e.todo[1], e.draft, w, I) BY <2>1 DEF StageInv
      <3> QED BY <1>2, <3>1, PartsStay
    <2>3. e.at = "part" => NoneNewer(e.todo[1], e.draft, v)
      <3> SUFFICES ASSUME e.at = "part" PROVE NoneNewer(e.todo[1], e.draft, v)
        OBVIOUS
      <3>1. NoneNewer(e.todo[1], e.draft, w) /\ Len(e.todo) > 0 BY <2>1 DEF StageInv
      <3>2. e.todo[1] \in Identities
        <4>1. e.todo \in Seq(Identities) /\ Len(e.todo) > 0
          BY <3>1 DEF EnquiryInv, EnquiryTypes
        <4> QED BY <4>1
      <3>3. w[Len(w)].host[e.todo[1]].version <= v[Len(v)].host[e.todo[1]].version
        <4>1. v[Len(w)] = w[Len(w)] BY <1>1 DEF Grows
        <4> QED BY <1>1, <3>2, <4>1 DEF SourcesInv
      <3>4. /\ w[Len(w)].host[e.todo[1]].version \in Nat
            /\ v[Len(v)].host[e.todo[1]].version \in Nat
        <4>1. w[Len(w)] \in Source /\ v[Len(v)] \in Source
          BY <1>1 DEF SourcesInv
        <4> QED BY <3>2, <4>1 DEF Source, Publication
      <3>5. \A k \in 1 .. Len(e.draft) : e.draft[k].version \in Nat
        <4>1. e.draft \in Seq(PartRecord) BY DEF EnquiryInv, EnquiryTypes
        <4>2. \A k \in 1 .. Len(e.draft) : e.draft[k] \in PartRecord BY <4>1
        <4> QED BY <4>2 DEF PartRecord
      <3> QED BY <3>1, <3>3, <3>4, <3>5 DEF NoneNewer
    <2>4. /\ ProjectedIn(e.soul, w, I) => ProjectedIn(e.soul, v, J)
          /\ DomainIn(e.domain, w, I) => DomainIn(e.domain, v, J)
      BY <1>2, MeaningStays
    <2> QED BY <2>1, <2>2, <2>3, <2>4, <1>3 DEF StageInv
  <1>5. ASSUME e.answer = "ok"
        PROVE  e.until \in e.since .. Len(v) /\ Shown(e.of, e.soul, e.done, e.todo, v, K)
    <2>1. e.until \in e.since .. Len(w) /\ Shown(e.of, e.soul, e.done, e.todo, w, K)
      BY <1>5 DEF EnquiryInv
    <2>2. K \subseteq K /\ \A i \in K : v[i] = w[i]
      BY <1>1, <2>1 DEF Grows
    <2> QED BY <1>1, <2>1, <2>2, ShownStays
  <1> QED BY <1>1, <1>4, <1>5 DEF EnquiryInv, J

LEMMA TodayIsSource ==
  ASSUME NEW w, SourcesInv(w), NEW i \in 1 .. Len(w)
  PROVE  /\ w[i] \in Source
         /\ {w[i].projected, w[i].bound} \subseteq Identities \cup {Unbound}
         /\ w[i].host \in [Identities -> Publication]
         /\ w[i].found \in [DOMAIN w[i].found -> Seq(Identities)]
         /\ Domains \subseteq DOMAIN w[i].found
         /\ \A q \in Enquiries : q.query.kind \notin Unmatched => q.query.kind \in DOMAIN w[i].found
         /\ \A q \in Enquiries : q.query.kind = "ens"
              => w[i].names[q.query.name] \in Identities \cup {Unbound}
  <1>1. w[i] \in Source BY DEF SourcesInv
  <1> QED BY <1>1 DEF Source

LEMMA EditedPublishes ==
  ASSUME NEW host \in Publication, NEW p \in Publications
  PROVE  [p EXCEPT !.version = host.version + 1] \in Publication
  <1>1. p \in Publication /\ host.version \in Nat
    BY ReadAssumption DEF Publication
  <1>2. host.version + 1 \in Nat /\ host.version + 1 # 0
    BY <1>1
  <1> QED BY <1>1, <1>2 DEF Publication, NoBlock

LEMMA EditGrows ==
  ASSUME SourcesInv(sources), Edit
  PROVE  /\ SourcesInv(sources') /\ Grows(sources, sources')
         /\ enquiry' = enquiry
  <1> DEFINE n == Len(sources)
  <1>1. /\ sources \in Seq(Source) /\ n \in Nat /\ n > 0 /\ Today = sources[n] /\ n \in 1 .. n
        /\ Today \in Source
    <2>1. sources \in Seq(Source) /\ n \in Nat /\ n > 0 BY DEF SourcesInv
    <2> QED BY <2>1 DEF Today
  <1>2. PICK w \in NextSources : sources' = Append(sources, w)
    BY DEF Edit
  <1>3. /\ w \in Source /\ w.found = Today.found
        /\ \A x \in Identities : w.host[x].version \in Nat /\ Today.host[x].version \in Nat
                                 /\ Today.host[x].version <= w.host[x].version
    <2>1. \A x \in Identities : Today.host[x].version \in Nat
      BY <1>1 DEF Source, Publication
    <2>2. CASE \E s \in Identities \cup {Unbound} : w = [Today EXCEPT !.bound = s]
      <3>1. w \in Source /\ w.host = Today.host /\ w.found = Today.found BY <1>1, <2>2 DEF Source
      <3> QED BY <2>1, <3>1
    <2>3. CASE \E s \in Identities \cup {Unbound} : w = [Today EXCEPT !.projected = s]
      <3>1. w \in Source /\ w.host = Today.host /\ w.found = Today.found BY <1>1, <2>3 DEF Source
      <3> QED BY <2>1, <3>1
    <2>4. CASE \E s \in Identities, p \in Publications : w = [Today EXCEPT !.host[s] = Edited(s, p)]
      <3>1. PICK s \in Identities, p \in Publications : w = [Today EXCEPT !.host[s] = Edited(s, p)]
        BY <2>4
      <3> DEFINE new == Edited(s, p)
      <3>2. Today.host[s] \in Publication /\ Today.host \in [Identities -> Publication]
        BY <1>1 DEF Source
      <3>3. new \in Publication BY <3>2, EditedPublishes DEF Edited
      <3>4. new.version = Today.host[s].version + 1
        <4>1. p \in Publication BY ReadAssumption
        <4> QED BY <4>1 DEF Edited, Publication
      <3> HIDE DEF new
      <3>5. w = [Today EXCEPT !.host = [Today.host EXCEPT ![s] = new]] BY <3>1 DEF new
      <3>6. [Today.host EXCEPT ![s] = new] \in [Identities -> Publication]
        BY <3>2, <3>3
      <3> DEFINE host == [Today.host EXCEPT ![s] = new]
      <3> HIDE DEF host
      <3>7. w \in Source /\ w.host = host /\ w.found = Today.found
        <4>1. w = [Today EXCEPT !.host = host] /\ host \in [Identities -> Publication]
          BY <3>5, <3>6 DEF host
        <4> QED BY <1>1, <4>1 DEF Source
      <3>8. \A x \in Identities : w.host[x] = IF x = s THEN new ELSE Today.host[x]
        BY <3>2, <3>7 DEF host
      <3> QED BY <2>1, <3>4, <3>7, <3>8
    <2>5. CASE \E k \in DOMAIN Today.names, s \in Identities \cup {Unbound} : w = [Today EXCEPT !.names[k] = s]
      <3>1. PICK k \in DOMAIN Today.names, s \in Identities \cup {Unbound} :
              w = [Today EXCEPT !.names[k] = s]
        BY <2>5
      <3>2. w = [Today EXCEPT !.names = [Today.names EXCEPT ![k] = s]] BY <3>1
      <3>3. w \in Source /\ w.host = Today.host /\ w.found = Today.found
        <4> DEFINE names == [Today.names EXCEPT ![k] = s]
                   Known == {q.query.name : q \in {q \in Enquiries : q.query.kind = "ens"}}
        <4>1. Today.names \in [Known -> Identities \cup {Unbound}]
          BY <1>1 DEF Source
        <4>2. names \in [Known -> Identities \cup {Unbound}]
          BY <4>1
        <4>3. w = [Today EXCEPT !.names = names] BY <3>2
        <4> HIDE DEF names
        <4> QED BY <1>1, <4>2, <4>3 DEF Source
      <3> QED BY <2>1, <3>3
    <2>6. CASE w \in Projections BY <2>3, <2>6 DEF Projections
    <2>7. CASE w \in Bindings BY <2>2, <2>7 DEF Bindings
    <2>8. CASE w \in Republished BY <2>4, <2>8 DEF Republished
    <2>9. CASE w \in Renamed BY <2>5, <2>9 DEF Renamed
    <2> QED BY <1>2, <2>6, <2>7, <2>8, <2>9 DEF NextSources
  <1>4. /\ sources' \in Seq(Source) /\ Len(sources') = n + 1
        /\ \A i \in 1 .. n : sources'[i] = sources[i]
        /\ sources'[n + 1] = w
    BY <1>1, <1>2, <1>3
  <1>5. Grows(sources, sources') BY <1>1, <1>4 DEF Grows
  <1>6. ASSUME NEW i \in 1 .. n + 1, NEW j \in 1 .. n + 1, i <= j, NEW x \in Identities
        PROVE  sources'[i].host[x].version <= sources'[j].host[x].version
    <2>1. CASE j <= n
      <3>1. i \in 1 .. n /\ j \in 1 .. n BY <1>1, <1>6, <2>1
      <3> QED BY <1>4, <1>6, <3>1 DEF SourcesInv
    <2>2. CASE j = n + 1 /\ i = n + 1 BY <1>3, <1>4, <2>2
    <2>3. CASE j = n + 1 /\ i \in 1 .. n
      <3>1. sources[i].host[x].version <= sources[n].host[x].version /\ sources[i] \in Source
        BY <1>1, <2>3 DEF SourcesInv
      <3>2. sources[i].host[x].version \in Nat BY <3>1 DEF Source, Publication
      <3> QED BY <1>1, <1>3, <1>4, <2>3, <3>1, <3>2
    <2> QED BY <1>1, <1>6, <2>1, <2>2, <2>3
  <1>7. \A i, j \in 1 .. n + 1 : sources'[i].found = sources'[j].found
    <2>1. \A i \in 1 .. n + 1 : i \in 1 .. n \/ i = n + 1 BY <1>1
    <2>2. \A i \in 1 .. n : sources[i].found = Today.found BY <1>1 DEF SourcesInv
    <2>3. \A i \in 1 .. n + 1 : sources'[i].found = Today.found BY <1>3, <1>4, <2>1, <2>2
    <2> QED BY <2>3
  <1>8. SourcesInv(sources')
    BY <1>1, <1>4, <1>6, <1>7 DEF SourcesInv
  <1> QED BY <1>5, <1>8 DEF Edit

LEMMA ReadStarts == ReadInit => ReadInv
  <1> SUFFICES ASSUME ReadInit PROVE ReadInv
    OBVIOUS
  <1>1. PICK w \in FirstSources : sources = <<w>> BY DEF ReadInit
  <1>2. SourcesInv(sources)
    <2>1. w \in Source BY ReadAssumption
    <2>2. sources \in Seq(Source) /\ Len(sources) = 1 /\ sources[1] = w BY <1>1, <2>1
    <2>3. \A s \in Identities : w.host[s].version \in Nat BY <2>1 DEF Source, Publication
    <2> QED BY <2>2, <2>3 DEF SourcesInv
  <1>3. EnquiryInv(enquiry, sources)
    <2>1. enquiry = Idle /\ enquiry.at = "idle" /\ enquiry.answer = "none" /\ enquiry.since = 1
          /\ enquiry.todo = <<>> /\ enquiry.draft = <<>> /\ enquiry.done = <<>>
          /\ DOMAIN enquiry = ReadFields
      BY DEF ReadInit, Idle, ReadFields
    <2>2. Len(sources) = 1 BY <1>1
    <2> QED BY <2>1, <2>2 DEF EnquiryInv, EnquiryTypes, Seeking, Showing
  <1> QED BY <1>2, <1>3 DEF ReadInv

-----------------------------------------------------------------------------
(* Who is meant *)

LEMMA MinIs == \A a, b \in Nat : Min({a, b}) = IF a <= b THEN a ELSE b
  <1> SUFFICES ASSUME NEW a \in Nat, NEW b \in Nat
               PROVE  Min({a, b}) = IF a <= b THEN a ELSE b
    OBVIOUS
  <1> DEFINE c == IF a <= b THEN a ELSE b
             L(x) == x \in {a, b} /\ \A y \in {a, b} : x <= y
  <1>1. L(c) /\ \A x : L(x) => x = c OBVIOUS
  <1>2. Min({a, b}) = CHOOSE x : L(x) BY DEF Min
  <1> HIDE DEF L
  <1> QED BY <1>1, <1>2

LEMMA CutIs ==
  ASSUME NEW q \in Enquiries, NEW all \in Seq(Identities), Len(all) > 0
  PROVE  /\ Cut(q, all) \in Seq(Identities)
         /\ Len(Cut(q, all)) > 0
         /\ Len(all) = 1 => Cut(q, all) = all
  <1> DEFINE n == Min({Len(all), LimitOf(q)})
  <1>1. Len(all) \in Nat OBVIOUS
  <1>2. LimitOf(q) \in Nat /\ LimitOf(q) > 0
    <2>1. q.limit \in Nat /\ MaxFound \in Nat /\ MaxFound = 3 BY ReadAssumption DEF MaxFound
    <2>2. q.limit # 0 => Min({q.limit, MaxFound}) \in Nat /\ Min({q.limit, MaxFound}) > 0
      BY <2>1, MinIs
    <2> QED BY <2>1, <2>2 DEF LimitOf
  <1>3. n \in 1 .. Len(all) /\ n \in Nat
    BY <1>1, <1>2, MinIs
  <1> HIDE DEF n
  <1>4. Cut(q, all) = SubSeq(all, 1, n) BY DEF Cut, n
  <1>5. /\ SubSeq(all, 1, n) \in Seq(Identities) /\ Len(SubSeq(all, 1, n)) = n
        /\ \A i \in 1 .. n : SubSeq(all, 1, n)[i] = all[i]
    BY <1>3
  <1>6. ASSUME Len(all) = 1 PROVE SubSeq(all, 1, n) = all
    <2>1. n = 1 BY <1>3, <1>6
    <2> QED BY <1>5, <1>6, <2>1
  <1> QED BY <1>3, <1>4, <1>5, <1>6

LEMMA FailingKeeps ==
  ASSUME NEW e, EnquiryTypes(e), e.since \in 1 .. Len(sources), NEW text, text # "ok"
  PROVE  EnquiryInv(Fails(e, text), sources)
  <1> DEFINE f == Fails(e, text)
  <1>1. /\ f = [[e EXCEPT !.todo = <<>>, !.draft = <<>>, !.done = <<>>]
                  EXCEPT !.at = "done", !.answer = text, !.until = Len(sources)]
    BY DEF Fails, Closes
  <1>2. DOMAIN e = ReadFields BY DEF EnquiryTypes
  <1>3. /\ DOMAIN f = ReadFields /\ f.at = "done" /\ f.answer = text
        /\ f.todo = <<>> /\ f.draft = <<>> /\ f.done = <<>> /\ f.since = e.since
    BY <1>1, <1>2 DEF ReadFields
  <1> HIDE DEF f
  <1> QED BY <1>3 DEF EnquiryInv, EnquiryTypes, Seeking, Showing, f

\* An enquiry that knows which souls it shows.
LEMMA ReadingKeeps ==
  ASSUME SourcesInv(sources), NEW e, EnquiryTypes(e), e.since \in 1 .. Len(sources),
         e.answer = "none", Asking(e.of), e.draft = <<>>, e.done = <<>>,
         NEW souls \in Seq(Identities), Len(souls) > 0,
         IF e.of.self THEN souls = <<e.soul>> /\ ConfirmedIn(e.of, e.soul, sources, e.since .. Len(sources))
         ELSE MeantIn(e.of, souls, sources, e.since .. Len(sources))
  PROVE  EnquiryInv(Reading(e, souls), sources)
  <1> DEFINE f == Reading(e, souls)
             m == Cut(e.of, souls)
             I == e.since .. Len(sources)
  <1>1. e.of \in Enquiries BY DEF Asking
  <1>2. m \in Seq(Identities) /\ Len(m) > 0 /\ (Len(souls) = 1 => m = souls)
    BY <1>1, CutIs
  <1>3. Wanted(e.of, e.soul, m, sources, I)
    <2>1. CASE e.of.self
      <3>1. Len(souls) = 1 BY <2>1
      <3> QED BY <1>2, <2>1, <3>1 DEF Wanted
    <2>2. CASE ~e.of.self BY <2>2 DEF Wanted
    <2> QED BY <2>1, <2>2
  <1>4. f = [e EXCEPT !.at = "part", !.todo = m] BY DEF Reading, Cut
  <1> HIDE DEF m
  <1>5. DOMAIN e = ReadFields BY DEF EnquiryTypes
  <1>6. /\ DOMAIN f = ReadFields /\ f.at = "part" /\ f.answer = "none" /\ f.of = e.of
        /\ f.todo = m /\ f.draft = <<>> /\ f.done = <<>> /\ f.since = e.since /\ f.soul = e.soul
    BY <1>4, <1>5 DEF ReadFields
  <1> HIDE DEF f
  <1>7. Shown(f.of, f.soul, f.done, f.todo, sources, I)
    <2>1. Follows(<<>>, m, m)
      <3>1. Len(m) \in Nat BY <1>2
      <3>2. Len(<<>>) = 0 OBVIOUS
      <3> QED BY <3>1, <3>2 DEF Follows
    <2>2. Len(<<>>) = 0 OBVIOUS
    <2> QED BY <1>2, <1>3, <1>6, <2>1, <2>2 DEF Shown
  <1>8. PartsInv(m[1], <<>>, sources, I) /\ NoneNewer(m[1], <<>>, sources)
    <2>1. Len(<<>>) = 0 /\ Len(PartOrder) = 5 BY DEF PartOrder
    <2> QED BY <2>1 DEF PartsInv, NoneNewer
  <1>9. Len(<<>>) < LastPart(f.of)
    <2>1. Len(<<>>) = 0 /\ Len(PartOrder) = 5 BY DEF PartOrder
    <2> QED BY <2>1 DEF LastPart
  <1>10. StageInv(f, sources, I)
    BY <1>2, <1>6, <1>7, <1>8, <1>9 DEF StageInv, Seeking, Showing
  <1>11. EnquiryTypes(f)
    BY <1>2, <1>6 DEF EnquiryTypes, Seeking, Showing
  <1>12. f.since = e.since /\ I = f.since .. Len(sources) BY <1>6
  <1> HIDE DEF I
  <1> QED BY <1>6, <1>10, <1>11, <1>12 DEF EnquiryInv, f

\* An enquiry that goes on seeking, after one more answer.
LEMMA SeekingKeeps ==
  ASSUME NEW e, EnquiryTypes(e), e.since \in 1 .. Len(sources), e.at \in Seeking,
         e.answer = "none", Asking(e.of), e.todo = <<>>, e.draft = <<>>, e.done = <<>>,
         StageInv(e, sources, e.since .. Len(sources))
  PROVE  EnquiryInv(e, sources)
  BY DEF EnquiryInv, Seeking

LEMMA BeginningKeeps ==
  ASSUME ReadInv, NEW q \in Enquiries, Begin(q) PROVE EnquiryInv(enquiry', sources)
  <1> DEFINE e == [Idle EXCEPT !.of = q, !.since = Len(sources)]
             I == e.since .. Len(sources)
  <1>1. Len(sources) \in Nat /\ Len(sources) > 0 BY DEF ReadInv, SourcesInv
  <1>2. /\ DOMAIN e = ReadFields /\ e.at = "idle" /\ e.answer = "none" /\ e.of = q
        /\ e.since = Len(sources) /\ e.todo = <<>> /\ e.draft = <<>> /\ e.done = <<>>
    BY DEF Idle, ReadFields
  <1>3. enquiry' =
          IF Malformed(q) THEN Fails(e, "invalid_request")
          ELSE IF Unsupported(q) THEN Fails(e, "private_or_unsupported")
          ELSE IF q.self THEN [e EXCEPT !.at = "projection"]
          ELSE CASE q.query.kind = "local" -> [e EXCEPT !.at = "projection"]
                 [] q.query.kind = "agent" -> Reading(e, <<q.query.soul>>)
                 [] q.query.kind = "ens"   -> [e EXCEPT !.at = "ens"]
                 [] OTHER                  -> [e EXCEPT !.at = "search"]
    BY DEF Begin, Goes
  <1> HIDE DEF e
  <1>4. EnquiryTypes(e) /\ e.since \in 1 .. Len(sources)
    BY <1>1, <1>2 DEF EnquiryTypes
  <1>5. CASE Malformed(q) BY <1>3, <1>4, <1>5, FailingKeeps
  <1>6. CASE ~Malformed(q) /\ Unsupported(q) BY <1>3, <1>4, <1>6, FailingKeeps
  <1>7. CASE ~Malformed(q) /\ ~Unsupported(q)
    <2>1. Asking(q) BY <1>7 DEF Asking
    <2>2. (q.self <=> q.query.kind = "none") /\ q.query.kind \notin {"address", "number", "malformed"}
      BY <1>7 DEF Malformed, Unsupported
    <2>3. ASSUME NEW at \in Seeking, enquiry' = [e EXCEPT !.at = at],
                 at = "projection" => q.self \/ q.query.kind = "local",
                 at \in {"projection", "ens", "search"},
                 q.query.kind # "agent",
                 at = "ens" => ~q.self /\ q.query.kind = "ens",
                 at = "search" => ~q.self /\ q.query.kind \notin {"ens", "local"}
          PROVE  EnquiryInv(enquiry', sources)
      <3> DEFINE f == [e EXCEPT !.at = at]
      <3>1. /\ DOMAIN f = ReadFields /\ f.at = at /\ f.answer = "none" /\ f.of = q
            /\ f.since = Len(sources) /\ f.todo = <<>> /\ f.draft = <<>> /\ f.done = <<>>
        BY <1>2 DEF ReadFields
      <3> HIDE DEF f
      <3>2. EnquiryTypes(f) BY <3>1 DEF EnquiryTypes
      <3>3. StageInv(f, sources, f.since .. Len(sources))
        BY <2>2, <2>3, <3>1 DEF StageInv, Seeking, Showing, Unmatched
      <3>4. f.at \in Seeking /\ Asking(f.of) /\ f.since \in 1 .. Len(sources)
        BY <1>1, <2>1, <2>3, <3>1
      <3>5. EnquiryInv(f, sources) BY <3>1, <3>2, <3>3, <3>4, SeekingKeeps
      <3> QED BY <2>3, <3>5 DEF f
    <2>4. CASE q.self \/ q.query.kind = "local"
      BY <1>3, <1>7, <2>2, <2>3, <2>4 DEF Seeking
    <2>5. CASE ~q.self /\ q.query.kind = "agent"
      <3>1. enquiry' = Reading(e, <<q.query.soul>>) BY <1>3, <1>7, <2>5
      <3>2. q.query.soul \in Identities BY <2>5, ReadAssumption
      <3>3. <<q.query.soul>> \in Seq(Identities) /\ Len(<<q.query.soul>>) > 0 BY <3>2
      <3>4. MeantIn(q, <<q.query.soul>>, sources, I) BY <2>5 DEF MeantIn
      <3> QED BY <1>2, <1>4, <2>1, <2>5, <3>1, <3>3, <3>4, ReadingKeeps DEF ReadInv
    <2>6. CASE ~q.self /\ q.query.kind \notin {"local", "agent"}
      <3>1. enquiry' = IF q.query.kind = "ens" THEN [e EXCEPT !.at = "ens"] ELSE [e EXCEPT !.at = "search"]
        BY <1>3, <1>7, <2>6
      <3>2. CASE q.query.kind = "ens" BY <2>3, <2>6, <3>1, <3>2 DEF Seeking
      <3>3. CASE q.query.kind # "ens" BY <2>3, <2>6, <3>1, <3>3 DEF Seeking
      <3> QED BY <3>2, <3>3
    <2> QED BY <2>4, <2>5, <2>6
  <1> QED BY <1>5, <1>6, <1>7

\* What every answer finds.
LEMMA AskedFinds ==
  ASSUME ReadInv, NEW stage \in Seeking \cup Showing, NEW answered, Asks(stage, answered)
  PROVE  /\ enquiry.at = stage /\ sources' = sources
         /\ Len(sources) \in Nat /\ Len(sources) \in enquiry.since .. Len(sources)
         /\ enquiry.since \in 1 .. Len(sources) /\ Today = sources[Len(sources)]
         /\ EnquiryTypes(enquiry) /\ enquiry.answer = "none" /\ Asking(enquiry.of)
         /\ StageInv(enquiry, sources, enquiry.since .. Len(sources))
         /\ \/ enquiry' = answered
            \/ EnquiryInv(enquiry', sources)
  <1>1. Len(sources) \in Nat /\ Len(sources) > 0 BY DEF ReadInv, SourcesInv
  <1>2. /\ enquiry.at = stage /\ sources' = sources
        /\ enquiry' = answered \/ enquiry' = Fails(enquiry, "upstream_error")
    BY DEF Asks, Goes
  <1>3. /\ EnquiryTypes(enquiry) /\ enquiry.since \in 1 .. Len(sources)
        /\ enquiry.answer = "none" /\ Asking(enquiry.of)
        /\ StageInv(enquiry, sources, enquiry.since .. Len(sources))
    BY <1>2 DEF ReadInv, EnquiryInv
  <1> QED BY <1>1, <1>2, <1>3, FailingKeeps DEF Today

\* The soul of the caller is known and, if it must be, confirmed.
LEMMA RecognizedKeeps ==
  ASSUME SourcesInv(sources), NEW e, EnquiryTypes(e), e.since \in 1 .. Len(sources),
         e.at \in Seeking, e.answer = "none", Asking(e.of),
         e.todo = <<>>, e.draft = <<>>, e.done = <<>>,
         e.soul \in Identities, e.soul # Unbound,
         e.of.self \/ e.of.query.kind = "local",
         ProjectedIn(e.soul, sources, e.since .. Len(sources)),
         e.of.self => ConfirmedIn(e.of, e.soul, sources, e.since .. Len(sources))
  PROVE  EnquiryInv(Recognized(e), sources)
  <1>1. CASE e.of.self
    <2>1. <<e.soul>> \in Seq(Identities) /\ Len(<<e.soul>>) > 0 OBVIOUS
    <2>2. Recognized(e) = Reading(e, <<e.soul>>) BY <1>1 DEF Recognized
    <2> QED BY <1>1, <2>1, <2>2, ReadingKeeps
  <1>2. CASE ~e.of.self
    <2> DEFINE f == [e EXCEPT !.at = "domain"]
    <2>1. Recognized(e) = f BY <1>2 DEF Recognized
    <2>2. DOMAIN e = ReadFields BY DEF EnquiryTypes
    <2>3. /\ DOMAIN f = ReadFields /\ f.at = "domain" /\ f.answer = "none" /\ f.of = e.of
          /\ f.since = e.since /\ f.todo = <<>> /\ f.draft = <<>> /\ f.done = <<>>
          /\ f.soul = e.soul
      BY <2>2 DEF ReadFields
    <2> HIDE DEF f
    <2>4. EnquiryTypes(f) /\ f.at \in Seeking BY <2>3 DEF EnquiryTypes, Seeking
    <2>5. StageInv(f, sources, f.since .. Len(sources))
      BY <1>2, <2>3 DEF StageInv, Seeking, Showing
    <2> QED BY <2>1, <2>3, <2>4, <2>5, SeekingKeeps
  <1> QED BY <1>1, <1>2

LEMMA ProjectingKeeps ==
  ASSUME ReadInv, Project PROVE EnquiryInv(enquiry', sources)
  <1> DEFINE e == enquiry
             n == Len(sources)
             f == [e EXCEPT !.soul = Today.projected]
  <1>1. Asks("projection", Projected(enquiry)) BY DEF Project
  <1>2. "projection" \in Seeking \cup Showing BY DEF Seeking
  <1>3. /\ e.at = "projection" /\ n \in Nat /\ n \in e.since .. n /\ e.since \in 1 .. n
        /\ Today = sources[n] /\ EnquiryTypes(e) /\ e.answer = "none" /\ Asking(e.of)
        /\ StageInv(e, sources, e.since .. n)
        /\ enquiry' = Projected(e) \/ EnquiryInv(enquiry', sources)
    BY <1>1, <1>2, AskedFinds
  <1>4. /\ e.todo = <<>> /\ e.draft = <<>> /\ e.done = <<>> /\ e.of.query.kind # "agent"
        /\ e.of.self \/ e.of.query.kind = "local"
    BY <1>3 DEF StageInv, Seeking
  <1>5. SourcesInv(sources) /\ n \in 1 .. n BY <1>3 DEF ReadInv
  <1>6. Today.projected \in Identities \cup {Unbound} BY <1>3, <1>5, TodayIsSource
  <1>7. DOMAIN e = ReadFields BY <1>3 DEF EnquiryTypes
  <1>8. /\ DOMAIN f = ReadFields /\ f.at = e.at /\ f.answer = "none" /\ f.of = e.of
        /\ f.since = e.since /\ f.todo = <<>> /\ f.draft = <<>> /\ f.done = <<>>
        /\ f.soul = Today.projected
    BY <1>3, <1>4, <1>7 DEF ReadFields
  <1>9. Projected(e) =
          IF Today.projected = Unbound
          THEN IF e.of.self THEN Fails(e, "not_found") ELSE Fails(e, "invalid_request")
          ELSE IF e.of.caller = "guest" THEN Recognized(f) ELSE [f EXCEPT !.at = "confirm"]
    BY DEF Projected
  <1> HIDE DEF f
  <1>10. EnquiryTypes(f) BY <1>3, <1>8 DEF EnquiryTypes, Seeking
  <1>11. ProjectedIn(f.soul, sources, f.since .. n) BY <1>3, <1>8 DEF ProjectedIn
  <1>12. CASE Today.projected = Unbound
    <2>1. EnquiryInv(Projected(e), sources) BY <1>3, <1>9, <1>12, FailingKeeps
    <2> QED BY <1>3, <2>1
  <1>13. CASE Today.projected # Unbound /\ e.of.caller = "guest"
    <2>1. ConfirmedIn(f.of, f.soul, sources, f.since .. n)
      BY <1>3, <1>8, <1>13 DEF ConfirmedIn
    <2>2. f.at \in Seeking BY <1>3, <1>8 DEF Seeking
    <2>3. EnquiryInv(Recognized(f), sources)
      BY <1>3, <1>4, <1>5, <1>6, <1>8, <1>10, <1>11, <1>13, <2>1, <2>2, RecognizedKeeps
    <2> QED BY <1>3, <1>9, <1>13, <2>3
  <1>14. CASE Today.projected # Unbound /\ e.of.caller # "guest"
    <2> DEFINE g == [f EXCEPT !.at = "confirm"]
    <2>1. /\ DOMAIN g = ReadFields /\ g.at = "confirm" /\ g.answer = "none" /\ g.of = e.of
          /\ g.since = e.since /\ g.todo = <<>> /\ g.draft = <<>> /\ g.done = <<>>
          /\ g.soul = Today.projected
      BY <1>8 DEF ReadFields
    <2>2. Projected(e) = g BY <1>9, <1>14
    <2> HIDE DEF g
    <2>3. EnquiryTypes(g) /\ g.at \in Seeking BY <2>1 DEF EnquiryTypes, Seeking
    <2>4. ProjectedIn(g.soul, sources, g.since .. n) BY <1>8, <1>11, <2>1
    <2>5. StageInv(g, sources, g.since .. n)
      BY <1>4, <1>6, <1>14, <2>1, <2>4 DEF StageInv, Seeking, Showing
    <2>6. EnquiryInv(g, sources) BY <1>3, <2>1, <2>3, <2>5, SeekingKeeps
    <2> QED BY <1>3, <2>2, <2>6
  <1> QED BY <1>12, <1>13, <1>14

LEMMA ConfirmingKeeps ==
  ASSUME ReadInv, Confirm PROVE EnquiryInv(enquiry', sources)
  <1> DEFINE e == enquiry
             n == Len(sources)
  <1>1. Asks("confirm", Confirmed(enquiry)) BY DEF Confirm
  <1>2. "confirm" \in Seeking \cup Showing BY DEF Seeking
  <1>3. /\ e.at = "confirm" /\ n \in Nat /\ n \in e.since .. n /\ e.since \in 1 .. n
        /\ Today = sources[n] /\ EnquiryTypes(e) /\ e.answer = "none" /\ Asking(e.of)
        /\ StageInv(e, sources, e.since .. n)
        /\ enquiry' = Confirmed(e) \/ EnquiryInv(enquiry', sources)
    BY <1>1, <1>2, AskedFinds
  <1>4. /\ e.todo = <<>> /\ e.draft = <<>> /\ e.done = <<>>
        /\ e.of.self \/ e.of.query.kind = "local"
        /\ e.soul \in Identities /\ e.soul # Unbound /\ ProjectedIn(e.soul, sources, e.since .. n)
    BY <1>3 DEF StageInv, Seeking
  <1>5. SourcesInv(sources) BY DEF ReadInv
  <1>6. CASE Today.bound = e.soul
    <2>1. PICK i \in e.since .. n : sources[i].projected = e.soul
      BY <1>4 DEF ProjectedIn
    <2>2. i <= n BY <1>3, <2>1
    <2>3. ConfirmedIn(e.of, e.soul, sources, e.since .. n)
      BY <1>3, <1>6, <2>1, <2>2 DEF ConfirmedIn
    <2>4. EnquiryInv(Recognized(e), sources)
      BY <1>3, <1>4, <1>5, <2>3, RecognizedKeeps DEF Seeking
    <2>5. Confirmed(e) = Recognized(e) BY <1>6 DEF Confirmed
    <2> QED BY <1>3, <2>4, <2>5
  <1>7. CASE Today.bound # e.soul
    <2>1. Confirmed(e) = Fails(e, "forbidden") BY <1>7 DEF Confirmed
    <2> QED BY <1>3, <2>1, FailingKeeps
  <1> QED BY <1>6, <1>7

LEMMA DomainKeeps ==
  ASSUME ReadInv, ReadDomain PROVE EnquiryInv(enquiry', sources)
  <1> DEFINE e == enquiry
             n == Len(sources)
             domain == Today.host[e.soul].domain
             f == [e EXCEPT !.at = "search", !.domain = domain]
  <1>1. Asks("domain", InDomain(enquiry)) BY DEF ReadDomain
  <1>2. "domain" \in Seeking \cup Showing BY DEF Seeking
  <1>3. /\ e.at = "domain" /\ n \in Nat /\ n \in e.since .. n /\ e.since \in 1 .. n
        /\ Today = sources[n] /\ EnquiryTypes(e) /\ e.answer = "none" /\ Asking(e.of)
        /\ StageInv(e, sources, e.since .. n)
        /\ enquiry' = InDomain(e) \/ EnquiryInv(enquiry', sources)
    BY <1>1, <1>2, AskedFinds
  <1>4. /\ e.todo = <<>> /\ e.draft = <<>> /\ e.done = <<>>
        /\ ~e.of.self /\ e.of.query.kind = "local"
        /\ e.soul \in Identities /\ e.soul # Unbound /\ ProjectedIn(e.soul, sources, e.since .. n)
    BY <1>3 DEF StageInv, Seeking
  <1>5. SourcesInv(sources) /\ n \in 1 .. n BY <1>3 DEF ReadInv
  <1>6. InDomain(e) = IF domain = NoDomain THEN Fails(e, "invalid_request") ELSE f
    BY DEF InDomain
  <1>7. domain \in Domains
    <2>1. Today.host \in [Identities -> Publication] BY <1>3, <1>5, TodayIsSource
    <2> QED BY <1>4, <2>1 DEF Publication
  <1>8. DomainIn(domain, sources, e.since .. n)
    <2>1. PICK j \in e.since .. n : sources[j].projected = e.soul
      BY <1>4 DEF ProjectedIn
    <2> QED BY <1>3, <1>4, <2>1 DEF DomainIn
  <1>9. DOMAIN e = ReadFields BY <1>3 DEF EnquiryTypes
  <1> HIDE DEF domain
  <1>10. /\ DOMAIN f = ReadFields /\ f.at = "search" /\ f.answer = "none" /\ f.of = e.of
         /\ f.since = e.since /\ f.todo = <<>> /\ f.draft = <<>> /\ f.done = <<>>
         /\ f.domain = domain
    BY <1>3, <1>4, <1>9 DEF ReadFields
  <1> HIDE DEF f
  <1>11. EnquiryTypes(f) /\ f.at \in Seeking BY <1>10 DEF EnquiryTypes, Seeking
  <1>12. StageInv(f, sources, f.since .. n)
    BY <1>4, <1>7, <1>8, <1>10 DEF StageInv, Seeking, Showing
  <1>13. EnquiryInv(f, sources) BY <1>3, <1>10, <1>11, <1>12, SeekingKeeps
  <1>14. EnquiryInv(Fails(e, "invalid_request"), sources) BY <1>3, FailingKeeps
  <1> QED BY <1>3, <1>6, <1>13, <1>14

LEMMA ResolvingKeeps ==
  ASSUME ReadInv, ResolveName PROVE EnquiryInv(enquiry', sources)
  <1> DEFINE e == enquiry
             n == Len(sources)
             soul == Today.names[e.of.query.name]
  <1>1. Asks("ens", Resolved(enquiry)) BY DEF ResolveName
  <1>2. "ens" \in Seeking \cup Showing BY DEF Seeking
  <1>3. /\ e.at = "ens" /\ n \in Nat /\ n \in e.since .. n /\ e.since \in 1 .. n
        /\ Today = sources[n] /\ EnquiryTypes(e) /\ e.answer = "none" /\ Asking(e.of)
        /\ StageInv(e, sources, e.since .. n)
        /\ enquiry' = Resolved(e) \/ EnquiryInv(enquiry', sources)
    BY <1>1, <1>2, AskedFinds
  <1>4. /\ e.draft = <<>> /\ e.done = <<>>
        /\ ~e.of.self /\ e.of.query.kind = "ens"
    BY <1>3 DEF StageInv, Seeking
  <1>5. SourcesInv(sources) /\ n \in 1 .. n BY <1>3 DEF ReadInv
  <1>6. Resolved(e) = IF soul = Unbound THEN Fails(e, "not_found") ELSE Reading(e, <<soul>>)
    BY DEF Resolved
  <1>7. soul \in Identities \cup {Unbound}
    BY <1>3, <1>4, <1>5, TodayIsSource DEF Asking
  <1>8. MeantIn(e.of, <<soul>>, sources, e.since .. n)
    BY <1>3, <1>4 DEF MeantIn
  <1> HIDE DEF soul
  <1>9. EnquiryInv(Fails(e, "not_found"), sources) BY <1>3, FailingKeeps
  <1>10. ASSUME soul # Unbound PROVE EnquiryInv(Reading(e, <<soul>>), sources)
    <2>1. <<soul>> \in Seq(Identities) /\ Len(<<soul>>) > 0 BY <1>7, <1>10
    <2> QED BY <1>3, <1>4, <1>5, <1>8, <2>1, ReadingKeeps
  <1> QED BY <1>3, <1>6, <1>9, <1>10

LEMMA SearchingKeeps ==
  ASSUME ReadInv, Search PROVE EnquiryInv(enquiry', sources)
  <1> DEFINE e == enquiry
             n == Len(sources)
             found == Today.found[SearchKey(e.of, e.domain)]
  <1>1. Asks("search", Searched(enquiry)) BY DEF Search
  <1>2. "search" \in Seeking \cup Showing BY DEF Seeking
  <1>3. /\ e.at = "search" /\ n \in Nat /\ n \in e.since .. n /\ e.since \in 1 .. n
        /\ Today = sources[n] /\ EnquiryTypes(e) /\ e.answer = "none" /\ Asking(e.of)
        /\ StageInv(e, sources, e.since .. n)
        /\ enquiry' = Searched(e) \/ EnquiryInv(enquiry', sources)
    BY <1>1, <1>2, AskedFinds
  <1>4. /\ e.draft = <<>> /\ e.done = <<>>
        /\ ~e.of.self /\ e.of.query.kind \notin {"ens", "agent"}
        /\ IF e.of.query.kind = "local"
           THEN DomainIn(e.domain, sources, e.since .. n) /\ e.domain \in Domains
           ELSE e.of.query.kind \notin Unmatched
    BY <1>3 DEF StageInv, Seeking
  <1>5. SourcesInv(sources) /\ n \in 1 .. n BY <1>3 DEF ReadInv
  <1>6. Searched(e) = IF found = <<>> THEN Fails(e, "not_found") ELSE Reading(e, found)
    BY DEF Searched
  <1>7. found \in Seq(Identities)
    <2>1. SearchKey(e.of, e.domain) \in DOMAIN Today.found
      BY <1>3, <1>4, <1>5, TodayIsSource DEF SearchKey, Asking
    <2>2. Today.found \in [DOMAIN Today.found -> Seq(Identities)]
      BY <1>3, <1>5, TodayIsSource
    <2> QED BY <2>1, <2>2
  <1>8. MeantIn(e.of, found, sources, e.since .. n)
    <2>1. CASE e.of.query.kind = "local"
      BY <1>3, <1>4, <2>1 DEF MeantIn, SearchKey
    <2>2. CASE e.of.query.kind # "local"
      BY <1>3, <1>4, <2>2 DEF MeantIn, SearchKey
    <2> QED BY <2>1, <2>2
  <1> HIDE DEF found
  <1>9. EnquiryInv(Fails(e, "not_found"), sources) BY <1>3, FailingKeeps
  <1>10. ASSUME found # <<>> PROVE EnquiryInv(Reading(e, found), sources)
    <2>1. Len(found) > 0 BY <1>7, <1>10
    <2> QED BY <1>3, <1>4, <1>5, <1>7, <1>8, <2>1, ReadingKeeps
  <1> QED BY <1>3, <1>6, <1>9, <1>10

-----------------------------------------------------------------------------
(* A soul, part after part *)

LEMMA OrderIs ==
  /\ Len(PartOrder) = 5 /\ PartOrder \in Seq(Parts)
  /\ PartOrder[1] = "identity" /\ PartOrder[2] = "registration"
  /\ \A k \in 1 .. 5 : /\ PartOrder[k] \in Parts
                       /\ PartOrder[k] = "registration" => k = 2
                       /\ k <= 2 <=> PartOrder[k] \notin Blocks
  /\ "identity" \in Parts /\ "registration" \in Parts
  /\ "identity" \notin Blocks /\ "registration" \notin Blocks
  <1>1. /\ Len(PartOrder) = 5
        /\ PartOrder[1] = "identity" /\ PartOrder[2] = "registration"
        /\ PartOrder[3] = "capabilities" /\ PartOrder[4] = "boundaries"
        /\ PartOrder[5] = "transparency"
        /\ DOMAIN PartOrder = 1 .. 5
    BY DEF PartOrder
  <1>2. \A k \in 1 .. 5 : PartOrder[k] \in Parts
    BY <1>1 DEF Parts, Range
  <1>3. PartOrder \in Seq(Parts)
    <2>1. PartOrder \in Seq({"identity", "registration", "capabilities", "boundaries", "transparency"})
      BY DEF PartOrder
    <2>2. {"identity", "registration", "capabilities", "boundaries", "transparency"} \subseteq Parts
      BY <1>1, <1>2
    <2> QED BY <2>1, <2>2
  <1>4. \A k \in 1 .. 5 : k = 1 \/ k = 2 \/ k = 3 \/ k = 4 \/ k = 5 OBVIOUS
  <1> QED BY <1>1, <1>2, <1>3, <1>4 DEF Blocks

\* What a request for the next part of s, or its failure, yields at moment n.
Fetched(s, p, host) ==
  /\ p \in PartRecord
  /\ p.version # NoBlock => p.version = host.version /\ p.part \in host.holds
  /\ p.declares # {} => /\ p.part = "registration" /\ p.version = host.version
                        /\ p.declares = host.declares /\ "registration" \in host.holds

LEMMA AnsweredFetched ==
  ASSUME NEW s, NEW host \in Publication, NEW part \in Parts
  PROVE  /\ Fetched(s, Answered(part, host), host) /\ Answered(part, host).part = part
         /\ Fetched(s, Unread(part), host) /\ Unread(part).part = part
  <1>1. host.version \in Nat /\ host.declares \in SUBSET Blocks
        /\ (host.declares # {} => "registration" \in host.holds)
    BY DEF Publication
  <1>2. Answered(part, host) \in PartRecord /\ Unread(part) \in PartRecord
    BY <1>1 DEF Answered, Unread, PartRecord, NoBlock
  <1>3. /\ Answered(part, host).part = part
        /\ Answered(part, host).version = IF part \in host.holds THEN host.version ELSE NoBlock
        /\ Answered(part, host).declares = IF part = "registration" THEN host.declares ELSE {}
        /\ Unread(part).part = part /\ Unread(part).version = NoBlock /\ Unread(part).declares = {}
    BY DEF Answered, Unread
  <1> QED BY <1>1, <1>2, <1>3 DEF Fetched

LEMMA BlockIs ==
  ASSUME NEW parts \in Seq(PartRecord), NEW p \in PartRecord
  PROVE  /\ BlockOf(parts, p) \in PartRecord
         /\ BlockOf(parts, p).part = p.part /\ BlockOf(parts, p).declares = p.declares
         /\ \/ /\ BlockOf(parts, p) = p
               /\ p.version # NoBlock \/ \A k \in 1 .. Len(parts) : p.part \notin parts[k].declares
            \/ /\ p.version = NoBlock
               /\ \E k \in 1 .. Len(parts) : /\ p.part \in parts[k].declares
                                             /\ BlockOf(parts, p).version = parts[k].version
  <1> DEFINE Registered(reg) == p.part \in reg.declares
  <1>1. Range(parts) = {parts[k] : k \in 1 .. Len(parts)} BY DEF Range
  <1>2. CASE p.version = NoBlock /\ \E reg \in Range(parts) : Registered(reg)
    <2>1. PICK reg \in Range(parts) : Registered(reg) /\ reg = CHOOSE r \in Range(parts) : Registered(r)
      BY <1>2
    <2>2. PICK k \in 1 .. Len(parts) : reg = parts[k] BY <1>1, <2>1
    <2>6. reg \in PartRecord BY <2>2
    <2>3. reg.version \in Nat BY <2>6 DEF PartRecord
    <2>4. BlockOf(parts, p) = [p EXCEPT !.version = reg.version] BY <1>2, <2>1 DEF BlockOf
    <2>5. /\ [p EXCEPT !.version = reg.version] \in PartRecord
          /\ [p EXCEPT !.version = reg.version].version = reg.version
          /\ [p EXCEPT !.version = reg.version].part = p.part
          /\ [p EXCEPT !.version = reg.version].declares = p.declares
      BY <2>3 DEF PartRecord
    <2> QED BY <1>2, <2>1, <2>2, <2>4, <2>5
  <1>3. CASE ~(p.version = NoBlock /\ \E reg \in Range(parts) : Registered(reg))
    <2>1. BlockOf(parts, p) = p BY <1>3 DEF BlockOf
    <2> QED BY <1>1, <1>3, <2>1
  <1> QED BY <1>2, <1>3

LEMMA PartReadKeeps ==
  ASSUME SourcesInv(sources), NEW I, Len(sources) \in I, NEW s \in Identities,
         NEW parts \in Seq(PartRecord), Len(parts) < Len(PartOrder),
         PartsInv(s, parts, sources, I), NoneNewer(s, parts, sources),
         NEW p, Fetched(s, p, sources[Len(sources)].host[s]), p.part = PartOrder[Len(parts) + 1]
  PROVE  /\ PartsInv(s, Append(parts, BlockOf(parts, p)), sources, I)
         /\ NoneNewer(s, Append(parts, BlockOf(parts, p)), sources)
         /\ Append(parts, BlockOf(parts, p)) \in Seq(PartRecord)
         /\ Len(Append(parts, BlockOf(parts, p))) = Len(parts) + 1
  <1> DEFINE b == BlockOf(parts, p)
             n == Len(sources)
             N == Len(parts)
             host == sources[n].host[s]
             more == Append(parts, b)
  <1>1. host \in Publication /\ host.version \in Nat /\ host.version # NoBlock
    <2>1. n \in 1 .. n BY DEF SourcesInv
    <2>2. sources[n].host \in [Identities -> Publication] BY <2>1, TodayIsSource
    <2> QED BY <2>2 DEF Publication
  <1>2. p \in PartRecord BY DEF Fetched
  <1>3. /\ b \in PartRecord /\ b.part = p.part /\ b.declares = p.declares
        /\ \/ b = p /\ (p.version # NoBlock \/ \A k \in 1 .. N : p.part \notin parts[k].declares)
           \/ /\ p.version = NoBlock
              /\ \E k \in 1 .. N : p.part \in parts[k].declares /\ b.version = parts[k].version
    BY <1>2, BlockIs
  <1> HIDE DEF b
  <1>4. /\ more \in Seq(PartRecord) /\ Len(more) = N + 1 /\ N \in Nat
        /\ \A k \in 1 .. N : more[k] = parts[k]
        /\ more[N + 1] = b
    BY <1>3
  <1>5. \A k \in 1 .. N : parts[k] \in PartRecord /\ parts[k].version \in Nat
    <2>1. \A k \in 1 .. N : parts[k] \in PartRecord OBVIOUS
    <2> QED BY <2>1 DEF PartRecord
  <1>6. /\ \A k \in 1 .. N : /\ parts[k].part = PartOrder[k]
                             /\ PublishedIn(s, parts[k], sources, I)
                             /\ DeclaredIn(s, parts[k], sources, I)
                             /\ parts[k].declares # {} => k = 2 /\ parts[k].version # NoBlock
        /\ \A k, l \in 1 .. N :
             /\ k < l /\ k <= 2 /\ parts[l].version # NoBlock => parts[k].version <= parts[l].version
             /\ parts[l].part \in parts[k].declares => parts[l].version # NoBlock
    BY DEF PartsInv
  <1>7. \A k \in 1 .. N : parts[k].version <= host.version BY DEF NoneNewer
  <1> HIDE DEF more, host, n, N
  <1>8. \/ b = p
        \/ /\ p.version = NoBlock /\ N >= 2 /\ p.part \in parts[2].declares
           /\ b.version = parts[2].version /\ parts[2].version # NoBlock
    <2>1. CASE b = p BY <2>1
    <2>2. CASE b # p
      <3>1. PICK k \in 1 .. N : p.part \in parts[k].declares /\ b.version = parts[k].version
        BY <1>3, <2>2
      <3>2. k = 2 /\ parts[k].version # NoBlock BY <1>6, <3>1
      <3> QED BY <1>3, <1>4, <2>2, <3>1, <3>2
    <2> QED BY <2>1, <2>2
  <1>9. /\ b.declares # {} => N + 1 = 2 /\ b.version # NoBlock /\ b = p
        /\ b.part = PartOrder[N + 1] /\ N + 1 \in 1 .. 5
    <2>1. N + 1 \in 1 .. 5 /\ b.part = PartOrder[N + 1]
      BY <1>3, <1>4, OrderIs DEF N
    <2>2. ASSUME b.declares # {} PROVE N + 1 = 2 /\ b.version # NoBlock /\ b = p
      <3>1. p.part = "registration" /\ p.version = host.version
        BY <1>3, <2>2 DEF Fetched, host, n
      <3>2. N + 1 = 2 BY <1>3, <2>1, <3>1, OrderIs
      <3> QED BY <1>1, <1>8, <3>1, <3>2
    <2> QED BY <2>1, <2>2
  <1>10. PublishedIn(s, b, sources, I)
    <2>1. CASE b = p
      <3>1. b.version # NoBlock => b.version = host.version /\ b.part \in host.holds
        BY <2>1 DEF Fetched, host, n
      <3>2. n \in I BY DEF n
      <3> QED BY <3>1, <3>2 DEF PublishedIn, host
    <2>2. CASE b # p
      <3>1. /\ N >= 2 /\ b.part \in parts[2].declares /\ b.version = parts[2].version
            /\ 2 \in 1 .. N
        BY <1>3, <1>4, <1>8, <2>2
      <3>2. PICK i \in I : /\ sources[i].host[s].version = parts[2].version
                           /\ "registration" \in sources[i].host[s].holds
                           /\ parts[2].declares = sources[i].host[s].declares
        BY <1>6, <3>1 DEF DeclaredIn
      <3> QED BY <3>1, <3>2 DEF PublishedIn
    <2> QED BY <2>1, <2>2
  <1>11. DeclaredIn(s, b, sources, I)
    <2> SUFFICES ASSUME b.declares # {} PROVE DeclaredIn(s, b, sources, I)
      BY DEF DeclaredIn
    <2>1. b = p BY <1>9
    <2>2. /\ b.version = host.version /\ b.declares = host.declares
          /\ "registration" \in host.holds
      BY <2>1 DEF Fetched, host, n
    <2>3. n \in I BY DEF n
    <2> QED BY <2>2, <2>3 DEF DeclaredIn, host
  <1>12. b.version <= host.version /\ b.version \in Nat
    <2>1. b.version \in Nat BY <1>3 DEF PartRecord
    <2>2. CASE b = p
      <3>1. b.version = NoBlock \/ b.version = host.version BY <2>2 DEF Fetched, host, n
      <3> QED BY <1>1, <3>1 DEF NoBlock
    <2>3. CASE b # p
      <3>1. 2 \in 1 .. N /\ b.version = parts[2].version BY <1>4, <1>8, <2>3
      <3> QED BY <1>7, <2>1, <3>1
    <2> QED BY <2>1, <2>2, <2>3
  <1>13. ASSUME NEW k \in 1 .. N, k <= 2, b.version # NoBlock PROVE parts[k].version <= b.version
    <2>1. CASE b = p
      <3>1. b.version = host.version BY <1>13, <2>1 DEF Fetched, host, n
      <3> QED BY <1>7, <3>1
    <2>2. CASE b # p
      <3>1. 2 \in 1 .. N /\ b.version = parts[2].version /\ parts[2].version # NoBlock
        BY <1>4, <1>8, <2>2
      <3>2. k = 2 \/ k < 2 BY <1>4, <1>13
      <3>3. k < 2 => parts[k].version <= parts[2].version BY <1>6, <1>13, <3>1
      <3>4. parts[k].version \in Nat /\ parts[2].version \in Nat BY <1>5, <3>1
      <3> QED BY <3>1, <3>2, <3>3, <3>4
    <2> QED BY <2>1, <2>2
  <1>14. ASSUME NEW k \in 1 .. N, b.part \in parts[k].declares PROVE b.version # NoBlock
    BY <1>3, <1>6, <1>14
  <1>15. ASSUME NEW l \in 1 .. N + 1 PROVE more[l].part \notin b.declares
    <2> SUFFICES ASSUME b.declares # {} PROVE more[l].part \notin b.declares
      OBVIOUS
    <2>1. N + 1 = 2 BY <1>9
    <2>2. l \in 1 .. 2 BY <2>1
    <2>3. more[l].part = PartOrder[l]
      BY <1>4, <1>6, <1>9, <2>1, <2>2
    <2>4. PartOrder[l] \notin Blocks BY <2>2, OrderIs
    <2> QED BY <1>3, <2>3, <2>4 DEF PartRecord
  <1>16. NoneNewer(s, more, sources)
    <2>1. \A k \in 1 .. N + 1 : more[k].version <= host.version BY <1>4, <1>7, <1>12
    <2> QED BY <1>4, <2>1 DEF NoneNewer, host, n
  <1>17. ASSUME NEW k \in 1 .. N + 1
         PROVE  /\ more[k].part = PartOrder[k]
                /\ PublishedIn(s, more[k], sources, I)
                /\ DeclaredIn(s, more[k], sources, I)
                /\ more[k].declares # {} => k = 2 /\ more[k].version # NoBlock
    <2>1. k \in 1 .. N \/ k = N + 1 BY <1>4
    <2> QED BY <1>4, <1>6, <1>9, <1>10, <1>11, <2>1
  <1>18. ASSUME NEW k \in 1 .. N + 1, NEW l \in 1 .. N + 1
         PROVE  /\ k < l /\ k <= 2 /\ more[l].version # NoBlock => more[k].version <= more[l].version
                /\ more[l].part \in more[k].declares => more[l].version # NoBlock
    <2>1. CASE k \in 1 .. N /\ l \in 1 .. N BY <1>4, <1>6, <2>1
    <2>2. CASE k \in 1 .. N /\ l = N + 1 BY <1>4, <1>13, <1>14, <2>2
    <2>3. CASE k = N + 1
      <3>1. ~(k < l) BY <1>4, <2>3
      <3> QED BY <1>4, <1>15, <2>3, <3>1
    <2>4. (k \in 1 .. N \/ k = N + 1) /\ (l \in 1 .. N \/ l = N + 1) BY <1>4
    <2> QED BY <2>1, <2>2, <2>3, <2>4
  <1>19. Len(more) <= Len(PartOrder) BY <1>4, <1>9, OrderIs
  <1>20. PartsInv(s, more, sources, I)
    BY <1>4, <1>17, <1>18, <1>19 DEF PartsInv
  <1> QED BY <1>4, <1>16, <1>20 DEF more, b, N

LEMMA Carried ==
  \A a, b \in Nat : /\ (a + 1) + (b - 1) = a + b
                    /\ a + b = 1 /\ b > 0 => a = 0 /\ b = 1 /\ a + 1 = 1 /\ b - 1 = 0
                    /\ b > 0 /\ ~(b > 1) => b - 1 = 0
                    /\ b > 1 => b - 1 > 0
  OBVIOUS

LEMMA FollowsOn ==
  ASSUME NEW done \in Seq(SoulRecord), NEW todo \in Seq(Identities), Len(todo) > 0,
         NEW m \in Seq(Identities), Follows(done, todo, m),
         NEW item \in SoulRecord, item.soul = todo[1]
  PROVE  /\ Follows(Append(done, item), Tail(todo), m)
         /\ Append(done, item) \in Seq(SoulRecord) /\ Len(Append(done, item)) = Len(done) + 1
         /\ \A i \in 1 .. Len(done) : Append(done, item)[i] = done[i]
         /\ Append(done, item)[Len(done) + 1] = item
         /\ Tail(todo) \in Seq(Identities) /\ Len(Tail(todo)) = Len(todo) - 1
  <1> DEFINE d == Append(done, item)
             t == Tail(todo)
  <1>1. /\ d \in Seq(SoulRecord) /\ Len(d) = Len(done) + 1 /\ Len(done) \in Nat
        /\ \A i \in 1 .. Len(done) : d[i] = done[i]
        /\ d[Len(done) + 1] = item
    OBVIOUS
  <1>2. /\ t \in Seq(Identities) /\ Len(t) = Len(todo) - 1 /\ Len(todo) \in Nat
        /\ \A i \in 1 .. Len(t) : t[i] = todo[i + 1]
    OBVIOUS
  <1> HIDE DEF d, t
  <1>3. /\ Len(done) + Len(todo) = Len(m)
        /\ \A i \in 1 .. Len(done) : done[i].soul = m[i]
        /\ \A i \in 1 .. Len(todo) : todo[i] = m[Len(done) + i]
    BY DEF Follows
  <1>4. Len(d) + Len(t) = Len(m)
    <2>1. Len(d) + Len(t) = (Len(done) + 1) + (Len(todo) - 1) BY <1>1, <1>2
    <2>2. (Len(done) + 1) + (Len(todo) - 1) = Len(done) + Len(todo)
      BY <1>1, <1>2, Carried
    <2> QED BY <1>3, <2>1, <2>2
  <1>5. ASSUME NEW i \in 1 .. Len(d) PROVE d[i].soul = m[i]
    <2>1. CASE i \in 1 .. Len(done) BY <1>1, <1>3, <2>1
    <2>2. CASE i = Len(done) + 1
      <3>1. 1 \in 1 .. Len(todo) BY <1>2
      <3> QED BY <1>1, <1>3, <2>2, <3>1
    <2>3. i \in 1 .. Len(done) \/ i = Len(done) + 1 BY <1>1
    <2> QED BY <2>1, <2>2, <2>3
  <1>6. ASSUME NEW i \in 1 .. Len(t) PROVE t[i] = m[Len(d) + i]
    <2>1. i + 1 \in 1 .. Len(todo) BY <1>2
    <2>2. t[i] = m[Len(done) + (i + 1)] BY <1>2, <1>3, <2>1
    <2>3. Len(done) + (i + 1) = Len(d) + i BY <1>1
    <2> QED BY <2>2, <2>3
  <1>7. Follows(d, t, m) BY <1>4, <1>5, <1>6 DEF Follows
  <1> QED BY <1>1, <1>2, <1>7 DEF d, t

LEMMA CompletingKeeps ==
  ASSUME SourcesInv(sources), NEW e, EnquiryTypes(e), e.since \in 1 .. Len(sources),
         e.answer = "none", Asking(e.of),
         Shown(e.of, e.soul, e.done, e.todo, sources, e.since .. Len(sources)),
         Len(e.todo) > 0, PartsInv(e.todo[1], e.draft, sources, e.since .. Len(sources))
  PROVE  EnquiryInv(Complete(e), sources)
  <1> DEFINE f == Complete(e)
             I == e.since .. Len(sources)
             item == [soul |-> Subject(e), parts |-> e.draft, private |-> Unbound]
             at == CASE e.of.private # "none" -> "private"
                     [] e.of.private = "none" /\ Len(e.todo) > 1 -> "part"
                     [] OTHER -> "answer"
  <1>1. f = [e EXCEPT !.done = Append(e.done, item), !.draft = <<>>, !.todo = Tail(e.todo), !.at = at]
    BY DEF Complete
  <1>2. /\ e.done \in Seq(SoulRecord) /\ e.todo \in Seq(Identities) /\ e.draft \in Seq(PartRecord)
        /\ DOMAIN e = ReadFields /\ Len(e.todo) \in Nat /\ Len(e.done) \in Nat
    BY DEF EnquiryTypes
  <1>3. /\ item \in SoulRecord /\ item.soul = e.todo[1] /\ item.parts = e.draft
        /\ item.private = Unbound
    <2>1. Subject(e) = e.todo[1] /\ e.todo[1] \in Identities BY <1>2 DEF Subject
    <2> QED BY <1>2, <2>1 DEF SoulRecord
  <1> HIDE DEF item, at
  <1>4. /\ DOMAIN f = ReadFields /\ f.at = at /\ f.answer = "none" /\ f.of = e.of
        /\ f.soul = e.soul /\ f.since = e.since /\ f.draft = <<>>
        /\ f.done = Append(e.done, item) /\ f.todo = Tail(e.todo)
    BY <1>1, <1>2 DEF ReadFields
  <1> HIDE DEF f
  <1>5. PICK m \in Seq(Identities) : /\ Wanted(e.of, e.soul, m, sources, I)
                                     /\ Follows(e.done, e.todo, m)
    BY DEF Shown
  <1>6. /\ Follows(f.done, f.todo, m)
        /\ f.done \in Seq(SoulRecord) /\ Len(f.done) = Len(e.done) + 1
        /\ \A i \in 1 .. Len(e.done) : f.done[i] = e.done[i]
        /\ f.done[Len(e.done) + 1] = item
        /\ f.todo \in Seq(Identities) /\ Len(f.todo) = Len(e.todo) - 1
    BY <1>2, <1>3, <1>4, <1>5, FollowsOn
  <1>7. Shown(f.of, f.soul, f.done, f.todo, sources, I)
    <2>1. ItemInv(e.of, item, sources, I) BY <1>3 DEF ItemInv
    <2>2. \A i \in 1 .. Len(e.done) : ItemInv(e.of, e.done[i], sources, I) BY DEF Shown
    <2>3. ASSUME NEW i \in 1 .. Len(f.done) PROVE ItemInv(f.of, f.done[i], sources, I)
      <3>1. i \in 1 .. Len(e.done) \/ i = Len(e.done) + 1 BY <1>2, <1>6
      <3> QED BY <1>4, <1>6, <2>1, <2>2, <3>1
    <2> QED BY <1>4, <1>5, <1>6, <2>3 DEF Shown
  <1>8. at = "private" => e.of.private # "none" /\ Len(f.done) = 1 /\ Len(f.todo) = 0
    <2> SUFFICES ASSUME at = "private" PROVE e.of.private # "none" /\ Len(f.done) = 1 /\ Len(f.todo) = 0
      OBVIOUS
    <2>1. e.of.private # "none" BY DEF at
    <2>2. e.of.self BY <2>1 DEF Asking, Malformed
    <2>3. Len(m) = 1 BY <1>5, <2>2 DEF Wanted
    <2>4. Len(e.done) + Len(e.todo) = 1 BY <1>5, <2>3 DEF Follows
    <2>5. Len(e.done) = 0 /\ Len(e.done) + 1 = 1 /\ Len(e.todo) - 1 = 0
      <3>1. PICK a \in Nat, b \in Nat : a = Len(e.done) /\ b = Len(e.todo) BY <1>2
      <3>2. a + b = 1 /\ b > 0 BY <2>4, <3>1
      <3>3. a = 0 /\ a + 1 = 1 /\ b - 1 = 0 BY <3>2
      <3> QED BY <3>1, <3>3
    <2> QED BY <1>6, <2>1, <2>5
  <1>9. /\ at \in {"private", "part", "answer"}
        /\ at = "part" => Len(f.todo) > 0
        /\ at = "answer" => Len(f.todo) = 0
    <2>1. /\ Len(e.todo) > 1 => Len(e.todo) - 1 > 0
          /\ ~(Len(e.todo) > 1) => Len(e.todo) - 1 = 0
      BY <1>2, Carried
    <2>2. at = IF e.of.private # "none" THEN "private"
               ELSE IF Len(e.todo) > 1 THEN "part" ELSE "answer"
      BY DEF at
    <2> QED BY <1>6, <2>1, <2>2
  <1>10. Len(f.todo) = 0 => f.todo = <<>> BY <1>6
  <1>11. /\ PartsInv(f.todo[1], <<>>, sources, I) /\ NoneNewer(f.todo[1], <<>>, sources)
         /\ Len(<<>>) < LastPart(f.of)
    <2>1. Len(<<>>) = 0 /\ Len(PartOrder) = 5 BY DEF PartOrder
    <2> QED BY <2>1 DEF PartsInv, NoneNewer, LastPart
  <1>12. StageInv(f, sources, I)
    BY <1>4, <1>7, <1>8, <1>9, <1>10, <1>11 DEF StageInv, Seeking, Showing
  <1>13. EnquiryTypes(f)
    BY <1>4, <1>6, <1>9 DEF EnquiryTypes, Seeking, Showing
  <1>14. I = f.since .. Len(sources) BY <1>4
  <1> HIDE DEF I
  <1> QED BY <1>4, <1>9, <1>12, <1>13, <1>14 DEF EnquiryInv, Showing, f

LEMMA WithKeeps ==
  ASSUME ReadInv, enquiry.at = "part", NEW p,
         Fetched(enquiry.todo[1], p, Today.host[enquiry.todo[1]]), p.part = NextPart(enquiry)
  PROVE  EnquiryInv(With(enquiry, p), sources)
  <1> DEFINE e == enquiry
             n == Len(sources)
             I == e.since .. n
             s == e.todo[1]
             draft == Append(e.draft, BlockOf(e.draft, p))
             more == [e EXCEPT !.draft = draft]
  <1>1. /\ EnquiryTypes(e) /\ e.since \in 1 .. n /\ e.answer = "none" /\ Asking(e.of)
        /\ StageInv(e, sources, I) /\ SourcesInv(sources) /\ n \in Nat
        /\ Today = sources[n] /\ n \in I
    <2>1. SourcesInv(sources) /\ n \in Nat BY DEF ReadInv, SourcesInv
    <2>2. /\ EnquiryTypes(e) /\ e.since \in 1 .. n /\ e.answer = "none" /\ Asking(e.of)
          /\ StageInv(e, sources, I)
      BY DEF ReadInv, EnquiryInv, Showing
    <2> QED BY <2>1, <2>2 DEF Today
  <1>2. /\ Shown(e.of, e.soul, e.done, e.todo, sources, I)
        /\ Len(e.todo) > 0 /\ Len(e.draft) < LastPart(e.of)
        /\ PartsInv(s, e.draft, sources, I) /\ NoneNewer(s, e.draft, sources)
    BY <1>1 DEF StageInv, Showing
  <1>3. /\ e.todo \in Seq(Identities) /\ e.draft \in Seq(PartRecord)
        /\ e.done \in Seq(SoulRecord) /\ DOMAIN e = ReadFields
        /\ Len(e.draft) \in Nat
    BY <1>1 DEF EnquiryTypes
  <1>4. s \in Identities BY <1>2, <1>3
  <1>5. Len(e.draft) < Len(PartOrder) BY <1>2, <1>3, OrderIs DEF LastPart
  <1>6. /\ PartsInv(s, draft, sources, I) /\ NoneNewer(s, draft, sources)
        /\ draft \in Seq(PartRecord) /\ Len(draft) = Len(e.draft) + 1
    <2>1. Fetched(s, p, sources[Len(sources)].host[s]) /\ p.part = PartOrder[Len(e.draft) + 1]
      BY <1>1 DEF NextPart
    <2> HIDE DEF I
    <2> QED BY <1>1, <1>2, <1>3, <1>4, <1>5, <2>1, PartReadKeeps
  <1>7. With(e, p) = IF Len(more.draft) = LastPart(e.of) THEN Complete(more) ELSE more
    BY DEF With
  <1> HIDE DEF draft
  <1>8. /\ DOMAIN more = ReadFields /\ more.at = "part" /\ more.answer = "none" /\ more.of = e.of
        /\ more.soul = e.soul /\ more.since = e.since /\ more.draft = draft
        /\ more.done = e.done /\ more.todo = e.todo
    BY <1>1, <1>3 DEF ReadFields
  <1> HIDE DEF more
  <1>9. EnquiryTypes(more) BY <1>3, <1>6, <1>8 DEF EnquiryTypes, Showing
  <1>10. CASE Len(draft) = LastPart(e.of)
    <2>1. EnquiryInv(Complete(more), sources)
      BY <1>1, <1>2, <1>6, <1>8, <1>9, CompletingKeeps
    <2> QED BY <1>7, <1>8, <1>10, <2>1
  <1>11. CASE Len(draft) # LastPart(e.of)
    <2>1. Len(draft) < LastPart(e.of) BY <1>2, <1>3, <1>6, <1>11, OrderIs DEF LastPart
    <2>2. StageInv(more, sources, I)
      BY <1>2, <1>6, <1>8, <2>1 DEF StageInv, Seeking, Showing
    <2>3. EnquiryInv(more, sources)
      BY <1>1, <1>8, <1>9, <2>2 DEF EnquiryInv, Showing
    <2> QED BY <1>7, <1>8, <1>11, <2>3
  <1> QED BY <1>10, <1>11

LEMMA PartsKeep ==
  ASSUME ReadInv, ReadIdentity \/ ReadPart
  PROVE  EnquiryInv(enquiry', sources) /\ sources' = sources
  <1> DEFINE e == enquiry
             s == e.todo[1]
             host == Today.host[s]
  <1>1. e.at = "part" /\ sources' = sources BY DEF ReadIdentity, ReadPart, Asks
  <1>2. /\ EnquiryTypes(e) /\ e.since \in 1 .. Len(sources) /\ SourcesInv(sources)
        /\ StageInv(e, sources, e.since .. Len(sources))
        /\ Today = sources[Len(sources)] /\ Len(sources) \in 1 .. Len(sources)
    BY <1>1 DEF ReadInv, EnquiryInv, Showing, Today, SourcesInv
  <1>3. Len(e.todo) > 0 /\ Len(e.draft) < LastPart(e.of)
    BY <1>1, <1>2 DEF StageInv
  <1>4. e.todo \in Seq(Identities) /\ e.draft \in Seq(PartRecord) /\ Len(e.draft) \in Nat
    BY <1>2 DEF EnquiryTypes
  <1>5. s \in Identities /\ Subject(e) = s BY <1>3, <1>4 DEF Subject
  <1>6. host \in Publication
    <2>1. Today.host \in [Identities -> Publication] BY <1>2, TodayIsSource
    <2> QED BY <1>5, <2>1
  <1>7. NextPart(e) \in Parts
    <2>1. Len(e.draft) + 1 \in 1 .. 5 BY <1>3, <1>4, OrderIs DEF LastPart
    <2> QED BY <2>1, OrderIs DEF NextPart
  <1>8. /\ EnquiryInv(With(e, Answered(NextPart(e), host)), sources)
        /\ EnquiryInv(With(e, Unread(NextPart(e))), sources)
    BY <1>1, <1>6, <1>7, AnsweredFetched, WithKeeps
  <1>9. CASE ReadIdentity
    <2>1. e.draft = <<>> /\ Asks("part", Identified(e)) BY <1>9 DEF ReadIdentity
    <2>2. NextPart(e) = "identity" BY <2>1, OrderIs DEF NextPart
    <2>3. Identified(e) = IF "identity" \in host.holds THEN With(e, Answered("identity", host))
                          ELSE Fails(e, "not_found")
      BY <1>5 DEF Identified
    <2>4. EnquiryInv(Identified(e), sources) BY <1>2, <1>8, <2>2, <2>3, FailingKeeps
    <2>5. enquiry' = Identified(e) \/ enquiry' = Fails(e, "upstream_error")
      BY <2>1 DEF Asks, Goes
    <2> QED BY <1>1, <1>2, <2>4, <2>5, FailingKeeps
  <1>10. CASE ReadPart
    <2>1. \/ enquiry' = With(e, Answered(NextPart(e), host))
          \/ enquiry' = With(e, Unread(NextPart(e)))
      BY <1>5, <1>10 DEF ReadPart, Goes
    <2> QED BY <1>1, <1>8, <2>1
  <1> QED BY <1>9, <1>10

-----------------------------------------------------------------------------
(* Private conversations, and the answer *)

LEMMA PrivateKeeps ==
  ASSUME ReadInv, ReadPrivate PROVE EnquiryInv(enquiry', sources)
  <1> DEFINE e == enquiry
             n == Len(sources)
             I == e.since .. n
             told == [e.done[1] EXCEPT !.private = Today.bound]
             done == [e.done EXCEPT ![1] = told]
             f == [e EXCEPT !.done = done, !.at = "answer"]
  <1>1. Asks("private", Conversations(enquiry)) BY DEF ReadPrivate
  <1>2. "private" \in Seeking \cup Showing BY DEF Showing
  <1>3. /\ e.at = "private" /\ n \in Nat /\ n \in I /\ e.since \in 1 .. n
        /\ Today = sources[n] /\ EnquiryTypes(e) /\ e.answer = "none" /\ Asking(e.of)
        /\ StageInv(e, sources, I)
        /\ enquiry' = Conversations(e) \/ EnquiryInv(enquiry', sources)
    BY <1>1, <1>2, AskedFinds
  <1>4. /\ e.of.private # "none" /\ Len(e.done) = 1 /\ e.draft = <<>> /\ e.todo = <<>>
        /\ Shown(e.of, e.soul, e.done, e.todo, sources, I)
    BY <1>3 DEF StageInv, Showing
  <1>5. e.of.self /\ e.of.view # "summary" BY <1>3, <1>4 DEF Asking, Malformed
  <1>6. /\ e.done \in Seq(SoulRecord) /\ DOMAIN e = ReadFields
        /\ e.todo \in Seq(Identities) /\ e.draft \in Seq(PartRecord)
    BY <1>3 DEF EnquiryTypes
  <1>7. e.done[1] \in SoulRecord BY <1>4, <1>6
  <1>8. Today.bound \in Identities \cup {Unbound}
    <2>1. SourcesInv(sources) /\ n \in 1 .. n BY <1>3 DEF ReadInv
    <2> QED BY <1>3, <2>1, TodayIsSource
  <1>9. /\ told \in SoulRecord /\ told.soul = e.done[1].soul /\ told.parts = e.done[1].parts
        /\ told.private = Today.bound
    BY <1>7, <1>8 DEF SoulRecord
  <1>10. Conversations(e) = IF Today.bound = Unbound THEN Fails(e, "not_found") ELSE f
    BY DEF Conversations
  <1> HIDE DEF told
  <1>11. done \in Seq(SoulRecord) /\ Len(done) = 1 /\ done[1] = told
    BY <1>4, <1>6, <1>9
  <1> HIDE DEF done
  <1>12. /\ DOMAIN f = ReadFields /\ f.at = "answer" /\ f.answer = "none" /\ f.of = e.of
         /\ f.soul = e.soul /\ f.since = e.since /\ f.draft = <<>> /\ f.todo = <<>>
         /\ f.done = done
    BY <1>3, <1>4, <1>6 DEF ReadFields
  <1> HIDE DEF f, I
  <1>13. Shown(f.of, f.soul, f.done, f.todo, sources, I)
    <2>1. PICK m \in Seq(Identities) : Wanted(e.of, e.soul, m, sources, I) /\ Follows(e.done, e.todo, m)
      BY <1>4 DEF Shown
    <2>2. Follows(done, f.todo, m)
      BY <1>4, <1>9, <1>11, <1>12, <2>1 DEF Follows
    <2>3. ItemInv(e.of, e.done[1], sources, I) BY <1>4 DEF Shown
    <2>4. ItemInv(e.of, told, sources, I)
      BY <1>3, <1>4, <1>5, <1>9, <2>3 DEF ItemInv
    <2>5. \A i \in 1 .. Len(done) : ItemInv(e.of, done[i], sources, I) BY <1>11, <2>4
    <2> QED BY <1>12, <2>1, <2>2, <2>5 DEF Shown
  <1>14. EnquiryTypes(f) BY <1>6, <1>11, <1>12 DEF EnquiryTypes, Showing
  <1>15. StageInv(f, sources, I)
    BY <1>12, <1>13 DEF StageInv, Seeking, Showing
  <1>16. I = f.since .. n BY <1>12 DEF I
  <1>17. EnquiryInv(f, sources)
    BY <1>3, <1>12, <1>14, <1>15, <1>16 DEF EnquiryInv, Showing
  <1> QED BY <1>3, <1>10, <1>17, FailingKeeps

LEMMA DeliveringKeeps ==
  ASSUME ReadInv, NEW bytes, Deliver(bytes)
  PROVE  EnquiryInv(enquiry', sources) /\ sources' = sources
  <1> DEFINE e == enquiry
             n == Len(sources)
             f == Closes(e, "ok")
  <1>1. /\ e.at = "answer" /\ sources' = sources
        /\ enquiry' = f \/ enquiry' = Fails(e, "response_too_large")
    BY DEF Deliver, Goes
  <1>2. /\ EnquiryTypes(e) /\ e.since \in 1 .. n /\ n \in Nat
        /\ StageInv(e, sources, e.since .. n)
    BY <1>1 DEF ReadInv, EnquiryInv, SourcesInv, Showing
  <1>3. e.todo = <<>> /\ Shown(e.of, e.soul, e.done, e.todo, sources, e.since .. n)
    BY <1>1, <1>2 DEF StageInv, Showing
  <1>4. f = [e EXCEPT !.at = "done", !.answer = "ok", !.until = n] BY DEF Closes
  <1>5. DOMAIN e = ReadFields BY <1>2 DEF EnquiryTypes
  <1>6. /\ DOMAIN f = ReadFields /\ f.at = "done" /\ f.answer = "ok" /\ f.until = n
        /\ f.of = e.of /\ f.soul = e.soul /\ f.since = e.since /\ f.draft = e.draft
        /\ f.todo = e.todo /\ f.done = e.done
    BY <1>4, <1>5 DEF ReadFields
  <1> HIDE DEF f
  <1>7. EnquiryTypes(f) BY <1>2, <1>6 DEF EnquiryTypes
  <1>8. f.until \in f.since .. n BY <1>2, <1>6
  <1>9. EnquiryInv(f, sources)
    BY <1>2, <1>3, <1>6, <1>7, <1>8 DEF EnquiryInv, Seeking, Showing
  <1> QED BY <1>1, <1>2, <1>9, FailingKeeps

LEMMA ReadStepKeeps == ReadInv /\ [ReadNext]_readVars => ReadInv'
  <1> SUFFICES ASSUME ReadInv, [ReadNext]_readVars PROVE ReadInv'
    OBVIOUS
  <1>1. CASE \/ EnquiryInv(enquiry', sources) /\ sources' = sources
    BY <1>1 DEF ReadInv
  <1>2. CASE \E q \in Enquiries : Begin(q)
    <2>1. EnquiryInv(enquiry', sources) BY <1>2, BeginningKeeps
    <2> QED BY <1>1, <1>2, <2>1 DEF Begin
  <1>3. CASE Project \/ Confirm \/ ReadDomain \/ ResolveName \/ Search \/ ReadPrivate
    <2>1. EnquiryInv(enquiry', sources)
      BY <1>3, ProjectingKeeps, ConfirmingKeeps, DomainKeeps, ResolvingKeeps, SearchingKeeps,
         PrivateKeeps
    <2>2. sources' = sources
      BY <1>3 DEF Project, Confirm, ReadDomain, ResolveName, Search, ReadPrivate, Asks
    <2> QED BY <1>1, <2>1, <2>2
  <1>4. CASE ReadIdentity \/ ReadPart BY <1>1, <1>4, PartsKeep
  <1>5. CASE \E bytes \in Sizes : Deliver(bytes) BY <1>1, <1>5, DeliveringKeeps
  <1>6. CASE Edit
    <2>1. /\ SourcesInv(sources) /\ EnquiryInv(enquiry, sources)
          /\ SourcesInv(sources') /\ Grows(sources, sources') /\ enquiry' = enquiry
      BY <1>6, EditGrows DEF ReadInv
    <2> QED BY <2>1, EnquiryStays DEF ReadInv
  <1>7. CASE UNCHANGED readVars
    BY <1>7 DEF readVars, ReadInv
  <1> QED BY <1>2, <1>3, <1>4, <1>5, <1>6, <1>7 DEF ReadNext

LEMMA ReadInvHolds == ReadInv => SoulReadsHold
  <1> SUFFICES ASSUME ReadInv, enquiry.answer = "ok"
               PROVE  /\ SelfIsConfirmed(enquiry) /\ ShownWereMeant(enquiry)
                      /\ PartsHeld(enquiry) /\ PrivateIsTheActors(enquiry)
    BY DEF SoulReadsHold
  <1> DEFINE e == enquiry
             I == e.since .. e.until
             N == Len(e.done)
  <1>1. /\ EnquiryTypes(e) /\ e.todo = <<>>
        /\ Shown(e.of, e.soul, e.done, e.todo, sources, I)
    BY DEF ReadInv, EnquiryInv
  <1>2. PICK m \in Seq(Identities) : Wanted(e.of, e.soul, m, sources, I) /\ Follows(e.done, e.todo, m)
    BY <1>1 DEF Shown
  <1>3. \A i \in 1 .. N : ItemInv(e.of, e.done[i], sources, I) BY <1>1 DEF Shown
  <1>4. /\ e.done \in Seq(SoulRecord) /\ N \in Nat /\ DOMAIN e.done = 1 .. N
    BY <1>1 DEF EnquiryTypes
  <1>5. Len(m) = N /\ \A i \in 1 .. N : e.done[i].soul = m[i]
    BY <1>1, <1>2, <1>4 DEF Follows
  <1>6. Window(e) = {sources[i] : i \in I} BY DEF Window
  <1>7. SelfIsConfirmed(e)
    <2> SUFFICES ASSUME e.of.self PROVE SelfIsConfirmed(e)
      BY DEF SelfIsConfirmed
    <2>1. m = <<e.soul>> /\ ConfirmedIn(e.of, e.soul, sources, I) BY <1>2 DEF Wanted
    <2>2. e.done[1].soul = e.soul
      <3>1. Len(m) = 1 /\ m[1] = e.soul BY <2>1
      <3> QED BY <1>5, <3>1
    <2> QED BY <2>1, <2>2 DEF SelfIsConfirmed, ConfirmedIn
  <1>8. ShownWereMeant(e)
    <2> SUFFICES ASSUME ~e.of.self
                 PROVE  \E all \in Meanings(e) :
                          [i \in DOMAIN e.done |-> e.done[i].soul] = Cut(e.of, all)
      BY DEF ShownWereMeant, Cut
    <2>1. PICK all \in Seq(Identities) : MeantIn(e.of, all, sources, I) /\ m = Cut(e.of, all)
      BY <1>2 DEF Wanted
    <2>2. [i \in DOMAIN e.done |-> e.done[i].soul] = m
      <3>1. m = [i \in 1 .. Len(m) |-> m[i]] OBVIOUS
      <3> QED BY <1>4, <1>5, <3>1
    <2>3. all \in Meanings(e)
      <3>1. CASE e.of.query.kind = "agent"
        BY <2>1, <3>1 DEF Meanings, MeantIn
      <3>2. CASE e.of.query.kind = "ens"
        BY <1>6, <2>1, <3>2 DEF Meanings, MeantIn
      <3>3. CASE e.of.query.kind = "local"
        <4>1. PICK domain \in Domains : DomainIn(domain, sources, I)
                                        /\ \E i \in I : all = sources[i].found[domain]
          BY <2>1, <3>3 DEF MeantIn
        <4>2. PICK i \in I, j \in I : /\ sources[j].projected # Unbound
                                      /\ domain = sources[i].host[sources[j].projected].domain
          BY <4>1 DEF DomainIn
        <4>3. PICK k \in I : all = sources[k].found[domain] BY <4>1
        <4>4. i \in 1 .. Len(sources) /\ k \in 1 .. Len(sources)
          <5>1. e.since \in 1 .. Len(sources) /\ e.until \in e.since .. Len(sources)
            BY DEF ReadInv, EnquiryInv
          <5>2. Len(sources) \in Nat BY DEF ReadInv, SourcesInv
          <5> QED BY <5>1, <5>2
        <4>5. sources[k].found = sources[i].found BY <4>4 DEF ReadInv, SourcesInv
        <4>6. all = sources[i].found[sources[i].host[sources[j].projected].domain]
          BY <4>2, <4>3, <4>5
        <4>7. sources[i] \in Window(e) /\ sources[j] \in {v \in Window(e) : v.projected # Unbound}
          BY <1>6, <4>2
        <4>8. PICK w \in Window(e), v \in {v \in Window(e) : v.projected # Unbound} :
                all = w.found[w.host[v.projected].domain]
          BY <4>6, <4>7
        <4> QED BY <3>3, <4>8 DEF Meanings
      <3>4. CASE e.of.query.kind \notin {"agent", "ens", "local"}
        BY <1>6, <2>1, <3>4 DEF Meanings, MeantIn
      <3> QED BY <3>1, <3>2, <3>3, <3>4
    <2> QED BY <2>1, <2>2, <2>3
  <1>9. PartsHeld(e)
    <2> SUFFICES ASSUME NEW i \in 1 .. N
                 PROVE  LET parts == e.done[i].parts IN
                        /\ \A k \in DOMAIN parts : parts[k].version # NoBlock =>
                             \E w \in Window(e) :
                               LET host == w.host[e.done[i].soul]
                               IN /\ host.version = parts[k].version
                                  /\ parts[k].part \in host.holds \cup
                                       (IF "registration" \in host.holds THEN host.declares ELSE {})
                        /\ \A k, n \in DOMAIN parts :
                             /\ k < n /\ k <= 2 /\ parts[n].version # NoBlock
                                  => parts[k].version <= parts[n].version
                             /\ parts[n].part \in parts[k].declares => parts[n].version # NoBlock
      BY <1>4 DEF PartsHeld
    <2> DEFINE parts == e.done[i].parts
               s == e.done[i].soul
    <2>1. PartsInv(s, parts, sources, I) BY <1>3 DEF ItemInv
    <2>2. DOMAIN parts = 1 .. Len(parts)
      <3>1. e.done[i] \in SoulRecord BY <1>4
      <3>2. parts \in Seq(PartRecord) BY <3>1 DEF SoulRecord
      <3> QED BY <3>2
    <2> HIDE DEF parts, s
    <2>3. ASSUME NEW k \in DOMAIN parts, parts[k].version # NoBlock
          PROVE  \E w \in Window(e) :
                   /\ w.host[s].version = parts[k].version
                   /\ parts[k].part \in w.host[s].holds \cup
                        (IF "registration" \in w.host[s].holds THEN w.host[s].declares ELSE {})
      <3>1. PublishedIn(s, parts[k], sources, I) BY <2>1, <2>2 DEF PartsInv
      <3>2. PICK j \in I : /\ sources[j].host[s].version = parts[k].version
                           /\ parts[k].part \in sources[j].host[s].holds \cup
                                (IF "registration" \in sources[j].host[s].holds
                                 THEN sources[j].host[s].declares ELSE {})
        BY <2>3, <3>1 DEF PublishedIn
      <3>3. sources[j] \in Window(e) BY <1>6
      <3> QED BY <3>2, <3>3
    <2> QED BY <2>1, <2>2, <2>3 DEF PartsInv, parts, s
  <1>10. PrivateIsTheActors(e)
    BY <1>3, <1>4, <1>6 DEF PrivateIsTheActors, ItemInv
  <1> QED BY <1>7, <1>8, <1>9, <1>10

\* An answer of soul_read or identity_lookup shows the souls that were meant,
\* in order, an owner's own only as Lesser has confirmed it; what was published
\* of them, no part older than the identity before it; and no private
\* conversation but of the soul bound to the actor -- however often the sources
\* change between its requests and whichever of them fail
\* (soul_read_tools.go:576-655, identity_tools.go:104-149).
THEOREM SoulReadsAlwaysHold == ReadSpec => []SoulReadsHold
  <1> QED BY ReadStarts, ReadStepKeeps, ReadInvHolds, PTL DEF ReadSpec

=============================================================================
