-------------------------- MODULE ActorRequestProofs --------------------------
(***************************************************************************)
(* ActorRequest for any number of concurrent requests, every set of        *)
(* guests, grants and requests, and any number of changes of the binding   *)
(* and of the shares.  The inductive invariant says what each gate leaves  *)
(* behind for the gates after it, and counts the runs that a grant's       *)
(* holder is still owed.                                                   *)
(*                                                                         *)
(* Below: NotificationFeed and SocialInbox, each under a heading with its  *)
(* argument.                                                               *)
(***************************************************************************)
EXTENDS ActorRequest, NotificationFeed, SocialInbox, FiniteSetTheorems,
        FunctionTheorems, TLAPS

Call == [at : Stages, req : Requests,
         via : {"none", "oauth", "key", "paid", "pending"},
         share : Guests \cup {NoOne}, agent : {"soul", "actor"},
         attempt : {1, 2}, next : {1, 2, 3}, runs : [1 .. 2 -> Nat],
         answer : Answers, spent : BOOLEAN, excused : BOOLEAN, everBound : BOOLEAN]

BindingAs(b) == IF b THEN "soul" ELSE "none"

GrantOf(r) == r.req.cred.grant

RanNothing(r) == \A i \in 1 .. 2 : r.runs[i] = 0

\* Stages that a request has before it is in the runtime.
Outside(r) == r.at \in Stages \ {"run", "done"}

\* Stages that only an admitted request reaches.
Inside(r) == r.at \in {"policy", "dispatch", "rebind", "run"}

\* What has run is what stands before the next item.
RunsHold(r) ==
  /\ Outside(r) => RanNothing(r)
  /\ r.at = "run" => /\ r.next <= Len(r.req.items) + 1
                     /\ \A i \in 1 .. 2 : r.runs[i] = IF i < r.next THEN 1 ELSE 0
  /\ \A i \in 1 .. 2 : r.runs[i] <= 1
  /\ r.answer = "refused" => RanNothing(r)
  /\ r.at # "done" => r.answer = "none"

\* Whoever may speak for a soul was served while there was one.
SoulHolds(r, b) ==
  /\ InFlight(r) /\ b => r.everBound
  /\ r.at \in {"dispatch", "rebind", "run"} \/ ~RanNothing(r)
       => ("email_send" \in ToolsOf(r.req) => r.everBound)

\* An admitted token is the owner's, or a guest's that carries its marker.
ShareHolds(r) ==
  /\ ~Inside(r) /\ r.at # "done" => r.share = NoOne
  /\ r.via = "oauth" /\ Inside(r) =>
       \/ r.req.cred.human = Owner /\ r.share = NoOne
       \/ r.req.cred.human \in Guests /\ r.share = r.req.cred.human

\* A paid request is one call of the tool that its grant was sold for.
IsPaid(r) == InFlight(r) /\ r.via = "paid"

Buys(r, b) ==
  /\ r.agent = ExpectedAgent(BindingAs(b))
  /\ ToolAllowed(Resolve(BindingAs(b)), r.req.items[1])

PaidHolds(r, b) ==
  /\ r.at \in {"idle", "auth", "consume"} => ~r.spent /\ r.via = "none"
  /\ r.at = "consume" \/ IsPaid(r) =>
       /\ r.req.cred.kind = "grant"
       /\ Len(r.req.items) = 1 /\ r.req.items[1] \in Tools
       /\ ~r.excused => Buys(r, b)
  /\ r.at = "rebind" => r.via = "oauth"
  /\ IsPaid(r) => /\ HostAccepts(GrantOf(r), r)
                  /\ r.at \in {"admit", "policy", "dispatch", "run"}
  /\ InFlight(r) /\ r.spent => r.via = "paid"
  /\ r.at = "done" /\ r.spent /\ ~r.excused => r.runs[1] = 1

CallHolds(r, b) ==
  /\ r \in Call
  /\ RunsHold(r)
  /\ SoulHolds(r, b)
  /\ ShareHolds(r)
  /\ PaidHolds(r, b)

\* The calls whose grant g has been spent and whose tool has not run.
IsOwed(r, g) == IsPaid(r) /\ GrantOf(r) = g /\ r.runs[1] = 0

Owed(g) == {c \in Calls : IsOwed(call[c], g)}

Bought(g) ==
  /\ paidRuns[g] \in Nat
  /\ IsFiniteSet(keys[g])
  /\ paidRuns[g] + Cardinality(Owed(g)) <= Cardinality(keys[g])

AccountsHold == /\ DOMAIN keys = Grants /\ DOMAIN paidRuns = Grants
                /\ \A g \in Grants : Bought(g)

RequestInv == /\ DOMAIN call = Calls
              /\ \A c \in Calls : CallHolds(call[c], bound)
              /\ bound \in BOOLEAN /\ shares \subseteq Guests
              /\ AccountsHold

USE DEF Stages, Answers, InFlight

-----------------------------------------------------------------------------
LEMMA ItemsAreFew ==
  ASSUME NEW req \in Requests
  PROVE  /\ req.items \in Seq(Items) /\ Len(req.items) \in 0 .. 2
         /\ req.cred.kind = "grant" => req.cred.grant \in Grants /\ req.route = "agent"
  <1>1. req.items \in Seq(Items) /\ Len(req.items) <= 2
    BY RequestsAssumption
  <1>2. Len(req.items) \in Nat
    BY <1>1
  <1>3. \A n \in Nat : n <= 2 => n \in 0 .. 2
    OBVIOUS
  <1>4. req.cred.kind = "grant" => req.cred.grant \in Grants /\ req.route = "agent"
    BY RequestsAssumption
  <1> QED BY <1>1, <1>2, <1>3, <1>4

LEMMA VacantHolds == ASSUME NEW b \in BOOLEAN PROVE CallHolds(Vacant, b)
  <1>1. Vacant.req \in Requests
    BY RequestsAssumption DEF Vacant
  <1>2. Vacant \in Call
    BY <1>1 DEF Vacant, Call
  <1> QED BY <1>2 DEF CallHolds, Vacant, RunsHold, RanNothing, Outside, SoulHolds, ShareHolds,
             Inside, PaidHolds, IsPaid

LEMMA InitInv == Init => RequestInv
  <1> SUFFICES ASSUME Init PROVE RequestInv
    OBVIOUS
  <1>1. \A c \in Calls : CallHolds(call[c], bound)
    BY VacantHolds DEF Init
  <1>2. ASSUME NEW g \in Grants PROVE Bought(g)
    <2>1. Owed(g) = {}
      BY DEF Init, Owed, IsOwed, IsPaid, Vacant
    <2> QED BY <2>1, FS_EmptySet DEF Bought, Init
  <1> QED BY <1>1, <1>2 DEF RequestInv, AccountsHold, Init

-----------------------------------------------------------------------------
(* A step of one call *)

\* A call is owed nothing new: the accounts stay in balance.
LEMMA NothingNewOwed ==
  ASSUME RequestInv, NEW c \in Calls, NEW r, Step(c, r), UNCHANGED <<keys, paidRuns>>,
         \A g \in Grants : IsOwed(r, g) => IsOwed(call[c], g)
  PROVE  AccountsHold'
  <1> SUFFICES ASSUME NEW g \in Grants PROVE Bought(g)'
    BY DEF AccountsHold, RequestInv
  <1>1. Owed(g)' \subseteq Owed(g)
    BY DEF Owed, Step, RequestInv
  <1>2. IsFiniteSet(Owed(g))
    BY CallsAssumption, FS_Subset DEF Owed
  <1>3. Cardinality(Owed(g)') <= Cardinality(Owed(g)) /\ Cardinality(Owed(g)') \in Nat
    BY <1>1, <1>2, FS_Subset, FS_CardinalityType
  <1>4. Cardinality(Owed(g)) \in Nat /\ (Cardinality(keys[g]) \in Nat)
    BY <1>2, FS_CardinalityType DEF RequestInv, AccountsHold, Bought
  <1> QED BY <1>3, <1>4 DEF RequestInv, AccountsHold, Bought

LEMMA StepKeepsInv ==
  ASSUME RequestInv, NEW c \in Calls, NEW r, CallHolds(r, bound), Step(c, r),
         UNCHANGED worldVars, AccountsHold'
  PROVE  RequestInv'
  BY DEF RequestInv, Step, worldVars

LEMMA QuietKeepsInv ==
  ASSUME RequestInv, NEW c \in Calls, NEW r, CallHolds(r, bound), Step(c, r),
         UNCHANGED worldVars, UNCHANGED <<keys, paidRuns>>,
         \A g \in Grants : IsOwed(r, g) => IsOwed(call[c], g)
  PROVE  RequestInv'
  BY NothingNewOwed, StepKeepsInv

\* A refused call ran nothing, and is owed nothing.
LEMMA RefusedHolds ==
  ASSUME NEW b, NEW r, CallHolds(r, b), Outside(r), r.spent => r.excused
  PROVE  CallHolds(Refused(r), b) /\ \A g \in Grants : ~IsOwed(Refused(r), g)
  <1> DEFINE q == Refused(r)
  <1>1. /\ q \in Call /\ q.at = "done" /\ q.answer = "refused" /\ q.runs = r.runs
        /\ q.spent = r.spent /\ q.excused = r.excused
    BY DEF CallHolds, Call, Refused
  <1> HIDE DEF q
  <1>2. RunsHold(q) /\ RanNothing(q)
    BY <1>1 DEF CallHolds, RunsHold, RanNothing, Outside, Call
  <1>3. SoulHolds(q, b) /\ ShareHolds(q)
    BY <1>1, <1>2 DEF SoulHolds, ShareHolds, Inside
  <1>4. PaidHolds(q, b)
    BY <1>1 DEF PaidHolds, IsPaid
  <1>5. CallHolds(q, b) /\ \A g \in Grants : ~IsOwed(q, g)
    BY <1>1, <1>2, <1>3, <1>4 DEF CallHolds, IsOwed, IsPaid
  <1> QED BY <1>5 DEF q

-----------------------------------------------------------------------------
(* What a gate makes of a call *)

\* A call that goes from one gate to the next before the runtime.
LEMMA MovesOn ==
  ASSUME NEW b, NEW r, CallHolds(r, b), Outside(r), NEW q \in Call,
         q.req = r.req, q.runs = r.runs, q.answer = r.answer, q.everBound = r.everBound,
         Outside(q), InFlight(q), b => q.everBound,
         q.at \in {"dispatch", "rebind"} /\ "email_send" \in ToolsOf(q.req) => q.everBound,
         ShareHolds(q), PaidHolds(q, b)
  PROVE  CallHolds(q, b)
  <1>1. RunsHold(q)
    BY DEF CallHolds, RunsHold, RanNothing, Outside
  <1>2. SoulHolds(q, b)
    BY <1>1 DEF SoulHolds, RunsHold, Outside
  <1> QED BY <1>1, <1>2 DEF CallHolds

LEMMA ArriveKeepsInv ==
  ASSUME RequestInv, NEW c \in Calls, Arrive(c)
  PROVE  RequestInv'
  <1> PICK req \in Requests :
        Step(c, [Vacant EXCEPT !.at = "auth", !.req = req, !.everBound = bound])
    BY DEF Arrive
  <1> DEFINE q == [Vacant EXCEPT !.at = "auth", !.req = req, !.everBound = bound]
  <1>1. Vacant \in Call /\ Vacant.via = "none" /\ Vacant.spent = FALSE /\ Vacant.answer = "none"
        /\ Vacant.share = NoOne /\ RanNothing(Vacant)
    BY VacantHolds DEF CallHolds, RequestInv, Vacant, RanNothing
  <1>2. /\ q \in Call /\ q.at = "auth" /\ q.req = req /\ q.everBound = bound
        /\ q.via = "none" /\ q.spent = FALSE /\ q.answer = "none" /\ q.share = NoOne
        /\ q.runs = Vacant.runs
    BY <1>1 DEF Call, RequestInv
  <1>3. Step(c, q)
    OBVIOUS
  <1> HIDE DEF q
  <1>4. CallHolds(q, bound)
    BY <1>1, <1>2 DEF CallHolds, RunsHold, RanNothing, Outside, SoulHolds, ShareHolds, Inside,
                     PaidHolds, IsPaid
  <1>5. \A g \in Grants : ~IsOwed(q, g)
    BY <1>2 DEF IsOwed, IsPaid
  <1> QED BY <1>3, <1>4, <1>5, QuietKeepsInv DEF Arrive

LEMMA AuthBearerKeepsInv ==
  ASSUME RequestInv, NEW c \in Calls, AuthBearer(c)
  PROVE  RequestInv'
  <1> DEFINE r == call[c]
             q == [r EXCEPT !.at = "admit", !.via = AuthenticatesAs(r.req.cred)]
  <1>1. /\ CallHolds(r, bound) /\ r.at = "auth" /\ UNCHANGED worldVars
        /\ UNCHANGED <<keys, paidRuns>> /\ r.req.cred.kind # "grant"
    BY DEF AuthBearer, RequestInv
  <1>2. \/ Step(c, Refused(r))
        \/ AuthenticatesAs(r.req.cred) # "none" /\ Step(c, q)
    BY DEF AuthBearer
  <1>3. CASE Step(c, Refused(r))
    <2>1. Outside(r) /\ ~r.spent
      BY <1>1 DEF Outside, CallHolds, PaidHolds
    <2> QED BY <1>1, <1>3, <2>1, RefusedHolds, QuietKeepsInv
  <1>4. CASE AuthenticatesAs(r.req.cred) # "none" /\ Step(c, q)
    <2>1. AuthenticatesAs(r.req.cred) \in {"oauth", "key"}
      BY <1>4 DEF AuthenticatesAs
    <2>2. /\ q \in Call /\ q.at = "admit" /\ q.via \in {"oauth", "key"} /\ q.req = r.req
          /\ q.runs = r.runs /\ q.answer = r.answer /\ q.everBound = r.everBound
          /\ q.share = r.share /\ q.spent = r.spent
      BY <1>1, <2>1 DEF Call, CallHolds
    <2> HIDE DEF q
    <2>3. ShareHolds(q) /\ PaidHolds(q, bound)
      BY <1>1, <2>2 DEF CallHolds, ShareHolds, Inside, PaidHolds, IsPaid
    <2>4. CallHolds(q, bound)
      BY <1>1, <2>2, <2>3, MovesOn DEF Outside, CallHolds, SoulHolds
    <2>5. \A g \in Grants : ~IsOwed(q, g)
      BY <2>2 DEF IsOwed, IsPaid
    <2> QED BY <1>1, <1>4, <2>4, <2>5, QuietKeepsInv
  <1> QED BY <1>2, <1>3, <1>4

LEMMA BindingTyped == RequestInv => Binding = BindingAs(bound)
  BY DEF Binding, BindingAs

\* What a gate makes of a binding that could not be read: it is excused.
Excused(r) == [r EXCEPT !.excused = TRUE]

LEMMA ExcusedHolds ==
  ASSUME NEW b, NEW r, CallHolds(r, b), r.at # "done"
  PROVE  /\ CallHolds(Excused(r), b) /\ Excused(r).at = r.at /\ Excused(r).via = r.via
         /\ Excused(r).excused = TRUE
         /\ \A g \in Grants : IsOwed(Excused(r), g) <=> IsOwed(r, g)
  <1> DEFINE q == Excused(r)
  <1>1. /\ q \in Call /\ q.excused = TRUE
        /\ q.at = r.at /\ q.req = r.req /\ q.via = r.via /\ q.share = r.share
        /\ q.agent = r.agent /\ q.next = r.next /\ q.runs = r.runs /\ q.answer = r.answer
        /\ q.spent = r.spent /\ q.everBound = r.everBound
    BY DEF CallHolds, Call, Excused
  <1> HIDE DEF q
  <1>2. RunsHold(q) /\ SoulHolds(q, b) /\ ShareHolds(q)
    BY <1>1 DEF CallHolds, RunsHold, RanNothing, Outside, SoulHolds, ShareHolds, Inside
  <1>3. PaidHolds(q, b)
    BY <1>1 DEF CallHolds, PaidHolds, IsPaid, HostAccepts, GrantOf
  <1>4. \A g \in Grants : IsOwed(q, g) <=> IsOwed(r, g)
    BY <1>1 DEF IsOwed, IsPaid, GrantOf
  <1>5. CallHolds(q, b) /\ q.at = r.at /\ q.via = r.via /\ q.excused = TRUE
    BY <1>1, <1>2, <1>3 DEF CallHolds
  <1> QED BY <1>4, <1>5 DEF q

\* What the paid precheck makes of the binding that is there, or of none it could read.
LEMMA PrecheckHolds ==
  ASSUME NEW b \in BOOLEAN, NEW r, CallHolds(r, b), r.at = "auth",
         r.req.cred.kind = "grant",
         NEW seen, seen = BindingAs(b) \/ r.excused
  PROVE  /\ CallHolds(PaidPrecheck(r, seen), b)
         /\ \A g \in Grants : ~IsOwed(PaidPrecheck(r, seen), g)
  <1> DEFINE p == [r EXCEPT !.at = "admit", !.via = "pending"]
             q == [r EXCEPT !.at = "consume", !.agent = ExpectedAgent(seen)]
  <1>1. \/ PaidPrecheck(r, seen) = Refused(r)
        \/ PaidPrecheck(r, seen) = p
        \/ /\ PaidPrecheck(r, seen) = q
           /\ Len(r.req.items) = 1 /\ r.req.items[1] \in Tools
           /\ ToolAllowed(Resolve(seen), r.req.items[1])
    BY DEF PaidPrecheck, IsTool
  <1>2. /\ r \in Call /\ Outside(r) /\ ~r.spent /\ r.via = "none" /\ r.share = NoOne
        /\ b => r.everBound
    BY DEF Outside, CallHolds, PaidHolds, ShareHolds, Inside, SoulHolds
  <1>3. CASE PaidPrecheck(r, seen) = Refused(r)
    BY <1>2, <1>3, RefusedHolds
  <1>4. CASE PaidPrecheck(r, seen) = p
    <2>1. /\ p \in Call /\ p.at = "admit" /\ p.via = "pending" /\ p.req = r.req
          /\ p.runs = r.runs /\ p.answer = r.answer /\ p.everBound = r.everBound
          /\ p.share = r.share /\ p.spent = r.spent
      BY <1>2 DEF Call
    <2> HIDE DEF p
    <2>2. ShareHolds(p) /\ PaidHolds(p, b) /\ Outside(p)
      BY <1>2, <2>1 DEF ShareHolds, Inside, PaidHolds, IsPaid, Outside
    <2>3. CallHolds(p, b)
      BY <1>2, <2>1, <2>2, MovesOn
    <2> QED BY <1>4, <2>1, <2>3 DEF IsOwed, IsPaid
  <1>5. CASE /\ PaidPrecheck(r, seen) = q
             /\ Len(r.req.items) = 1 /\ r.req.items[1] \in Tools
             /\ ToolAllowed(Resolve(seen), r.req.items[1])
    <2>1. ExpectedAgent(seen) \in {"soul", "actor"}
      BY DEF ExpectedAgent
    <2>2. /\ q \in Call /\ q.at = "consume" /\ q.via = "none" /\ q.req = r.req
          /\ q.runs = r.runs /\ q.answer = r.answer /\ q.everBound = r.everBound
          /\ q.share = r.share /\ q.spent = r.spent /\ q.excused = r.excused
          /\ q.agent = ExpectedAgent(seen)
      BY <1>2, <2>1 DEF Call
    <2> HIDE DEF q
    <2>3. ~q.excused => Buys(q, b)
      BY <1>5, <2>2 DEF Buys
    <2>4. ShareHolds(q) /\ PaidHolds(q, b) /\ Outside(q)
      BY <1>2, <1>5, <2>2, <2>3 DEF ShareHolds, Inside, PaidHolds, IsPaid, Outside
    <2>5. CallHolds(q, b)
      BY <1>2, <2>2, <2>4, MovesOn
    <2> QED BY <1>5, <2>2, <2>5 DEF IsOwed, IsPaid
  <1> QED BY <1>1, <1>3, <1>4, <1>5

LEMMA AuthPaidKeepsInv ==
  ASSUME RequestInv, NEW c \in Calls, AuthPaid(c)
  PROVE  RequestInv'
  <1> DEFINE r == call[c]
  <1>1. /\ CallHolds(r, bound) /\ r.at = "auth" /\ r.req.cred.kind = "grant"
        /\ UNCHANGED worldVars /\ UNCHANGED <<keys, paidRuns>> /\ bound \in BOOLEAN
    BY DEF AuthPaid, RequestInv
  <1>2. \/ Step(c, PaidPrecheck(r, BindingAs(bound)))
        \/ Step(c, PaidPrecheck(Excused(r), "unreadable"))
    BY BindingTyped DEF AuthPaid, ReadBinding, Excused
  <1>3. /\ CallHolds(Excused(r), bound) /\ Excused(r).at = "auth" /\ Excused(r).excused
        /\ Excused(r).req.cred.kind = "grant"
    BY <1>1, ExcusedHolds DEF Excused, CallHolds, Call
  <1> QED BY <1>1, <1>2, <1>3, PrecheckHolds, QuietKeepsInv

-----------------------------------------------------------------------------
(* The Host's consume call *)

\* What the Host has been told of a call that it spent its grant for.
Charged(r, spends, excused) == [r EXCEPT !.spent = spends, !.excused = excused]

LEMMA ChargedFields ==
  ASSUME NEW b, NEW r, CallHolds(r, b), NEW spends \in BOOLEAN, NEW excused \in BOOLEAN
  PROVE  LET q == Charged(r, spends, excused) IN
         /\ q \in Call /\ q.spent = spends /\ q.excused = excused
         /\ q.at = r.at /\ q.req = r.req /\ q.via = r.via /\ q.share = r.share
         /\ q.agent = r.agent /\ q.runs = r.runs /\ q.answer = r.answer
         /\ q.everBound = r.everBound
  BY DEF CallHolds, Call, Charged

\* A call that ends at the Host ran nothing; if its grant is spent, it has an excuse.
LEMMA ChargedRefusedHolds ==
  ASSUME NEW b, NEW r, CallHolds(r, b), r.at = "consume", NEW spends \in BOOLEAN,
         NEW excused \in BOOLEAN, spends => excused
  PROVE  /\ CallHolds(Refused(Charged(r, spends, excused)), b)
         /\ \A g \in Grants : ~IsOwed(Refused(Charged(r, spends, excused)), g)
  <1> DEFINE q == Charged(r, spends, excused)
             p == Refused(q)
  <1>1. /\ q \in Call /\ q.spent = spends /\ q.excused = excused
        /\ q.at = "consume" /\ q.req = r.req /\ q.via = r.via /\ q.share = r.share
        /\ q.runs = r.runs /\ q.everBound = r.everBound
    BY ChargedFields
  <1> HIDE DEF q
  <1>2. /\ p \in Call /\ p.at = "done" /\ p.answer = "refused" /\ p.runs = r.runs
        /\ p.spent = spends /\ p.excused = excused
    BY <1>1 DEF Refused, Call
  <1> HIDE DEF p
  <1>3. RanNothing(p) /\ RunsHold(p)
    BY <1>2 DEF CallHolds, RunsHold, RanNothing, Outside, Call
  <1>4. SoulHolds(p, b) /\ ShareHolds(p) /\ PaidHolds(p, b)
    BY <1>2, <1>3 DEF SoulHolds, ShareHolds, Inside, PaidHolds, IsPaid
  <1>5. CallHolds(p, b) /\ \A g \in Grants : ~IsOwed(p, g)
    BY <1>2, <1>3, <1>4 DEF CallHolds, IsOwed, IsPaid
  <1> QED BY <1>5 DEF p, q

\* A call whose grant was spent and accepted is admitted as a paid one.
LEMMA ChargedPaidHolds ==
  ASSUME NEW b, NEW r, CallHolds(r, b), r.at = "consume", NEW excused \in BOOLEAN,
         r.excused => excused, HostAccepts(GrantOf(r), r)
  PROVE  LET p == [Charged(r, TRUE, excused) EXCEPT !.at = "admit", !.via = "paid"] IN
         CallHolds(p, b) /\ p.req = r.req
  <1> DEFINE q == Charged(r, TRUE, excused)
             p == [q EXCEPT !.at = "admit", !.via = "paid"]
  <1>1. /\ q \in Call /\ q.spent = TRUE /\ q.excused = excused
        /\ q.req = r.req /\ q.share = r.share /\ q.agent = r.agent
        /\ q.runs = r.runs /\ q.answer = r.answer /\ q.everBound = r.everBound
    BY DEF CallHolds, Call, Charged
  <1> HIDE DEF q
  <1>2. /\ p \in Call /\ p.at = "admit" /\ p.via = "paid" /\ p.req = r.req
        /\ p.share = r.share /\ p.agent = r.agent /\ p.runs = r.runs
        /\ p.answer = r.answer /\ p.spent = TRUE /\ p.excused = excused
        /\ p.everBound = r.everBound
    BY <1>1 DEF Call
  <1> HIDE DEF p
  <1>3. /\ Outside(r) /\ Outside(p) /\ r.share = NoOne /\ (b => r.everBound)
    BY <1>2 DEF Outside, CallHolds, ShareHolds, Inside, SoulHolds
  <1>4. HostAccepts(GrantOf(p), p)
    BY <1>2 DEF HostAccepts, GrantOf
  <1>5. ~p.excused => Buys(p, b)
    BY <1>2 DEF CallHolds, PaidHolds, Buys
  <1>6. ShareHolds(p) /\ PaidHolds(p, b)
    BY <1>2, <1>3, <1>4, <1>5 DEF ShareHolds, Inside, CallHolds, PaidHolds, IsPaid
  <1>7. CallHolds(p, b)
    BY <1>2, <1>3, <1>6, MovesOn
  <1> QED BY <1>2, <1>7 DEF p, q

\* One more consumed request pays for one more call that is owed its run.
LEMMA OneMoreOwed ==
  ASSUME RequestInv, NEW c \in Calls, NEW r, Step(c, r), NEW g \in Grants, NEW x,
         x \notin keys[g], keys' = [keys EXCEPT ![g] = @ \cup {x}], UNCHANGED paidRuns,
         \A h \in Grants \ {g} : ~IsOwed(r, h)
  PROVE  AccountsHold'
  <1>1. \A h \in Grants : Owed(h) \subseteq Calls /\ IsFiniteSet(Owed(h))
    BY CallsAssumption, FS_Subset DEF Owed
  <1>2. ASSUME NEW h \in Grants, h # g PROVE Bought(h)'
    <2>1. Owed(h)' \subseteq Owed(h)
      BY <1>2 DEF Owed, Step, RequestInv
    <2>2. /\ Cardinality(Owed(h)') <= Cardinality(Owed(h)) /\ Cardinality(Owed(h)') \in Nat
          /\ Cardinality(Owed(h)) \in Nat
      BY <1>1, <2>1, FS_Subset, FS_CardinalityType
    <2>3. keys'[h] = keys[h] /\ Cardinality(keys[h]) \in Nat
      BY <1>2, FS_CardinalityType DEF RequestInv, AccountsHold, Bought
    <2> QED BY <2>2, <2>3 DEF RequestInv, AccountsHold, Bought
  <1>3. Bought(g)'
    <2>1. Owed(g)' \subseteq Owed(g) \cup {c}
      BY DEF Owed, Step, RequestInv
    <2>2. /\ IsFiniteSet(Owed(g) \cup {c})
          /\ Cardinality(Owed(g) \cup {c}) <= Cardinality(Owed(g)) + 1
          /\ Cardinality(Owed(g)) \in Nat /\ Cardinality(Owed(g) \cup {c}) \in Nat
      <3>1. /\ IsFiniteSet(Owed(g) \cup {c})
            /\ Cardinality(Owed(g) \cup {c})
                 = IF c \in Owed(g) THEN Cardinality(Owed(g)) ELSE Cardinality(Owed(g)) + 1
        BY <1>1, FS_AddElement
      <3>2. Cardinality(Owed(g)) \in Nat
        BY <1>1, FS_CardinalityType
      <3> QED BY <3>1, <3>2
    <2>3. Cardinality(Owed(g)') <= Cardinality(Owed(g) \cup {c}) /\ Cardinality(Owed(g)') \in Nat
      BY <2>1, <2>2, FS_Subset, FS_CardinalityType
    <2>4. /\ keys'[g] = keys[g] \cup {x} /\ IsFiniteSet(keys[g])
          /\ Cardinality(keys[g]) \in Nat
      BY FS_CardinalityType DEF RequestInv, AccountsHold, Bought
    <2>5. IsFiniteSet(keys'[g]) /\ Cardinality(keys'[g]) = Cardinality(keys[g]) + 1
      BY <2>4, FS_AddElement
    <2> QED BY <2>2, <2>3, <2>4, <2>5 DEF RequestInv, AccountsHold, Bought
  <1> QED BY <1>2, <1>3 DEF RequestInv, AccountsHold

\* The request is new to the Host, or the accounts stay as they are.
LEMMA SpendKeepsInv ==
  ASSUME RequestInv, NEW c \in Calls, NEW r, CallHolds(r, bound), Step(c, r),
         UNCHANGED worldVars, UNCHANGED paidRuns,
         NEW g \in Grants, NEW x,
         \/ keys' = keys /\ \A h \in Grants : ~IsOwed(r, h)
         \/ /\ x \notin keys[g] /\ keys' = [keys EXCEPT ![g] = @ \cup {x}]
            /\ \A h \in Grants \ {g} : ~IsOwed(r, h)
  PROVE  RequestInv'
  BY NothingNewOwed, OneMoreOwed, StepKeepsInv

LEMMA ConsumeKeepsInv ==
  ASSUME RequestInv, NEW c \in Calls, Consume(c)
  PROVE  RequestInv'
  <1> DEFINE r == call[c]
             g == GrantOf(r)
             spends == HostAccepts(g, r) /\ r.req.items \notin keys[g]
             short == r.excused \/ ~GrantCovers(Issued[g].scope, Issued[g].tool)
             keysNow == IF spends THEN [keys EXCEPT ![g] = @ \cup {r.req.items}] ELSE keys
  <1>1. /\ CallHolds(r, bound) /\ r.at = "consume" /\ Outside(r) /\ r \in Call
        /\ UNCHANGED worldVars /\ UNCHANGED paidRuns
    BY DEF Consume, RequestInv, CallHolds, Outside
  <1>2. r.req \in Requests /\ r.req.cred.kind = "grant" /\ ~r.spent /\ r.excused \in BOOLEAN
    BY <1>1 DEF CallHolds, PaidHolds, Call
  <1>3. g \in Grants
    BY <1>2, ItemsAreFew DEF GrantOf
  <1>4. \/ /\ Step(c, IF HostAccepts(g, r)
                     THEN Consumed(g, Charged(r, spends, short), r.req.items \in keys[g])
                     ELSE Refused(r))
           /\ keys' = keysNow
        \/ Step(c, Refused(Charged(r, spends, TRUE))) /\ keys' = keysNow
        \/ Step(c, Refused(r)) /\ keys' = keys
    <2>1. [[r EXCEPT !.spent = spends, !.excused = short] EXCEPT !.excused = TRUE]
            = Charged(r, spends, TRUE)
      BY <1>1 DEF Charged, Call
    <2> QED BY <2>1 DEF Consume, Charged, GrantOf
  <1> DEFINE charged == Charged(r, spends, short)
             paid == [charged EXCEPT !.at = "admit", !.via = "paid"]
  <1>5. CASE Step(c, Refused(r)) /\ keys' = keys
    BY <1>1, <1>2, <1>3, <1>5, RefusedHolds, SpendKeepsInv
  <1>6. CASE Step(c, Refused(Charged(r, spends, TRUE))) /\ keys' = keysNow
    <2>1. /\ CallHolds(Refused(Charged(r, spends, TRUE)), bound)
          /\ \A h \in Grants : ~IsOwed(Refused(Charged(r, spends, TRUE)), h)
      BY <1>1, ChargedRefusedHolds
    <2> QED BY <1>1, <1>3, <1>6, <2>1, SpendKeepsInv
  <1>7. CASE HostAccepts(g, r) /\ Step(c, Refused(charged)) /\ keys' = keysNow
             /\ (spends => short)
    <2>1. /\ CallHolds(Refused(charged), bound)
          /\ \A h \in Grants : ~IsOwed(Refused(charged), h)
      BY <1>1, <1>2, <1>7, ChargedRefusedHolds
    <2> QED BY <1>1, <1>3, <1>7, <2>1, SpendKeepsInv
  <1>8. CASE spends /\ Step(c, paid) /\ keys' = keysNow
    <2>1. spends = TRUE /\ short \in BOOLEAN /\ (r.excused => short)
      BY <1>2, <1>8
    <2>2. CallHolds(paid, bound) /\ paid.req = r.req
      BY <1>1, <1>8, <2>1, ChargedPaidHolds
    <2>3. \A h \in Grants \ {g} : ~IsOwed(paid, h)
      BY <2>2 DEF IsOwed, GrantOf
    <2> HIDE DEF paid
    <2> QED BY <1>1, <1>3, <1>8, <2>2, <2>3, SpendKeepsInv
  <1>9. ASSUME HostAccepts(g, r), keys' = keysNow,
               Step(c, Consumed(g, charged, r.req.items \in keys[g]))
        PROVE  \/ HostAccepts(g, r) /\ Step(c, Refused(charged)) /\ keys' = keysNow
                  /\ (spends => short)
               \/ spends /\ Step(c, paid) /\ keys' = keysNow
    BY <1>9 DEF Consumed
  <1> HIDE DEF charged, paid
  <1>10. CASE /\ ~HostAccepts(g, r) /\ Step(c, Refused(r)) /\ keys' = keysNow
    BY <1>5, <1>10
  <1> QED BY <1>4, <1>5, <1>6, <1>7, <1>8, <1>9, <1>10 DEF charged

-----------------------------------------------------------------------------
(* Admission and policy *)

LEMMA ToPolicyHolds ==
  ASSUME NEW b, NEW r, CallHolds(r, b), r.at = "admit",
         NEW share \in Guests \cup {NoOne},
         r.via = "oauth" => \/ (r.req.cred.human = Owner /\ share = NoOne)
                           \/ (r.req.cred.human \in Guests /\ share = r.req.cred.human)
  PROVE  LET q == [r EXCEPT !.at = "policy", !.share = share] IN
         CallHolds(q, b) /\ \A g \in Grants : IsOwed(q, g) => IsOwed(r, g)
  <1> DEFINE q == [r EXCEPT !.at = "policy", !.share = share]
  <1>1. /\ q \in Call /\ q.at = "policy" /\ q.share = share /\ q.req = r.req
        /\ q.via = r.via /\ q.agent = r.agent /\ q.runs = r.runs /\ q.answer = r.answer
        /\ q.spent = r.spent /\ q.excused = r.excused /\ q.everBound = r.everBound
    BY DEF CallHolds, Call
  <1> HIDE DEF q
  <1>2. Outside(r) /\ Outside(q) /\ (b => q.everBound)
    BY <1>1 DEF Outside, CallHolds, SoulHolds
  <1>3. ShareHolds(q)
    BY <1>1 DEF ShareHolds, Inside
  <1>4. PaidHolds(q, b)
    BY <1>1 DEF CallHolds, PaidHolds, IsPaid, Buys, HostAccepts, GrantOf
  <1>5. CallHolds(q, b)
    BY <1>1, <1>2, <1>3, <1>4, MovesOn
  <1>6. \A g \in Grants : IsOwed(q, g) => IsOwed(r, g)
    BY <1>1 DEF IsOwed, IsPaid, GrantOf
  <1> QED BY <1>5, <1>6 DEF q

\* The same for a call that keeps the share it has, none.
LEMMA PassedHolds ==
  ASSUME NEW b, NEW r, CallHolds(r, b), r.at = "admit",
         r.via = "oauth" => r.req.cred.human = Owner
  PROVE  LET q == [r EXCEPT !.at = "policy"] IN
         CallHolds(q, b) /\ \A g \in Grants : IsOwed(q, g) => IsOwed(r, g)
  <1>1. r.share = NoOne
    BY DEF CallHolds, ShareHolds, Inside
  <1>2. [r EXCEPT !.at = "policy"] = [r EXCEPT !.at = "policy", !.share = NoOne]
    BY <1>1 DEF CallHolds, Call
  <1> DEFINE q == [r EXCEPT !.at = "policy", !.share = NoOne]
  <1>3. CallHolds(q, b) /\ \A g \in Grants : IsOwed(q, g) => IsOwed(r, g)
    BY ToPolicyHolds
  <1> QED BY <1>2, <1>3

LEMMA AdmitTokenKeepsInv ==
  ASSUME RequestInv, NEW c \in Calls, AdmitToken(c)
  PROVE  RequestInv'
  <1> DEFINE r == call[c]
             h == r.req.cred.human
             owners == [r EXCEPT !.at = "policy"]
             guests == [r EXCEPT !.at = "policy", !.share = h]
  <1>1. /\ CallHolds(r, bound) /\ r.at = "admit" /\ r.via = "oauth" /\ Outside(r) /\ ~r.spent
        /\ UNCHANGED worldVars /\ UNCHANGED <<keys, paidRuns>> /\ shares \subseteq Guests
    BY DEF AdmitToken, RequestInv, CallHolds, PaidHolds, Outside
  <1>2. \/ Step(c, Refused(r))
        \/ h = Owner /\ Step(c, owners)
        \/ h \in shares /\ Step(c, guests)
    BY DEF AdmitToken, Admitted, Relationship
  <1>3. CASE Step(c, Refused(r))
    BY <1>1, <1>3, RefusedHolds, QuietKeepsInv
  <1>4. CASE h = Owner /\ Step(c, owners)
    <2>1. CallHolds(owners, bound) /\ \A g \in Grants : IsOwed(owners, g) => IsOwed(r, g)
      BY <1>1, <1>4, PassedHolds
    <2> QED BY <1>1, <1>4, <2>1, QuietKeepsInv
  <1>5. CASE h \in shares /\ Step(c, guests)
    <2>1. CallHolds(guests, bound) /\ \A g \in Grants : IsOwed(guests, g) => IsOwed(r, g)
      BY <1>1, <1>5, ToPolicyHolds
    <2> QED BY <1>1, <1>5, <2>1, QuietKeepsInv
  <1> QED BY <1>2, <1>3, <1>4, <1>5

LEMMA AdmitKeyKeepsInv ==
  ASSUME RequestInv, NEW c \in Calls, AdmitKey(c)
  PROVE  RequestInv'
  <1> DEFINE r == call[c]
             q == [r EXCEPT !.at = "policy"]
  <1>1. /\ CallHolds(r, bound) /\ r.at = "admit" /\ r.via = "key" /\ Outside(r) /\ ~r.spent
        /\ UNCHANGED worldVars /\ UNCHANGED <<keys, paidRuns>>
    BY DEF AdmitKey, RequestInv, CallHolds, PaidHolds, Outside
  <1>2. Step(c, Refused(r)) \/ Step(c, q)
    BY DEF AdmitKey
  <1>3. CallHolds(q, bound) /\ \A g \in Grants : IsOwed(q, g) => IsOwed(r, g)
    BY <1>1, PassedHolds
  <1> QED BY <1>1, <1>2, <1>3, RefusedHolds, QuietKeepsInv

\* A grant that was bought and has no excuse matches the binding that is there.
LEMMA MatchesHolds ==
  ASSUME NEW b \in BOOLEAN, NEW r, CallHolds(r, b), r.at = "admit",
         r.via \in {"paid", "pending"}, NEW seen, seen = BindingAs(b) \/ r.excused
  PROVE  /\ CallHolds(GrantMatches(r, seen), b)
         /\ \A g \in Grants : IsOwed(GrantMatches(r, seen), g) => IsOwed(r, g)
  <1> DEFINE q == [r EXCEPT !.at = "policy"]
  <1>1. CallHolds(q, b) /\ \A g \in Grants : IsOwed(q, g) => IsOwed(r, g)
    BY PassedHolds
  <1>2. CASE GrantMatches(r, seen) = q
    BY <1>1, <1>2
  <1>3. CASE GrantMatches(r, seen) # q
    <2>1. /\ GrantMatches(r, seen) = Refused(r) /\ r.via = "paid"
          /\ Issued[GrantOf(r)].agent # ExpectedAgent(seen)
      BY <1>3 DEF GrantMatches, GrantOf
    <2>2. Outside(r) /\ (r.spent => r.excused)
      BY <2>1 DEF Outside, CallHolds, PaidHolds, IsPaid, HostAccepts, Buys
    <2> QED BY <2>1, <2>2, RefusedHolds
  <1> QED BY <1>2, <1>3

LEMMA AdmitPaidKeepsInv ==
  ASSUME RequestInv, NEW c \in Calls, AdmitPaid(c)
  PROVE  RequestInv'
  <1> DEFINE r == call[c]
             x == Excused(r)
  <1>1. /\ CallHolds(r, bound) /\ r.at = "admit" /\ r.via \in {"paid", "pending"}
        /\ UNCHANGED worldVars /\ UNCHANGED <<keys, paidRuns>> /\ bound \in BOOLEAN
    BY DEF AdmitPaid, RequestInv
  <1>2. \/ Step(c, GrantMatches(r, BindingAs(bound)))
        \/ Step(c, GrantMatches(x, "unreadable"))
    BY BindingTyped DEF AdmitPaid, ReadBinding, Excused
  <1>3. /\ CallHolds(x, bound) /\ x.at = "admit" /\ x.excused /\ x.via = r.via
        /\ \A g \in Grants : IsOwed(x, g) => IsOwed(r, g)
    BY <1>1, ExcusedHolds
  <1> HIDE DEF x
  <1>4. /\ CallHolds(GrantMatches(r, BindingAs(bound)), bound)
        /\ \A g \in Grants : IsOwed(GrantMatches(r, BindingAs(bound)), g) => IsOwed(r, g)
    BY <1>1, MatchesHolds
  <1>5. /\ CallHolds(GrantMatches(x, "unreadable"), bound)
        /\ \A g \in Grants : IsOwed(GrantMatches(x, "unreadable"), g) => IsOwed(r, g)
    BY <1>1, <1>3, MatchesHolds
  <1> QED BY <1>1, <1>2, <1>4, <1>5, QuietKeepsInv

LEMMA GateHolds ==
  ASSUME NEW b \in BOOLEAN, NEW r, CallHolds(r, b), r.at = "policy",
         NEW seen \in {BindingAs(b), "unreadable"}, seen = BindingAs(b) \/ r.excused
  PROVE  /\ CallHolds(Gate(r, seen), b)
         /\ \A g \in Grants : IsOwed(Gate(r, seen), g) => IsOwed(r, g)
  <1> DEFINE q == [r EXCEPT !.at = "dispatch"]
             inside == WithinProfile(r, ProfileOf(r, seen)) /\ WithinScopes(r)
  <1>1. Outside(r) /\ r \in Call /\ r.req \in Requests
    BY DEF Outside, CallHolds, Call
  <1>2. CASE inside
    <2>1. Gate(r, seen) = q
      BY <1>2 DEF Gate
    <2>2. /\ q \in Call /\ q.at = "dispatch" /\ q.req = r.req /\ q.via = r.via
          /\ q.share = r.share /\ q.agent = r.agent /\ q.runs = r.runs /\ q.answer = r.answer
          /\ q.spent = r.spent /\ q.excused = r.excused /\ q.everBound = r.everBound
      BY <1>1 DEF Call
    <2> HIDE DEF q
    <2>3. "email_send" \in ToolsOf(q.req) => b
      BY <1>2, <2>2 DEF WithinProfile, ToolAllowed, ProfileOf, Resolve, BindingAs
    <2>4. Outside(q) /\ ShareHolds(q) /\ PaidHolds(q, b) /\ (b => q.everBound)
      BY <2>2 DEF Outside, CallHolds, ShareHolds, Inside, PaidHolds, IsPaid, Buys, HostAccepts,
                  GrantOf, SoulHolds
    <2>5. CallHolds(q, b)
      BY <1>1, <2>2, <2>3, <2>4, MovesOn
    <2> QED BY <2>1, <2>2, <2>5 DEF IsOwed, IsPaid, GrantOf
  <1>3. CASE ~inside
    <2>1. Gate(r, seen) = Refused(r)
      BY <1>3 DEF Gate
    <2>2. ASSUME r.spent, ~r.excused PROVE FALSE
      <3>1. /\ IsPaid(r) /\ r.req.cred.kind = "grant" /\ Len(r.req.items) = 1
            /\ r.req.items[1] \in Tools /\ Buys(r, b) /\ HostAccepts(GrantOf(r), r)
        BY <2>2 DEF CallHolds, PaidHolds, IsPaid
      <3>2. r.req.route = "agent" /\ DOMAIN r.req.items = 1 .. 1
        BY <1>1, <3>1, ItemsAreFew
      <3>3. \A t \in ToolsOf(r.req) : t = r.req.items[1]
        BY <3>2 DEF ToolsOf
      <3>4. WithinProfile(r, ProfileOf(r, seen))
        BY <2>2, <3>1, <3>2, <3>3 DEF WithinProfile, ProfileOf, Buys
      <3>5. r.req.items[1] = Issued[GrantOf(r)].tool
        BY <3>1 DEF HostAccepts
      <3>6. WithinScopes(r)
        BY <3>1, <3>3, <3>5 DEF WithinScopes, IsPaid, GrantOf
      <3> QED BY <1>3, <3>4, <3>6
    <2> QED BY <1>1, <2>1, <2>2, RefusedHolds DEF CallHolds, Call
  <1> QED BY <1>2, <1>3

LEMMA PolicyKeepsInv ==
  ASSUME RequestInv, NEW c \in Calls, Policy(c)
  PROVE  RequestInv'
  <1> DEFINE r == call[c]
             x == Excused(r)
  <1>1. /\ CallHolds(r, bound) /\ r.at = "policy"
        /\ UNCHANGED worldVars /\ UNCHANGED <<keys, paidRuns>> /\ bound \in BOOLEAN
    BY DEF Policy, RequestInv
  <1>2. Step(c, Gate(r, BindingAs(bound))) \/ Step(c, Gate(x, "unreadable"))
    BY BindingTyped DEF Policy, ReadBinding, Excused
  <1>3. /\ CallHolds(x, bound) /\ x.at = "policy" /\ x.excused
        /\ \A g \in Grants : IsOwed(x, g) => IsOwed(r, g)
    BY <1>1, ExcusedHolds
  <1> HIDE DEF x
  <1>4. /\ CallHolds(Gate(r, BindingAs(bound)), bound)
        /\ \A g \in Grants : IsOwed(Gate(r, BindingAs(bound)), g) => IsOwed(r, g)
    BY <1>1, GateHolds
  <1>5. /\ CallHolds(Gate(x, "unreadable"), bound)
        /\ \A g \in Grants : IsOwed(Gate(x, "unreadable"), g) => IsOwed(r, g)
    BY <1>1, <1>3, GateHolds
  <1> QED BY <1>1, <1>2, <1>4, <1>5, QuietKeepsInv

-----------------------------------------------------------------------------
(* The runtime *)

\* A call that ends in the runtime keeps what it has run.
LEMMA SettlesHolds ==
  ASSUME NEW b, NEW r, CallHolds(r, b), InFlight(r), ~RanNothing(r) => r.at = "run",
         NEW answer \in {"ok", "internal", "gone"},
         r.spent /\ ~r.excused => r.runs[1] = 1
  PROVE  LET q == [r EXCEPT !.at = "done", !.answer = answer] IN
         CallHolds(q, b) /\ \A g \in Grants : ~IsOwed(q, g)
  <1> DEFINE q == [r EXCEPT !.at = "done", !.answer = answer]
  <1>1. /\ q \in Call /\ q.at = "done" /\ q.answer = answer /\ q.req = r.req
        /\ q.runs = r.runs /\ q.everBound = r.everBound
        /\ q.spent = r.spent /\ q.excused = r.excused
    BY DEF CallHolds, Call
  <1> HIDE DEF q
  <1>2. RunsHold(q)
    BY <1>1 DEF CallHolds, RunsHold, RanNothing, Outside
  <1>3. SoulHolds(q, b)
    BY <1>1 DEF CallHolds, SoulHolds, RanNothing
  <1>4. ShareHolds(q) /\ PaidHolds(q, b)
    BY <1>1 DEF ShareHolds, Inside, PaidHolds, IsPaid
  <1>5. CallHolds(q, b) /\ \A g \in Grants : ~IsOwed(q, g)
    BY <1>1, <1>2, <1>3, <1>4 DEF CallHolds, IsOwed, IsPaid
  <1> QED BY <1>5 DEF q

\* A call that is sent to the runtime, or is to be sent again.
LEMMA RuntimeHolds ==
  ASSUME NEW b, NEW r, CallHolds(r, b), r.at \in {"dispatch", "rebind"},
         NEW q \in Call, q.at \in {"dispatch", "rebind", "run"},
         q.at = "run" => q.next = 1, q.at = "rebind" => q.via = "oauth",
         q.req = r.req, q.via = r.via, q.share = r.share, q.agent = r.agent,
         q.runs = r.runs, q.answer = r.answer, q.spent = r.spent, q.everBound = r.everBound,
         r.excused => q.excused
  PROVE  CallHolds(q, b) /\ \A g \in Grants : IsOwed(q, g) => IsOwed(r, g)
  <1>1. Outside(r) /\ r.req \in Requests
    BY DEF Outside, CallHolds, Call
  <1>2. q.next <= Len(q.req.items) + 1 \/ q.at # "run"
    BY <1>1, ItemsAreFew
  <1>3. RunsHold(q)
    BY <1>1, <1>2 DEF CallHolds, RunsHold, RanNothing, Outside
  <1>4. SoulHolds(q, b) /\ ShareHolds(q)
    BY DEF CallHolds, SoulHolds, RanNothing, ShareHolds, Inside
  <1>5. PaidHolds(q, b)
    BY DEF CallHolds, PaidHolds, IsPaid, Buys, HostAccepts, GrantOf
  <1>6. \A g \in Grants : IsOwed(q, g) => IsOwed(r, g)
    BY DEF IsOwed, IsPaid, GrantOf
  <1> QED BY <1>3, <1>4, <1>5, <1>6 DEF CallHolds

LEMMA DispatchKeepsInv ==
  ASSUME RequestInv, NEW c \in Calls, Dispatch(c)
  PROVE  RequestInv'
  <1> DEFINE r == call[c]
             x == Excused(r)
             q == [r EXCEPT !.at = "run", !.next = 1]
             again == [x EXCEPT !.at = "rebind"]
             gone == [x EXCEPT !.at = "done", !.answer = "gone"]
  <1>1. /\ CallHolds(r, bound) /\ r.at = "dispatch" /\ r \in Call
        /\ UNCHANGED worldVars /\ UNCHANGED <<keys, paidRuns>>
    BY DEF Dispatch, RequestInv, CallHolds
  <1>2. \/ Step(c, q)
        \/ x.via = "oauth" /\ Step(c, again)
        \/ Step(c, gone)
    BY DEF Dispatch, Settled, Recoverable, Excused
  <1>3. /\ CallHolds(x, bound) /\ x.at = "dispatch" /\ x.excused = TRUE /\ x \in Call
        /\ x.via = r.via /\ \A g \in Grants : IsOwed(x, g) <=> IsOwed(r, g)
    BY <1>1, ExcusedHolds DEF CallHolds
  <1>4. CASE Step(c, q)
    <2>1. /\ q \in Call /\ q.at = "run" /\ q.next = 1 /\ q.req = r.req /\ q.via = r.via
          /\ q.share = r.share /\ q.agent = r.agent /\ q.runs = r.runs /\ q.answer = r.answer
          /\ q.spent = r.spent /\ q.everBound = r.everBound /\ q.excused = r.excused
      BY <1>1 DEF Call
    <2> HIDE DEF q
    <2>2. CallHolds(q, bound) /\ \A g \in Grants : IsOwed(q, g) => IsOwed(r, g)
      BY <1>1, <2>1, RuntimeHolds
    <2> QED BY <1>1, <1>4, <2>2, QuietKeepsInv
  <1>5. CASE x.via = "oauth" /\ Step(c, again)
    <2> HIDE DEF x
    <2>1. /\ again \in Call /\ again.at = "rebind" /\ again.req = x.req /\ again.via = x.via
          /\ again.share = x.share /\ again.agent = x.agent /\ again.runs = x.runs
          /\ again.answer = x.answer /\ again.spent = x.spent
          /\ again.everBound = x.everBound /\ again.excused = x.excused
      BY <1>3 DEF Call
    <2> HIDE DEF again
    <2>2. CallHolds(again, bound) /\ \A g \in Grants : IsOwed(again, g) => IsOwed(x, g)
      BY <1>3, <1>5, <2>1, RuntimeHolds
    <2> QED BY <1>1, <1>3, <1>5, <2>2, QuietKeepsInv
  <1>6. CASE Step(c, gone)
    <2> HIDE DEF x
    <2>1. RanNothing(x)
      BY <1>3 DEF CallHolds, RunsHold, Outside
    <2>2. CallHolds(gone, bound) /\ \A g \in Grants : ~IsOwed(gone, g)
      BY <1>3, <2>1, SettlesHolds
    <2> QED BY <1>1, <1>6, <2>2, QuietKeepsInv
  <1> QED BY <1>2, <1>4, <1>5, <1>6

LEMMA RebindKeepsInv ==
  ASSUME RequestInv, NEW c \in Calls, Rebind(c)
  PROVE  RequestInv'
  <1> DEFINE r == call[c]
             q == [r EXCEPT !.at = "dispatch", !.attempt = 2]
             ended == [r EXCEPT !.at = "done", !.answer = "internal"]
  <1>1. /\ CallHolds(r, bound) /\ r.at = "rebind" /\ r \in Call
        /\ UNCHANGED worldVars /\ UNCHANGED <<keys, paidRuns>>
    BY DEF Rebind, RequestInv, CallHolds
  <1>2. Step(c, q) \/ Step(c, ended)
    BY DEF Rebind, Interrupted
  <1>3. CASE Step(c, q)
    <2>1. /\ q \in Call /\ q.at = "dispatch" /\ q.req = r.req /\ q.via = r.via
          /\ q.share = r.share /\ q.agent = r.agent /\ q.runs = r.runs /\ q.answer = r.answer
          /\ q.spent = r.spent /\ q.everBound = r.everBound /\ q.excused = r.excused
      BY <1>1 DEF Call
    <2> HIDE DEF q
    <2>2. CallHolds(q, bound) /\ \A g \in Grants : IsOwed(q, g) => IsOwed(r, g)
      BY <1>1, <2>1, RuntimeHolds
    <2> QED BY <1>1, <1>3, <2>2, QuietKeepsInv
  <1>4. CASE Step(c, ended)
    <2>1. RanNothing(r) /\ ~r.spent
      BY <1>1 DEF CallHolds, RunsHold, Outside, PaidHolds
    <2>2. CallHolds(ended, bound) /\ \A g \in Grants : ~IsOwed(ended, g)
      BY <1>1, <2>1, SettlesHolds
    <2> QED BY <1>1, <1>4, <2>2, QuietKeepsInv
  <1> QED BY <1>2, <1>3, <1>4

\* After an item of a batch has run.
Ran(r) == [r EXCEPT !.next = @ + 1, !.runs[r.next] = @ + 1]

LEMMA RanHolds ==
  ASSUME NEW b, NEW r, CallHolds(r, b), r.at = "run", r.next <= Len(r.req.items)
  PROVE  /\ CallHolds(Ran(r), b) /\ Ran(r).at = "run" /\ Ran(r).via = r.via
         /\ Ran(r).req = r.req
         /\ Ran(r).spent /\ ~Ran(r).excused => Ran(r).runs[1] = 1
         /\ r.via = "paid" => r.next = 1 /\ Ran(r).runs[1] = 1
         /\ \A g \in Grants : IsOwed(Ran(r), g) => IsOwed(r, g)
  <1> DEFINE q == Ran(r)
  <1>1. /\ r \in Call /\ r.req \in Requests /\ Len(r.req.items) \in 0 .. 2
        /\ r.next \in {1, 2, 3}
    BY ItemsAreFew DEF CallHolds, Call
  <1>2. r.next \in {1, 2} /\ r.runs \in [1 .. 2 -> Nat]
    <2>1. r.next \in {1, 2}
      <3>1. \A n \in {1, 2, 3}, k \in 0 .. 2 : n <= k => n \in {1, 2}
        OBVIOUS
      <3> QED BY <1>1, <3>1
    <2>2. r.runs \in [1 .. 2 -> Nat]
      BY <1>1 DEF Call
    <2> QED BY <2>1, <2>2
  <1> DEFINE runs == [r.runs EXCEPT ![r.next] = @ + 1]
  <1>3. q = [r EXCEPT !.next = r.next + 1, !.runs = runs]
    BY <1>1 DEF Ran, Call
  <1>4. runs \in [1 .. 2 -> Nat] /\ r.next + 1 \in {1, 2, 3}
    BY <1>2
  <1>5. /\ q \in Call /\ q.at = "run" /\ q.req = r.req /\ q.via = r.via /\ q.share = r.share
        /\ q.agent = r.agent /\ q.answer = r.answer /\ q.spent = r.spent
        /\ q.excused = r.excused /\ q.everBound = r.everBound
        /\ q.next = r.next + 1 /\ q.runs = runs
    <2> HIDE DEF runs, q
    <2> QED BY <1>1, <1>3, <1>4 DEF Call
  <1> HIDE DEF q
  <1>6. \A i \in 1 .. 2 : /\ r.runs[i] = (IF i < r.next THEN 1 ELSE 0)
                          /\ q.runs[i] = (IF i < q.next THEN 1 ELSE 0)
    BY <1>2, <1>5 DEF CallHolds, RunsHold
  <1>7. RunsHold(q)
    BY <1>1, <1>2, <1>4, <1>5, <1>6 DEF CallHolds, RunsHold, RanNothing, Outside
  <1>8. SoulHolds(q, b) /\ ShareHolds(q)
    BY <1>5 DEF CallHolds, SoulHolds, ShareHolds, Inside
  <1>9. PaidHolds(q, b)
    BY <1>5 DEF CallHolds, PaidHolds, IsPaid, Buys, HostAccepts, GrantOf
  <1>10. CallHolds(q, b)
    BY <1>5, <1>7, <1>8, <1>9 DEF CallHolds
  <1>11. q.runs[1] = 1
    BY <1>2, <1>5, <1>6
  <1>12. r.via = "paid" => r.next = 1
    <2>1. r.via = "paid" => Len(r.req.items) = 1
      BY DEF CallHolds, PaidHolds, IsPaid
    <2>2. r.via = "paid" => r.next <= 1
      BY <2>1
    <2>3. \A n \in {1, 2} : n <= 1 => n = 1
      OBVIOUS
    <2> QED BY <1>2, <2>2, <2>3
  <1>13. \A g \in Grants : ~IsOwed(q, g)
    BY <1>11 DEF IsOwed
  <1> QED BY <1>5, <1>10, <1>11, <1>12, <1>13 DEF q

\* The run of a paid call takes it off what is owed.
LEMMA OneRunMore ==
  ASSUME RequestInv, NEW c \in Calls, NEW r, Step(c, r), UNCHANGED keys,
         NEW g \in Grants, paidRuns' = [paidRuns EXCEPT ![g] = @ + 1],
         IsOwed(call[c], g), \A h \in Grants : ~IsOwed(r, h)
  PROVE  AccountsHold'
  <1>1. \A h \in Grants : /\ Owed(h) \subseteq Calls /\ IsFiniteSet(Owed(h))
                          /\ Cardinality(Owed(h)) \in Nat
    BY CallsAssumption, FS_Subset, FS_CardinalityType DEF Owed
  <1>2. \A h \in Grants : Cardinality(keys[h]) \in Nat /\ paidRuns[h] \in Nat
    BY FS_CardinalityType DEF RequestInv, AccountsHold, Bought
  <1>3. ASSUME NEW h \in Grants, h # g PROVE Bought(h)'
    <2>1. Owed(h)' \subseteq Owed(h)
      BY <1>3 DEF Owed, Step, RequestInv
    <2>2. Cardinality(Owed(h)') <= Cardinality(Owed(h)) /\ Cardinality(Owed(h)') \in Nat
      BY <1>1, <2>1, FS_Subset, FS_CardinalityType
    <2>3. paidRuns'[h] = paidRuns[h]
      BY <1>3 DEF RequestInv, AccountsHold
    <2> QED BY <1>1, <1>2, <2>2, <2>3 DEF RequestInv, AccountsHold, Bought
  <1>4. Bought(g)'
    <2>1. Owed(g)' \subseteq Owed(g) \ {c} /\ c \in Owed(g)
      BY DEF Owed, Step, RequestInv
    <2>2. /\ IsFiniteSet(Owed(g) \ {c})
          /\ Cardinality(Owed(g) \ {c}) = Cardinality(Owed(g)) - 1
      BY <1>1, <2>1, FS_RemoveElement
    <2>3. Cardinality(Owed(g)') <= Cardinality(Owed(g)) - 1 /\ Cardinality(Owed(g)') \in Nat
      BY <2>1, <2>2, FS_Subset, FS_CardinalityType
    <2>4. paidRuns'[g] = paidRuns[g] + 1
      BY DEF RequestInv, AccountsHold
    <2> QED BY <1>1, <1>2, <2>3, <2>4 DEF RequestInv, AccountsHold, Bought
  <1> QED BY <1>3, <1>4 DEF RequestInv, AccountsHold

LEMMA RunItemKeepsInv ==
  ASSUME RequestInv, NEW c \in Calls, RunItem(c)
  PROVE  RequestInv'
  <1> DEFINE r == call[c]
             g == GrantOf(r)
             after == Ran(r)
             ended == [after EXCEPT !.at = "done", !.answer = "internal"]
  <1>1. /\ CallHolds(r, bound) /\ r.at = "run" /\ r.next <= Len(r.req.items)
        /\ UNCHANGED worldVars /\ UNCHANGED keys
    BY DEF RunItem, RequestInv
  <1>2. paidRuns' = IF r.via = "paid" THEN [paidRuns EXCEPT ![g] = @ + 1] ELSE paidRuns
    BY DEF RunItem, GrantOf
  <1>3. Step(c, after) \/ Step(c, ended)
    BY DEF RunItem, Ran, Settled, Recoverable
  <1>4. /\ CallHolds(after, bound) /\ after.at = "run" /\ after.via = r.via
        /\ after.spent /\ ~after.excused => after.runs[1] = 1
        /\ r.via = "paid" => r.next = 1 /\ after.runs[1] = 1
        /\ \A h \in Grants : IsOwed(after, h) => IsOwed(r, h)
    BY <1>1, RanHolds
  <1> HIDE DEF after
  <1>5. CallHolds(ended, bound) /\ \A h \in Grants : ~IsOwed(ended, h)
    BY <1>4, SettlesHolds
  <1> HIDE DEF ended
  <1>6. CASE r.via = "paid"
    <2>1. \A h \in Grants : ~IsOwed(after, h)
      BY <1>4, <1>6 DEF IsOwed
    <2>2. r.runs[1] = 0
      BY <1>1, <1>4, <1>6 DEF CallHolds, RunsHold
    <2>3. r.req \in Requests /\ r.req.cred.kind = "grant" /\ IsPaid(r)
      BY <1>1, <1>6 DEF CallHolds, Call, PaidHolds, IsPaid
    <2>4. g \in Grants /\ IsOwed(r, g)
      BY <2>2, <2>3, ItemsAreFew DEF IsOwed, GrantOf
    <2>5. AccountsHold'
      BY <1>1, <1>2, <1>3, <1>5, <1>6, <2>1, <2>4, OneRunMore
    <2> QED BY <1>1, <1>3, <1>4, <1>5, <2>5, StepKeepsInv
  <1>7. CASE r.via # "paid"
    BY <1>1, <1>2, <1>3, <1>4, <1>5, <1>7, QuietKeepsInv
  <1> QED BY <1>6, <1>7

LEMMA AnswerKeepsInv ==
  ASSUME RequestInv, NEW c \in Calls, Answer(c)
  PROVE  RequestInv'
  <1> DEFINE r == call[c]
             q == [r EXCEPT !.at = "done", !.answer = "ok"]
  <1>1. /\ CallHolds(r, bound) /\ r.at = "run" /\ r.next > Len(r.req.items)
        /\ UNCHANGED worldVars /\ UNCHANGED <<keys, paidRuns>>
    BY DEF Answer, RequestInv
  <1>2. Step(c, q)
    BY DEF Answer, Settled, Recoverable
  <1>3. ASSUME r.spent PROVE r.runs[1] = 1
    <2>1. Len(r.req.items) = 1 /\ r.next \in {1, 2, 3}
      BY <1>1, <1>3 DEF CallHolds, PaidHolds, IsPaid, Call
    <2>2. r.next > 1
      BY <1>1, <2>1
    <2> QED BY <1>1, <2>2 DEF CallHolds, RunsHold
  <1>4. CallHolds(q, bound) /\ \A g \in Grants : ~IsOwed(q, g)
    BY <1>1, <1>3, SettlesHolds
  <1> QED BY <1>1, <1>2, <1>4, QuietKeepsInv

-----------------------------------------------------------------------------
(* Meanwhile *)

\* A call in flight is excused when the binding moves.
Moved(r) == [r EXCEPT !.excused = TRUE, !.everBound = TRUE]

LEMMA MovedHolds ==
  ASSUME NEW b, NEW b2, NEW r, CallHolds(r, b), InFlight(r)
  PROVE  CallHolds(Moved(r), b2) /\ \A g \in Grants : IsOwed(Moved(r), g) <=> IsOwed(r, g)
  <1> DEFINE q == Moved(r)
  <1>1. /\ q \in Call /\ q.excused = TRUE /\ q.everBound = TRUE
        /\ q.at = r.at /\ q.req = r.req /\ q.via = r.via /\ q.share = r.share
        /\ q.agent = r.agent /\ q.next = r.next /\ q.runs = r.runs /\ q.answer = r.answer
        /\ q.spent = r.spent
    BY DEF CallHolds, Call, Moved
  <1> HIDE DEF q
  <1>2. RunsHold(q) /\ SoulHolds(q, b2) /\ ShareHolds(q)
    BY <1>1 DEF CallHolds, RunsHold, RanNothing, Outside, SoulHolds, ShareHolds, Inside
  <1>3. PaidHolds(q, b2)
    BY <1>1 DEF CallHolds, PaidHolds, IsPaid, HostAccepts, GrantOf
  <1>4. CallHolds(q, b2) /\ \A g \in Grants : IsOwed(q, g) <=> IsOwed(r, g)
    BY <1>1, <1>2, <1>3 DEF CallHolds, IsOwed, IsPaid, GrantOf
  <1> QED BY <1>4 DEF q

\* To a call that is over, or a free slot, the binding is nothing.
LEMMA AtRestHolds ==
  ASSUME NEW b, NEW b2, NEW r, CallHolds(r, b), ~InFlight(r)
  PROVE  CallHolds(r, b2)
  BY DEF CallHolds, SoulHolds, PaidHolds, IsPaid

LEMMA MoveBindingKeepsInv == RequestInv /\ MoveBinding => RequestInv'
  <1> SUFFICES ASSUME RequestInv, MoveBinding PROVE RequestInv'
    OBVIOUS
  <1>1. \A c \in Calls : call'[c] = IF InFlight(call[c]) THEN Moved(call[c]) ELSE call[c]
    BY DEF MoveBinding, Moved
  <1>2. ASSUME NEW c \in Calls
        PROVE  CallHolds(call'[c], bound') /\ \A g \in Grants : IsOwed(call'[c], g) <=> IsOwed(call[c], g)
    <2>1. CallHolds(call[c], bound)
      BY DEF RequestInv
    <2>2. CASE InFlight(call[c])
      BY <1>1, <2>1, <2>2, MovedHolds
    <2>3. CASE ~InFlight(call[c])
      BY <1>1, <2>1, <2>3, AtRestHolds
    <2> QED BY <2>2, <2>3
  <1>3. \A g \in Grants : Owed(g)' = Owed(g)
    BY <1>2 DEF Owed
  <1>4. AccountsHold'
    BY <1>3 DEF RequestInv, AccountsHold, Bought, MoveBinding
  <1>5. DOMAIN call' = Calls /\ bound' \in BOOLEAN /\ shares' \subseteq Guests
    BY DEF MoveBinding, RequestInv
  <1> QED BY <1>2, <1>4, <1>5 DEF RequestInv

LEMMA MoveShareKeepsInv ==
  ASSUME RequestInv, NEW h \in Guests, MoveShare(h)
  PROVE  RequestInv'
  <1>1. shares' \subseteq Guests
    BY DEF MoveShare, RequestInv
  <1>2. UNCHANGED <<call, bound, keys, paidRuns>>
    BY DEF MoveShare
  <1>3. AccountsHold'
    BY <1>2 DEF RequestInv, AccountsHold, Bought, Owed
  <1> QED BY <1>1, <1>2, <1>3 DEF RequestInv

LEMMA NextKeepsInv == RequestInv /\ [Next]_vars => RequestInv'
  <1> SUFFICES ASSUME RequestInv, [Next]_vars PROVE RequestInv'
    OBVIOUS
  <1>1. CASE \E c \in Calls : Arrive(c)
    BY <1>1, ArriveKeepsInv
  <1>2. CASE \E c \in Calls : Serve(c)
    BY <1>2, AuthBearerKeepsInv, AuthPaidKeepsInv, ConsumeKeepsInv, AdmitTokenKeepsInv,
       AdmitKeyKeepsInv, AdmitPaidKeepsInv, PolicyKeepsInv, DispatchKeepsInv, RebindKeepsInv,
       RunItemKeepsInv, AnswerKeepsInv DEF Serve
  <1>3. CASE MoveBinding
    BY <1>3, MoveBindingKeepsInv
  <1>4. CASE \E h \in Guests : MoveShare(h)
    BY <1>4, MoveShareKeepsInv
  <1>5. CASE UNCHANGED vars
    <2>1. UNCHANGED <<call, bound, shares, keys, paidRuns>>
      BY <1>5 DEF vars, worldVars
    <2>2. AccountsHold'
      BY <2>1 DEF RequestInv, AccountsHold, Bought, Owed
    <2> QED BY <2>1, <2>2 DEF RequestInv
  <1> QED BY <1>1, <1>2, <1>3, <1>4, <1>5 DEF Next

\* What each gate leaves behind holds throughout, and no grant's holder is ever
\* owed more runs than the Host consumed the grant for.
THEOREM RequestSafe == Spec => []RequestInv
  BY InitInv, NextKeepsInv, PTL DEF Spec

-----------------------------------------------------------------------------
(* What follows *)

LEMMA PaymentsFollow == RequestInv => PaymentsBuyRuns
  <1> SUFFICES ASSUME RequestInv PROVE PaymentsBuyRuns
    OBVIOUS
  <1>1. ASSUME NEW g \in Grants PROVE paidRuns[g] <= Cardinality(keys[g])
    <2>1. IsFiniteSet(Owed(g)) /\ Cardinality(Owed(g)) \in Nat
      BY CallsAssumption, FS_Subset, FS_CardinalityType DEF Owed
    <2>2. /\ paidRuns[g] \in Nat /\ IsFiniteSet(keys[g])
          /\ paidRuns[g] + Cardinality(Owed(g)) <= Cardinality(keys[g])
      BY DEF RequestInv, AccountsHold, Bought
    <2>3. Cardinality(keys[g]) \in Nat
      BY <2>2, FS_CardinalityType
    <2> QED BY <2>1, <2>2, <2>3
  <1>2. SpentCallsRun
    BY DEF RequestInv, CallHolds, PaidHolds, SpentCallsRun
  <1> QED BY <1>1, <1>2 DEF PaymentsBuyRuns, PaidRunsAreBought

LEMMA AnswersFollow == RequestInv => RunsMatchAnswers
  <1> SUFFICES ASSUME RequestInv PROVE RunsMatchAnswers
    OBVIOUS
  <1>1. ItemsRunOnce
    BY DEF RequestInv, CallHolds, RunsHold, ItemsRunOnce
  <1>2. RefusedRanNothing
    BY DEF RequestInv, CallHolds, RunsHold, RanNothing, RefusedRanNothing
  <1>3. ASSUME NEW c \in Calls, NEW i \in DOMAIN call[c].req.items,
               call[c].runs[i] > 0, call[c].req.items[i] = "email_send"
        PROVE  call[c].everBound
    <2> DEFINE r == call[c]
    <2>1. CallHolds(r, bound) /\ r \in Call /\ r.req \in Requests
      BY DEF RequestInv, CallHolds, Call
    <2>2. i \in 1 .. 2
      <3>1. DOMAIN r.req.items = 1 .. Len(r.req.items) /\ Len(r.req.items) \in 0 .. 2
        BY <2>1, ItemsAreFew
      <3>2. \A k \in 0 .. 2 : 1 .. k \subseteq 1 .. 2
        OBVIOUS
      <3>3. 1 .. Len(r.req.items) \subseteq 1 .. 2
        BY <3>1, <3>2
      <3>4. i \in 1 .. Len(r.req.items)
        BY <3>1
      <3> QED BY <3>3, <3>4
    <2>3. ~RanNothing(r)
      BY <1>3, <2>2 DEF RanNothing
    <2>4. "email_send" \in ToolsOf(r.req)
      BY <1>3 DEF ToolsOf, Tools
    <2> QED BY <2>1, <2>3, <2>4 DEF CallHolds, SoulHolds
  <1> QED BY <1>1, <1>2, <1>3 DEF RunsMatchAnswers, DronesStaySilent

\* A post of a guest's is recorded as the guest's, while its share stands.
PostsByShare ==
  \A p \in posts' \ posts :
     IF p.human \in Guests THEN p.actedBy = p.human /\ p.human \in shares
     ELSE p.actedBy = NoOne

LEMMA PostsFollow == RequestInv /\ [Next]_vars => [PostsByShare]_vars
  <1> SUFFICES ASSUME RequestInv, Next PROVE PostsByShare
    OBVIOUS
  <1>1. CASE UNCHANGED posts
    BY <1>1 DEF PostsByShare
  <1>2. ASSUME NEW c \in Calls, RunItem(c) PROVE PostsByShare
    <2> DEFINE r == call[c]
    <2> SUFFICES ASSUME NEW p \in posts' \ posts
                 PROVE  IF p.human \in Guests THEN p.actedBy = p.human /\ p.human \in shares
                        ELSE p.actedBy = NoOne
      BY DEF PostsByShare
    <2>1. /\ p = [human |-> r.req.cred.human, actedBy |-> r.share]
          /\ r.at = "run" /\ r.via = "oauth" /\ LesserAllows(r)
      BY <1>2 DEF RunItem, Post
    <2>2. \/ r.req.cred.human = Owner /\ r.share = NoOne
          \/ r.req.cred.human \in Guests /\ r.share = r.req.cred.human
      BY <2>1 DEF RequestInv, CallHolds, ShareHolds, Inside
    <2> QED BY <2>1, <2>2, PeopleAssumption DEF LesserAllows
  <1>3. (\E c \in Calls : RunItem(c)) \/ UNCHANGED posts
    BY DEF Next, Serve, Arrive, AuthBearer, AuthPaid, Consume, AdmitToken, AdmitKey, AdmitPaid,
           Policy, Dispatch, Rebind, Answer, MoveBinding, MoveShare
  <1> QED BY <1>1, <1>2, <1>3

\* What is paid for runs and what runs is paid for: a replayed consume answer and
\* a recovered session buy no run, and Body refuses what it can refuse before the
\* Host spends the grant (x402_grants.go, validateX402InvocationGrant).
THEOREM PaymentsBuyRunsAlways == Spec => []PaymentsBuyRuns
  BY RequestSafe, PaymentsFollow, PTL

\* A refused request ran nothing, no item runs twice although a request may be
\* dispatched again on a new session, and a communication tool runs only for an
\* agent that had a soul during the request (session_recovery.go, runtime_policy.go).
THEOREM RunsMatchAnswersAlways == Spec => []RunsMatchAnswers
  BY RequestSafe, AnswersFollow, PTL

\* A guest's post names the guest and is recorded only while the share stands,
\* however long ago the request was admitted; no post of the owner's is recorded
\* as a guest's (actor_binding.go, withActorBinding; lesserapi/act_as.go).
THEOREM GuestsPostByShareAlways == Spec => GuestsPostByShare
  <1>1. Spec => [][PostsByShare]_vars
    BY RequestSafe, PostsFollow, PTL DEF Spec
  <1> QED BY <1>1 DEF PostsByShare, GuestsPostByShare

-----------------------------------------------------------------------------
(* The pages of NotificationFeed *)

\* Those of `ids` newer than n.
Above(ids, n) == {m \in ids : m > n}

\* The matches in the windows a cursor still leads to.
Ahead ==
  {n \in present : Matches(n) /\ client.since < n /\ n < client.cursor.after}

FeedTypes ==
  /\ profile \in {"souled", "drone"}
  /\ feed \in Seq(Rows)
  /\ Len(feed) <= MaxRows
  /\ present \subseteq 1..Len(feed)
  /\ client \in [state : {"ended", "paging", "refused"}, since : 0..Len(feed),
                 next : 0..Len(feed), cursor : [after : 1..Top, offset : Nat],
                 begun : 0..Len(feed), torn : BOOLEAN]
  /\ \A c \in reading :
       /\ c \in [limit : Limits, left : {c.left},
                 got : SUBSET (1..Len(feed)), more : {{}}]
       /\ SingleQuery => c.left = {ask.types} /\ c.got = {}
  /\ shown \subseteq 1..Len(feed)

\* A read under way belongs to a round; the first page of a round is the one
\* asked for with its own time; only a filtered window is read twice.
RoundShape ==
  /\ reading # {} => /\ client.state = "paging"
                  /\ ~(profile = "drone" /\ ask.types \cap CommTypes # {})
  /\ client.state = "paging" /\ client.cursor = FirstPage =>
       client.next = client.since
  /\ client.cursor.offset > 0 => Filtered

\* What is due has been shown: all of it between rounds; within one, what is
\* older than its time, what earlier windows held, and what the offset counts.
RoundInv ==
  /\ client.state = "ended" =>
       \A n \in present : Matches(n) /\ Due(n) => n \in shown
  /\ client.state = "paging" =>
       /\ \A n \in present : Matches(n) /\ n <= client.since => n \in shown
       /\ \A n \in present :
            Matches(n) /\ Due(n) /\ n >= client.cursor.after => n \in shown
       /\ \A n \in Newest(Ahead, client.cursor.offset) :
            Due(n) => n \in shown

\* The rounds EveryMatchShown is about.
Orderly == SingleQuery /\ (Filtered => ~client.torn)

ShownVisible == \A n \in shown : Visible(feed[n])

FeedInv == FeedTypes /\ RoundShape /\ ShownVisible /\ (Orderly => RoundInv)
-----------------------------------------------------------------------------
(* The newest of a finite set of ids *)

\* An id is older than another exactly when it has more above it.
LEMMA AboveTypes ==
  ASSUME NEW S \in SUBSET Nat, IsFiniteSet(S), NEW n \in S
  PROVE  /\ IsFiniteSet(Above(S, n)) /\ Cardinality(Above(S, n)) \in Nat
         /\ Cardinality(S) \in Nat
         /\ Cardinality(Above(S, n)) < Cardinality(S)
<1>1. Above(S, n) \in SUBSET S /\ n \notin Above(S, n)
  BY DEF Above
<1>2. /\ IsFiniteSet(Above(S, n)) /\ Cardinality(Above(S, n)) <= Cardinality(S)
      /\ Cardinality(S) = Cardinality(Above(S, n)) => S = Above(S, n)
  BY <1>1, FS_Subset
<1>3. Cardinality(Above(S, n)) \in Nat /\ Cardinality(S) \in Nat
  BY <1>2, FS_CardinalityType
<1>. QED  BY <1>1, <1>2, <1>3

LEMMA AboveFalls ==
  ASSUME NEW S \in SUBSET Nat, IsFiniteSet(S), NEW x \in S, NEW y \in S, x < y
  PROVE  Cardinality(Above(S, y)) < Cardinality(Above(S, x))
<1>1. Above(S, y) \in SUBSET Above(S, x) /\ Above(S, y) # Above(S, x)
  <2>1. y \in Above(S, x) /\ y \notin Above(S, y)
    BY DEF Above
  <2>2. \A m \in Above(S, y) : m \in Above(S, x)
    BY DEF Above
  <2>. QED  BY <2>1, <2>2
<1>2. IsFiniteSet(Above(S, x)) /\ Cardinality(Above(S, x)) \in Nat
      /\ Cardinality(Above(S, y)) \in Nat
  BY AboveTypes
<1>3. /\ Cardinality(Above(S, y)) <= Cardinality(Above(S, x))
      /\ Cardinality(Above(S, x)) = Cardinality(Above(S, y))
           => Above(S, x) = Above(S, y)
  BY <1>1, <1>2, FS_Subset
<1>. QED  BY <1>1, <1>2, <1>3

\* Every rank below the size of the set is that of one of its ids.
LEMMA RankOnto ==
  ASSUME NEW S \in SUBSET Nat, IsFiniteSet(S), NEW k \in Nat, k < Cardinality(S)
  PROVE  \E n \in S : Cardinality(Above(S, n)) = k
<1>. DEFINE c == Cardinality(S)
            R == 0..(c - 1)
            f == [n \in S |-> Cardinality(Above(S, n))]
<1>1. c \in Nat
  BY FS_CardinalityType
<1>2. IsFiniteSet(R) /\ Cardinality(R) = c
  <2>1. 0 \in Int /\ c - 1 \in Int /\ c > 0
    BY <1>1
  <2>. HIDE DEF c
  <2>2. IsFiniteSet(R) /\ Cardinality(R) = IF 0 > c - 1 THEN 0 ELSE (c - 1) - 0 + 1
    BY <2>1, FS_Interval
  <2>. QED  BY <2>1, <2>2, <1>1
<1>3. \A n \in S : f[n] \in R
  <2>. SUFFICES ASSUME NEW n \in S PROVE f[n] \in R
    OBVIOUS
  <2>1. Cardinality(Above(S, n)) \in Nat /\ Cardinality(Above(S, n)) < c
    BY AboveTypes
  <2>. QED  BY <2>1, <1>1
<1>4. \A x, y \in S : f[x] = f[y] => x = y
  <2>. SUFFICES ASSUME NEW x \in S, NEW y \in S, x # y PROVE f[x] # f[y]
    OBVIOUS
  <2>0. /\ Cardinality(Above(S, x)) \in Nat
        /\ Cardinality(Above(S, y)) \in Nat
    BY AboveTypes
  <2>1. CASE x < y
    <3>1. Cardinality(Above(S, y)) < Cardinality(Above(S, x))
      BY <2>1, AboveFalls
    <3>. QED  BY <3>1, <2>0
  <2>2. CASE y < x
    <3>1. Cardinality(Above(S, x)) < Cardinality(Above(S, y))
      BY <2>2, AboveFalls
    <3>. QED  BY <3>1, <2>0
  <2>3. x \in Nat /\ y \in Nat
    OBVIOUS
  <2>. QED  BY <2>1, <2>2, <2>3
<1>. HIDE DEF R, c
<1>5. f \in Injection(S, R)
  BY <1>3, <1>4 DEF Injection, IsInjective
<1>. HIDE DEF f
<1>6. f \in Surjection(S, R)
  BY <1>2, <1>5, FS_Injection DEF c
<1>7. k \in R
  BY <1>1 DEF R, c
<1>8. PICK n \in S : f[n] = k
  BY <1>6, <1>7 DEF Surjection
<1>. QED  BY <1>8 DEF f

\* Hence a set of ids has a newest and an oldest one.
LEMMA NewestOldest ==
  ASSUME NEW S \in SUBSET Nat, IsFiniteSet(S), S # {}
  PROVE  /\ Max(S) \in S /\ \A n \in S : n <= Max(S)
         /\ Min(S) \in S /\ \A n \in S : Min(S) <= n
<1>1. Cardinality(S) \in Nat /\ Cardinality(S) > 0
  BY FS_CardinalityType, FS_EmptySet
<1>2. \E x \in S : \A y \in S : x >= y
  <2>1. PICK x \in S : Cardinality(Above(S, x)) = 0
    BY <1>1, RankOnto
  <2>2. Above(S, x) = {}
    BY <2>1, AboveTypes, FS_EmptySet
  <2>. QED  BY <2>2 DEF Above
<1>3. \E x \in S : \A y \in S : x =< y
  <2>1. PICK x \in S : Cardinality(Above(S, x)) = Cardinality(S) - 1
    BY <1>1, RankOnto
  <2>2. \A y \in S : ~(y < x)
    <3>. SUFFICES ASSUME NEW y \in S, y < x PROVE FALSE
      OBVIOUS
    <3>1. Cardinality(Above(S, x)) < Cardinality(Above(S, y))
      BY AboveFalls
    <3>2. Cardinality(Above(S, y)) < Cardinality(S) /\ Cardinality(Above(S, y)) \in Nat
      BY AboveTypes
    <3>. QED  BY <3>1, <3>2, <2>1, <1>1
  <2>. QED  BY <2>2
<1>. QED  BY <1>2, <1>3 DEF Max, Min

\* The k newest are an upper part of the set, and those left are older than
\* all of them.
LEMMA NewestAbove ==
  ASSUME NEW S \in SUBSET Nat, IsFiniteSet(S), NEW k \in Nat
  PROVE  /\ Newest(S, k) \subseteq S
         /\ \A n \in S : n \in Newest(S, k) <=> Cardinality(Above(S, n)) < k
         /\ \A n \in S, m \in Newest(S, k) : n \notin Newest(S, k) => n < m
         /\ \A n \in S, m \in Newest(S, k) : m < n => n \in Newest(S, k)
<1>1. /\ Newest(S, k) \subseteq S
      /\ \A n \in S : n \in Newest(S, k) <=> Cardinality(Above(S, n)) < k
  BY DEF Newest, Above
<1>2. \A n \in S, m \in Newest(S, k) : m < n => n \in Newest(S, k)
  <2>. SUFFICES ASSUME NEW n \in S, NEW m \in Newest(S, k), m < n
                PROVE  n \in Newest(S, k)
    OBVIOUS
  <2>1. m \in S /\ Cardinality(Above(S, m)) < k
    BY <1>1
  <2>2. Cardinality(Above(S, n)) < Cardinality(Above(S, m))
    BY <2>1, AboveFalls
  <2>3. Cardinality(Above(S, n)) \in Nat /\ Cardinality(Above(S, m)) \in Nat
    BY <2>1, AboveTypes
  <2>. QED  BY <1>1, <2>1, <2>2, <2>3
<1>3. \A n \in S, m \in Newest(S, k) : n \notin Newest(S, k) => n < m
  <2>. SUFFICES ASSUME NEW n \in S, NEW m \in Newest(S, k),
                       n \notin Newest(S, k)
                PROVE  n < m
    OBVIOUS
  <2>1. n \in Nat /\ m \in Nat /\ n # m /\ ~(m < n)
    BY <1>1, <1>2
  <2>. QED  BY <2>1
<1>. QED  BY <1>1, <1>2, <1>3

\* There are k of them, or all.
LEMMA NewestCount ==
  ASSUME NEW S \in SUBSET Nat, IsFiniteSet(S), NEW k \in Nat
  PROVE  /\ IsFiniteSet(Newest(S, k))
         /\ Cardinality(Newest(S, k)) \in Nat /\ Cardinality(S) \in Nat
         /\ Cardinality(Newest(S, k)) = IF k <= Cardinality(S) THEN k
                                        ELSE Cardinality(S)
<1>. DEFINE N == Newest(S, k)
            c == Cardinality(S)
            j == IF k <= c THEN k ELSE c
            R == 0..(j - 1)
            f == [n \in N |-> Cardinality(Above(S, n))]
<1>1. c \in Nat /\ j \in Nat /\ j <= k /\ j <= c
  BY FS_CardinalityType
<1>2. IsFiniteSet(N) /\ Cardinality(N) \in Nat
  BY NewestAbove, FS_Subset, FS_CardinalityType
<1>3. \A n \in N : n \in S /\ Cardinality(Above(S, n)) \in R
  <2>. SUFFICES ASSUME NEW n \in N PROVE n \in S /\ Cardinality(Above(S, n)) \in R
    OBVIOUS
  <2>1. n \in S /\ Cardinality(Above(S, n)) < k
    BY NewestAbove
  <2>2. Cardinality(Above(S, n)) \in Nat /\ Cardinality(Above(S, n)) < c
    BY <2>1, AboveTypes
  <2>. QED  BY <1>1, <2>1, <2>2
<1>4. \A x, y \in N : f[x] = f[y] => x = y
  <2>. SUFFICES ASSUME NEW x \in N, NEW y \in N, f[x] = f[y] PROVE x = y
    OBVIOUS
  <2>1. x \in S /\ y \in S /\ Cardinality(Above(S, x)) = Cardinality(Above(S, y))
    BY <1>3
  <2>2. Cardinality(Above(S, x)) \in Nat
    BY <2>1, AboveTypes
  <2>3. ~(x < y) /\ ~(y < x)
    BY <2>1, <2>2, AboveFalls
  <2>4. x \in Nat /\ y \in Nat
    BY <2>1
  <2>. QED  BY <2>3, <2>4
<1>5. \A i \in R : \E n \in N : f[n] = i
  <2>. SUFFICES ASSUME NEW i \in R PROVE \E n \in N : f[n] = i
    OBVIOUS
  <2>1. i \in Nat /\ i < c /\ i < k
    BY <1>1
  <2>2. PICK n \in S : Cardinality(Above(S, n)) = i
    BY <2>1, RankOnto
  <2>3. n \in N
    BY <2>1, <2>2, NewestAbove
  <2>. QED  BY <2>2, <2>3
<1>6. IsFiniteSet(R) /\ Cardinality(R) = j
  <2>. HIDE DEF j
  <2>1. IsFiniteSet(R) /\ Cardinality(R) = IF 0 > j - 1 THEN 0 ELSE (j - 1) - 0 + 1
    <3>1. 0 \in Int /\ j - 1 \in Int
      BY <1>1
    <3>. QED  BY <3>1, FS_Interval
  <2>. QED  BY <2>1, <1>1
<1>. HIDE DEF R, N
<1>7. f \in Injection(N, R) /\ f \in Surjection(N, R)
  <2>1. f \in [N -> R]
    BY <1>3
  <2>. HIDE DEF f
  <2>. QED  BY <2>1, <1>4, <1>5 DEF Injection, IsInjective, Surjection
<1>. HIDE DEF f
<1>8. Cardinality(N) = Cardinality(R)
  BY <1>6, <1>7, FS_Injection
<1>. QED  BY <1>1, <1>2, <1>6, <1>8 DEF N

\* Taking the newest b of what the newest a leave is taking the newest a + b.
LEMMA NewestSplit ==
  ASSUME NEW S \in SUBSET Nat, IsFiniteSet(S), NEW a \in Nat, NEW b \in Nat,
         NEW n \in Older(S, a)
  PROVE  n \in Newest(Older(S, a), b) <=> n \in Newest(S, a + b)
<1>. DEFINE N == Newest(S, a)
            T == Older(S, a)
            U == Above(T, n)
<1>1. n \in S /\ n \notin N /\ T \in SUBSET S /\ N \in SUBSET S
  BY NewestAbove DEF Older
<1>2. IsFiniteSet(T) /\ IsFiniteSet(N)
  BY <1>1, FS_Subset
<1>3. \A m \in N : n < m
  BY <1>1, NewestAbove
<1>4. Above(S, n) = N \cup U /\ N \cap U = {}
  BY <1>1, <1>3 DEF Above, Older
<1>5. Cardinality(N) = a
  <2>1. ~(Cardinality(Above(S, n)) < a)
    BY <1>1, NewestAbove
  <2>2. /\ Cardinality(Above(S, n)) \in Nat /\ Cardinality(S) \in Nat
        /\ Cardinality(Above(S, n)) < Cardinality(S)
    BY <1>1, AboveTypes
  <2>3. a <= Cardinality(S)
    BY <2>1, <2>2
  <2>. QED  BY <2>3, NewestCount
<1>6. IsFiniteSet(U) /\ Cardinality(U) \in Nat
  <2>1. T \in SUBSET Nat /\ n \in T
    BY <1>1
  <2>. HIDE DEF T
  <2>. QED  BY <2>1, <1>2, AboveTypes
<1>7. Cardinality(Above(S, n)) = a + Cardinality(U)
  <2>. HIDE DEF N, U
  <2>1. Cardinality(N \cup U) = Cardinality(N) + Cardinality(U) - Cardinality({})
    BY <1>2, <1>4, <1>6, FS_Union
  <2>. QED  BY <2>1, <1>4, <1>5, <1>6, FS_EmptySet
<1>8. n \in Newest(S, a + b) <=> Cardinality(Above(S, n)) < a + b
  BY <1>1, NewestAbove
<1>9. n \in Newest(T, b) <=> Cardinality(U) < b
  <2>1. T \in SUBSET Nat /\ n \in T
    BY <1>1
  <2>. HIDE DEF T
  <2>. QED  BY <2>1, <1>2, NewestAbove
<1>. QED  BY <1>6, <1>7, <1>8, <1>9

\* Removing ids that are not among the k newest brings no others among them.
LEMMA NewestLeave ==
  ASSUME NEW S \in SUBSET Nat, IsFiniteSet(S), NEW k \in Nat, NEW T \in SUBSET S,
         Newest(S, k) \subseteq T
  PROVE  Newest(T, k) \subseteq Newest(S, k)
<1>. SUFFICES ASSUME NEW n \in Newest(T, k), n \notin Newest(S, k)
              PROVE  FALSE
  OBVIOUS
<1>1. IsFiniteSet(T) /\ T \in SUBSET Nat
  BY FS_Subset
<1>2. n \in T /\ Cardinality(Above(T, n)) < k
  BY <1>1, NewestAbove
<1>3. Newest(S, k) \in SUBSET Above(T, n)
  BY <1>2, NewestAbove DEF Above
<1>4. IsFiniteSet(Above(T, n)) /\ Cardinality(Above(T, n)) \in Nat
  BY <1>1, <1>2, AboveTypes
<1>5. Cardinality(Newest(S, k)) <= Cardinality(Above(T, n))
  BY <1>3, <1>4, FS_Subset
<1>6. ~(Cardinality(Above(S, n)) < k)
  BY <1>2, NewestAbove
<1>7. /\ Cardinality(Above(S, n)) < Cardinality(S)
      /\ Cardinality(Above(S, n)) \in Nat /\ Cardinality(S) \in Nat
  BY <1>2, AboveTypes
<1>8. Cardinality(Newest(S, k)) = k
  BY <1>6, <1>7, NewestCount
<1>. QED  BY <1>2, <1>4, <1>5, <1>8

\* Adding ids brings none of the others among the k newest.
LEMMA NewestJoin ==
  ASSUME NEW T \in SUBSET Nat, IsFiniteSet(T), NEW k \in Nat, NEW S \in SUBSET T,
         NEW n \in S, n \in Newest(T, k)
  PROVE  n \in Newest(S, k)
<1>1. IsFiniteSet(S) /\ S \in SUBSET Nat
  BY FS_Subset
<1>2. Cardinality(Above(T, n)) < k /\ n \in T
  BY NewestAbove
<1>3. Above(S, n) \in SUBSET Above(T, n)
  BY DEF Above
<1>4. /\ IsFiniteSet(Above(T, n)) /\ Cardinality(Above(T, n)) \in Nat
      /\ Cardinality(Above(S, n)) \in Nat
  BY <1>1, <1>2, AboveTypes
<1>5. Cardinality(Above(S, n)) <= Cardinality(Above(T, n))
  BY <1>3, <1>4, FS_Subset
<1>6. Cardinality(Above(S, n)) < k
  BY <1>2, <1>4, <1>5
<1>. QED  BY <1>1, <1>6, NewestAbove

\* The upper part K of S, from some id on, has the same k newest as S, unless
\* K has fewer than that.
LEMMA NewestOfTop ==
  ASSUME NEW S \in SUBSET Nat, IsFiniteSet(S), NEW k \in Nat, NEW K \in SUBSET S,
         \A n \in K, m \in S : n < m => m \in K
  PROVE  /\ Newest(K, k) \subseteq Newest(S, k)
         /\ Newest(K, k) # K => Newest(S, k) = Newest(K, k)
<1>1. IsFiniteSet(K) /\ K \in SUBSET Nat
  BY FS_Subset
<1>2. \A n \in K : Above(K, n) = Above(S, n)
  BY DEF Above
<1>3. \A n \in K : n \in Newest(K, k) <=> n \in Newest(S, k)
  BY <1>1, <1>2, NewestAbove
<1>4. Newest(K, k) \subseteq K /\ Newest(S, k) \subseteq S
  BY <1>1, NewestAbove
<1>5. ASSUME NEW x \in K, x \notin Newest(K, k)
      PROVE  Newest(S, k) \subseteq K
  <2>. SUFFICES ASSUME NEW m \in Newest(S, k) PROVE m \in K
    OBVIOUS
  <2>1. x \in S /\ x \notin Newest(S, k)
    BY <1>3, <1>5
  <2>2. x < m
    BY <2>1, NewestAbove
  <2>. QED  BY <2>2, <1>4, <1>5
<1>. QED  BY <1>3, <1>4, <1>5

\* A set of at most k ids is its k newest, and there is one for k = 1 up.
LEMMA NewestAll ==
  ASSUME NEW S \in SUBSET Nat, IsFiniteSet(S), NEW k \in Nat
  PROVE  /\ Cardinality(S) <= k => Newest(S, k) = S
         /\ Newest(S, 0) = {}
         /\ S # {} /\ k > 0 => Newest(S, k) # {}
<1>1. Newest(S, k) \in SUBSET S /\ Cardinality(S) \in Nat
  BY NewestAbove, NewestCount
<1>2. Cardinality(S) <= k => Newest(S, k) = S
  <2>. SUFFICES ASSUME Cardinality(S) <= k, NEW n \in S PROVE n \in Newest(S, k)
    BY <1>1
  <2>1. Cardinality(Above(S, n)) < Cardinality(S) /\ Cardinality(Above(S, n)) \in Nat
    BY AboveTypes
  <2>2. Cardinality(Above(S, n)) < k
    BY <2>1, <1>1
  <2>. QED  BY <2>2, NewestAbove
<1>3. Newest(S, 0) = {}
  <2>. SUFFICES ASSUME NEW n \in S PROVE n \notin Newest(S, 0)
    BY NewestAbove
  <2>1. Cardinality(Above(S, n)) \in Nat
    BY AboveTypes
  <2>2. ~(Cardinality(Above(S, n)) < 0)
    BY <2>1
  <2>. QED  BY <2>2, NewestAbove
<1>4. S # {} /\ k > 0 => Newest(S, k) # {}
  <2>. SUFFICES ASSUME S # {}, k > 0, Newest(S, k) = {} PROVE FALSE
    OBVIOUS
  <2>1. Cardinality(S) # 0
    BY FS_EmptySet
  <2>2. Cardinality(Newest(S, k)) = 0
    BY FS_EmptySet
  <2>3. Cardinality(Newest(S, k)) = IF k <= Cardinality(S) THEN k
                                    ELSE Cardinality(S)
    BY NewestCount
  <2>. QED  BY <2>1, <2>2, <2>3, <1>1
<1>. QED  BY <1>2, <1>3, <1>4

-----------------------------------------------------------------------------
(* One read of NotificationFeed *)

\* What a single request brings, and of that what the filters keep.
Window(c) == Newest(Listed(ask.types, client.cursor.after), FetchLimit(c.limit))
InWindow(c) == Kept(Window(c), client.since)

LEMMA FetchLimitPositive ==
  ASSUME NEW limit \in Limits
  PROVE  limit \in Nat /\ limit > 0 /\ FetchLimit(limit) \in Nat /\ FetchLimit(limit) > 0
<1>1. limit \in Nat /\ limit > 0 /\ MaxLimit \in Nat /\ limit <= MaxLimit
  BY LimitsAreBounded
<1>2. OverFetch \in Nat /\ OverFetch > 0
  BY WindowHoldsAPage
<1>3. limit * OverFetch \in Nat /\ limit * OverFetch > 0
  <2>. DEFINE p == limit * OverFetch
  <2>1. \A x, y \in Nat : x > 0 /\ y > 0 => x * y \in Nat /\ x * y > 0
    OBVIOUS
  <2>. QED  BY <2>1, <1>1, <1>2
<1>4. ASSUME NEW p \in Nat, NEW w \in Nat
      PROVE  Min({p, w}) \in {p, w}
  <2>1. \E x \in {p, w} : \A y \in {p, w} : x =< y
    <3>1. p <= w \/ w <= p
      OBVIOUS
    <3>. QED  BY <3>1
  <2>. QED  BY <2>1 DEF Min
<1>5. Min({limit * OverFetch, MaxLimit}) \in {limit * OverFetch, MaxLimit}
  BY <1>1, <1>3, <1>4
<1>6. MaxLimit > 0
  BY <1>1
<1>. DEFINE p == limit * OverFetch
            w == Min({p, MaxLimit})
<1>7. w \in Nat /\ w > 0
  BY <1>1, <1>3, <1>5, <1>6
<1>8. FetchLimit(limit) = IF Filtered THEN w ELSE limit
  BY DEF FetchLimit
<1>. HIDE DEF w
<1>. QED  BY <1>1, <1>7, <1>8

\* What every set of ids of the feed is.
LEMMA IdsAreFinite ==
  ASSUME FeedTypes, NEW S \in SUBSET (1..Len(feed))
  PROVE  S \in SUBSET Nat /\ IsFiniteSet(S)
<1>1. PICK l \in Nat : l = Len(feed)
  BY DEF FeedTypes
<1>2. IsFiniteSet(1..l)
  BY <1>1, FS_Interval
<1>3. S \in SUBSET (1..l)
  BY <1>1
<1>4. IsFiniteSet(S)
  BY <1>2, <1>3, FS_Subset
<1>5. \A n \in S : n \in Nat
  BY <1>1, <1>3
<1>. QED  BY <1>4, <1>5

\* A page of Lesser's holds ids before the cursor, and its own cursor, if it
\* gives one, is the last of them.
LEMMA PageHolds ==
  ASSUME FeedTypes, NEW q, NEW after \in Nat, NEW k \in Nat, k > 0
  PROVE  LET page == Page(q, after, k)
         IN /\ page.rows = Newest(Listed(q, after), k)
            /\ page.rows \in SUBSET present
            /\ \A n \in page.rows : n < after
            /\ \/ page.more = {} /\ page.rows = Listed(q, after)
               \/ /\ page.more = {Min(page.rows)}
                  /\ Min(page.rows) \in page.rows
                  /\ \A n \in page.rows : Min(page.rows) <= n
<1>. DEFINE all == Listed(q, after)
            W == Newest(all, k)
<1>1. all \in SUBSET present /\ \A n \in all : n < after
  BY DEF Listed
<1>2. all \in SUBSET (1..Len(feed))
  BY <1>1 DEF FeedTypes
<1>3. all \in SUBSET Nat /\ IsFiniteSet(all)
  BY <1>2, IdsAreFinite
<1>4. /\ Page(q, after, k).rows = W
      /\ Page(q, after, k).more = IF all = W THEN {} ELSE {Min(W)}
  BY DEF Page
<1>. HIDE DEF all
<1>5. W \in SUBSET all
  BY <1>3, NewestAbove
<1>6. all # W => W # {}
  BY <1>3, NewestAll
<1>7. W \in SUBSET Nat /\ IsFiniteSet(W)
  BY <1>3, <1>5, FS_Subset
<1>. HIDE DEF W
<1>8. all # W => Min(W) \in W /\ \A n \in W : Min(W) <= n
  BY <1>6, <1>7, NewestOldest
<1>9. Page(q, after, k).rows = Newest(Listed(q, after), k)
  BY <1>4 DEF all, W
<1>. DEFINE r == Page(q, after, k).rows
            e == Page(q, after, k).more
<1>10. r = W /\ e = IF all = W THEN {} ELSE {Min(W)}
  BY <1>4
<1>11. /\ r \in SUBSET present
       /\ \A n \in r : n < after
       /\ \/ e = {} /\ r = all
          \/ e = {Min(r)} /\ Min(r) \in r /\ \A n \in r : Min(r) <= n
  <2>. HIDE DEF r, e
  <2>1. CASE all = W
    BY <2>1, <1>1, <1>10
  <2>2. CASE all # W
    BY <2>2, <1>1, <1>5, <1>8, <1>10
  <2>. QED  BY <2>1, <2>2
<1>. QED  BY <1>9, <1>11 DEF all

\* The fields of a read after an answer of Lesser's.
LEMMA WithPageFields ==
  ASSUME FeedTypes, NEW c \in reading, NEW q \in c.left
  PROVE  LET g == WithPage(c, q)
             page == Page(q, client.cursor.after, FetchLimit(c.limit))
         IN /\ g = [limit |-> c.limit, left |-> c.left \ {q},
                    got |-> c.got \cup page.rows,
                    more |-> IF SingleQuery THEN page.more ELSE {}]
            /\ c.limit \in Limits
            /\ FetchLimit(c.limit) \in Nat /\ FetchLimit(c.limit) > 0
            /\ client.cursor.after \in Nat
            /\ g.got \subseteq 1..Len(feed)
<1>1. c \in [limit : Limits, left : {c.left},
             got : SUBSET (1..Len(feed)), more : {{}}]
  BY DEF FeedTypes
<1>2. c.limit \in Limits /\ c.got \in SUBSET (1..Len(feed))
      /\ c = [limit |-> c.limit, left |-> c.left, got |-> c.got, more |-> c.more]
  BY <1>1
<1>3. WithPage(c, q) =
        [limit |-> c.limit, left |-> c.left \ {q},
         got |-> c.got \cup Page(q, client.cursor.after, FetchLimit(c.limit)).rows,
         more |-> IF SingleQuery
                  THEN Page(q, client.cursor.after, FetchLimit(c.limit)).more
                  ELSE {}]
  <2>1. ASSUME NEW f2, NEW t2, NEW e2,
               NEW L, NEW F, NEW T, NEW E, NEW d \in [limit : L, left : F, got : T, more : E]
        PROVE  [d EXCEPT !.left = f2, !.got = t2, !.more = e2] =
                 [limit |-> d.limit, left |-> f2, got |-> t2, more |-> e2]
    <3>1. [d EXCEPT !.left = f2, !.got = t2, !.more = e2] \in
            [limit : {d.limit}, left : {f2}, got : {t2}, more : {e2}]
      OBVIOUS
    <3>2. ASSUME NEW r \in [limit : {d.limit}, left : {f2}, got : {t2}, more : {e2}]
          PROVE  r = [limit |-> d.limit, left |-> f2, got |-> t2, more |-> e2]
      OBVIOUS
    <3>. QED  BY <3>1, <3>2
  <2>2. WithPage(c, q) =
          [c EXCEPT !.left = c.left \ {q},
             !.got = c.got \cup Page(q, client.cursor.after, FetchLimit(c.limit)).rows,
             !.more = IF SingleQuery
                      THEN Page(q, client.cursor.after, FetchLimit(c.limit)).more
                      ELSE {}]
    BY <1>2 DEF WithPage
  <2>. QED  BY <1>1, <1>2, <2>1, <2>2
<1>4. FetchLimit(c.limit) \in Nat /\ FetchLimit(c.limit) > 0
  BY <1>2, FetchLimitPositive
<1>5. client.cursor.after \in Nat
  BY FeedHasRoom DEF FeedTypes, Top
<1>6. Page(q, client.cursor.after, FetchLimit(c.limit)).rows \in SUBSET present
  BY <1>4, <1>5, PageHolds
<1>7. present \subseteq 1..Len(feed)
  BY DEF FeedTypes
<1>. QED  BY <1>2, <1>3, <1>4, <1>5, <1>6, <1>7

\* What an answer returns: rows the filters keep, and no cursor, or one that is
\* older than its own or deeper in the same window.
LEMMA AnswerShape ==
  ASSUME FeedTypes, NEW c \in reading, NEW q \in c.left
  PROVE  LET g == WithPage(c, q)
             a == ReadAnswer(g)
             w == client.cursor
         IN /\ a.rows = Newest(Rest(g), c.limit)
            /\ Rest(g) \in SUBSET (1..Len(feed))
            /\ Rest(g) \subseteq Kept(g.got, client.since)
            /\ a.rows \subseteq Rest(g)
            /\ \/ /\ Filtered /\ a.rows # Rest(g)
                  /\ a.cursor = {[after |-> w.after, offset |-> w.offset + c.limit]}
               \/ /\ ~(Filtered /\ a.rows # Rest(g))
                  /\ g.more = {} /\ a.cursor = {}
               \/ /\ ~(Filtered /\ a.rows # Rest(g))
                  /\ \E k \in 1..(w.after - 1) :
                       /\ g.more = {k}
                       /\ a.cursor = {[after |-> k, offset |-> 0]}
<1>. DEFINE g == WithPage(c, q)
            a == ReadAnswer(g)
            w == client.cursor
            page == Page(q, w.after, FetchLimit(c.limit))
<1>1. /\ g = [limit |-> c.limit, left |-> c.left \ {q},
              got |-> c.got \cup page.rows,
              more |-> IF SingleQuery THEN page.more ELSE {}]
      /\ c.limit \in Limits
      /\ FetchLimit(c.limit) \in Nat /\ FetchLimit(c.limit) > 0
      /\ w.after \in Nat
      /\ g.got \subseteq 1..Len(feed)
  BY WithPageFields
<1>2. g.limit = c.limit /\ g.more = IF SingleQuery THEN page.more ELSE {}
  BY <1>1
<1>3. /\ page.rows \in SUBSET present
      /\ \A n \in page.rows : n < w.after
      /\ \/ page.more = {}
         \/ page.more = {Min(page.rows)} /\ Min(page.rows) \in page.rows
  BY <1>1, PageHolds
<1>. HIDE DEF g, page
<1>4. Kept(g.got, client.since) \in SUBSET (1..Len(feed))
  BY <1>1 DEF Kept
<1>5. Rest(g) \in SUBSET (1..Len(feed)) /\ Rest(g) \subseteq Kept(g.got, client.since)
  BY <1>4 DEF Rest, Older
<1>6. a.rows = Newest(Rest(g), c.limit)
  BY <1>2 DEF ReadAnswer
<1>7. a.rows \subseteq Rest(g)
  BY <1>6 DEF Newest
<1>8. a.cursor = IF Filtered /\ a.rows # Rest(g)
                 THEN {[after |-> w.after, offset |-> w.offset + c.limit]}
                 ELSE {[after |-> k, offset |-> 0] : k \in g.more}
  BY <1>2, <1>6 DEF ReadAnswer, Deeper, Further
<1>. HIDE DEF a
<1>9. CASE ~(Filtered /\ a.rows # Rest(g)) /\ g.more = {}
  BY <1>5, <1>6, <1>7, <1>8, <1>9 DEF a, g
<1>10. CASE ~(Filtered /\ a.rows # Rest(g)) /\ g.more # {}
  <2>1. PICK k : k = Min(page.rows) /\ g.more = {k} /\ k \in page.rows
    BY <1>2, <1>3, <1>10
  <2>2. k \in present /\ k < w.after
    BY <2>1, <1>3
  <2>3. k \in 1..(w.after - 1)
    <3>1. k \in 1..Len(feed)
      BY <2>2 DEF FeedTypes
    <3>2. k \in Nat /\ k >= 1
      <4>1. Len(feed) \in Nat
        BY DEF FeedTypes
      <4>. QED  BY <3>1, <4>1
    <3>3. ASSUME NEW v \in Nat, k < v PROVE k \in 1..(v - 1)
      BY <3>2, <3>3
    <3>. QED  BY <3>3, <2>2, <1>1
  <2>4. a.cursor = {[after |-> k, offset |-> 0]}
    BY <2>1, <1>8, <1>10
  <2>. QED  BY <1>5, <1>6, <1>7, <1>10, <2>1, <2>3, <2>4 DEF a, g
<1>11. CASE Filtered /\ a.rows # Rest(g)
  BY <1>5, <1>6, <1>7, <1>8, <1>11 DEF a, g
<1>. QED  BY <1>9, <1>10, <1>11

\* What Return does when the last query of c is answered.
Returns(c, q) ==
  LET a == ReadAnswer(WithPage(c, q))
  IN /\ c.left = {q}
     /\ shown' = shown \cup a.rows
     /\ client' = [client EXCEPT
           !.next = IF client.cursor = FirstPage THEN NextSince(a.rows) ELSE @,
           !.state = IF a.cursor = {} THEN "ended" ELSE "paging",
           !.cursor = IF a.cursor = {} THEN FirstPage
                      ELSE CHOOSE k \in a.cursor : TRUE]
     /\ reading' = NoCall
     /\ UNCHANGED <<profile, feed, present, ask>>

LEMMA ReturnEffect ==
  ASSUME FeedTypes, NEW c \in reading, NEW q \in c.left,
         Returns(c, q)
  PROVE  LET g == WithPage(c, q)
             a == ReadAnswer(g)
             w == client.cursor
         IN /\ client'.since = client.since /\ client'.begun = client.begun
            /\ client'.torn = client.torn
            /\ client'.next = IF w = FirstPage THEN NextSince(a.rows) ELSE client.next
            /\ client'.next \in 0..Len(feed)
            /\ client' \in [state : {"ended", "paging", "refused"}, since : 0..Len(feed),
                            next : 0..Len(feed), cursor : [after : 1..Top, offset : Nat],
                            begun : 0..Len(feed), torn : BOOLEAN]
            /\ \/ /\ Filtered /\ a.rows # Rest(g) /\ client'.state = "paging"
                  /\ client'.cursor = [after |-> w.after, offset |-> w.offset + c.limit]
               \/ /\ ~(Filtered /\ a.rows # Rest(g))
                  /\ g.more = {} /\ client'.state = "ended" /\ client'.cursor = FirstPage
               \/ /\ ~(Filtered /\ a.rows # Rest(g)) /\ client'.state = "paging"
                  /\ \E k \in 1..(w.after - 1) :
                       /\ g.more = {k}
                       /\ client'.cursor = [after |-> k, offset |-> 0]
<1>. DEFINE g == WithPage(c, q)
            a == ReadAnswer(g)
            w == client.cursor
            L == 0..Len(feed)
            C == [after : 1..Top, offset : Nat]
<1>0. client \in [state : {"ended", "paging", "refused"}, since : L, next : L,
                  cursor : C, begun : L, torn : BOOLEAN]
  BY DEF FeedTypes
<1>. HIDE DEF g
<1>1. /\ a.rows \subseteq Rest(g) /\ Rest(g) \in SUBSET (1..Len(feed))
      /\ \/ /\ Filtered /\ a.rows # Rest(g)
            /\ a.cursor = {[after |-> w.after, offset |-> w.offset + c.limit]}
         \/ /\ ~(Filtered /\ a.rows # Rest(g))
            /\ g.more = {} /\ a.cursor = {}
         \/ /\ ~(Filtered /\ a.rows # Rest(g))
            /\ \E k \in 1..(w.after - 1) :
                 /\ g.more = {k}
                 /\ a.cursor = {[after |-> k, offset |-> 0]}
  BY AnswerShape DEF g
<1>. HIDE DEF a
<1>2. client' = [client EXCEPT
           !.next = IF w = FirstPage THEN NextSince(a.rows) ELSE client.next,
           !.state = IF a.cursor = {} THEN "ended" ELSE "paging",
           !.cursor = IF a.cursor = {} THEN FirstPage
                      ELSE CHOOSE k \in a.cursor : TRUE]
  BY DEF a, g, Returns
<1>3. NextSince(a.rows) \in L
  <2>1. CASE a.rows = {}
    BY <2>1, <1>0 DEF NextSince
  <2>2. CASE a.rows # {}
    <3>1. a.rows \in SUBSET (1..Len(feed))
      BY <1>1
    <3>2. a.rows \in SUBSET Nat /\ IsFiniteSet(a.rows)
      BY <3>1, IdsAreFinite
    <3>3. Max(a.rows) \in a.rows
      BY <3>2, <2>2, NewestOldest
    <3>4. Len(feed) \in Nat
      BY DEF FeedTypes
    <3>. QED  BY <2>2, <3>1, <3>3, <3>4 DEF NextSince
  <2>. QED  BY <2>1, <2>2
<1>4. \A x : (CHOOSE k \in {x} : TRUE) = x
  OBVIOUS
<1>. HIDE DEF L, C
<1>5. /\ client'.since = client.since /\ client'.begun = client.begun
      /\ client'.torn = client.torn
      /\ client'.next = IF w = FirstPage THEN NextSince(a.rows) ELSE client.next
      /\ client'.state = IF a.cursor = {} THEN "ended" ELSE "paging"
      /\ client'.cursor = IF a.cursor = {} THEN FirstPage
                          ELSE CHOOSE k \in a.cursor : TRUE
  BY <1>0, <1>2
<1>6. client'.next \in L
  BY <1>0, <1>3, <1>5
<1>7. \/ /\ Filtered /\ a.rows # Rest(g) /\ client'.state = "paging"
         /\ client'.cursor = [after |-> w.after, offset |-> w.offset + c.limit]
      \/ /\ ~(Filtered /\ a.rows # Rest(g))
         /\ g.more = {} /\ client'.state = "ended" /\ client'.cursor = FirstPage
      \/ /\ ~(Filtered /\ a.rows # Rest(g)) /\ client'.state = "paging"
         /\ \E k \in 1..(w.after - 1) :
              /\ g.more = {k}
              /\ client'.cursor = [after |-> k, offset |-> 0]
  <2>1. CASE Filtered /\ a.rows # Rest(g)
    BY <2>1, <1>1, <1>4, <1>5
  <2>2. CASE ~(Filtered /\ a.rows # Rest(g)) /\ g.more = {} /\ a.cursor = {}
    BY <2>2, <1>5
  <2>3. CASE /\ ~(Filtered /\ a.rows # Rest(g))
             /\ \E k \in 1..(w.after - 1) :
                  /\ g.more = {k}
                  /\ a.cursor = {[after |-> k, offset |-> 0]}
    <3>1. PICK k \in 1..(w.after - 1) :
            g.more = {k} /\ a.cursor = {[after |-> k, offset |-> 0]}
      BY <2>3
    <3>2. client'.state = "paging" /\ client'.cursor = [after |-> k, offset |-> 0]
      BY <3>1, <1>4, <1>5
    <3>. QED  BY <2>3, <3>1, <3>2
  <2>. QED  BY <1>1, <2>1, <2>2, <2>3
<1>8. client'.cursor \in C
  <2>1. w \in C /\ w.after \in 1..Top /\ w.offset \in Nat /\ Top \in Nat /\ Top >= 1
    BY <1>0, FeedHasRoom DEF C, Top
  <2>2. c.limit \in Nat
    BY WithPageFields, FetchLimitPositive
  <2>3. [after |-> w.after, offset |-> w.offset + c.limit] \in C
    <3>1. w.offset + c.limit \in Nat
      BY <2>1, <2>2
    <3>. QED  BY <2>1, <3>1 DEF C
  <2>4. FirstPage \in C
    BY <2>1 DEF C, FirstPage
  <2>5. ASSUME NEW k \in 1..(w.after - 1)
        PROVE  [after |-> k, offset |-> 0] \in C
    <3>1. k \in 1..Top
      BY <2>1
    <3>. QED  BY <3>1 DEF C
  <2>. QED  BY <1>7, <2>3, <2>4, <2>5
<1>9. client' \in [state : {"ended", "paging", "refused"}, since : L, next : L,
                   cursor : C, begun : L, torn : BOOLEAN]
  <2>. DEFINE s2 == IF a.cursor = {} THEN "ended" ELSE "paging"
              n2 == client'.next
              c2 == client'.cursor
  <2>1. s2 \in {"ended", "paging", "refused"} /\ n2 \in L /\ c2 \in C
    BY <1>6, <1>8
  <2>2. client' = [client EXCEPT !.next = n2, !.state = s2, !.cursor = c2]
    BY <1>0, <1>2
  <2>. HIDE DEF s2, n2, c2
  <2>. QED  BY <1>0, <2>1, <2>2
<1>. QED  BY <1>5, <1>6, <1>7, <1>9 DEF a, g, L, C

-----------------------------------------------------------------------------
(* Types, and what a profile without communications is shown *)

LEMMA FeedStarts ==
  ASSUME FeedInit
  PROVE  FeedInv
<1>1. Initial \in Nat /\ MaxRows \in Nat /\ Initial <= MaxRows
  BY FeedHasRoom
<1>2. feed \in Seq(Rows) /\ Len(feed) = Initial
  BY <1>1 DEF FeedInit
<1>3. FeedTypes
  <2>1. FirstPage \in [after : 1..Top, offset : Nat] /\ 0 \in 0..Initial
    BY <1>1 DEF FirstPage, Top
  <2>. QED  BY <1>1, <1>2, <2>1 DEF FeedInit, FeedTypes, NoCall
<1>4. RoundShape
  BY DEF FeedInit, RoundShape, NoCall, FirstPage
<1>5. RoundInv
  <2>1. \A n \in present : n \in Nat /\ n >= 1
    BY <1>1 DEF FeedInit
  <2>. QED  BY <2>1 DEF FeedInit, RoundInv, Due
<1>6. ShownVisible
  BY DEF FeedInit, ShownVisible
<1>. QED  BY <1>3, <1>4, <1>5, <1>6 DEF FeedInv

\* What the steps that leave the rows alone leave as it was.
LEMMA SameRows ==
  ASSUME UNCHANGED <<profile, feed, ask>>
  PROVE  /\ SingleQuery' = SingleQuery /\ Filtered' = Filtered
         /\ \A n : Visible(feed[n])' = Visible(feed[n]) /\ Matches(n)' = Matches(n)
  BY DEF SingleQuery, Filtered, Visible, Matches, TypeMatches, ActorMatches

LEMMA ReturnTypes ==
  ASSUME FeedTypes, RoundShape, ShownVisible, NEW c \in reading, NEW q \in c.left,
         Returns(c, q)
  PROVE  FeedTypes' /\ RoundShape' /\ ShownVisible'
<1>1. /\ shown' = shown \cup ReadAnswer(WithPage(c, q)).rows
      /\ reading' = NoCall
      /\ UNCHANGED <<profile, feed, present, ask>>
  BY DEF Returns
<1>. DEFINE g == WithPage(c, q)
            a == ReadAnswer(g)
            w == client.cursor
<1>2. /\ client' \in [state : {"ended", "paging", "refused"}, since : 0..Len(feed),
                      next : 0..Len(feed), cursor : [after : 1..Top, offset : Nat],
                      begun : 0..Len(feed), torn : BOOLEAN]
      /\ \/ /\ Filtered /\ client'.state = "paging"
            /\ client'.cursor = [after |-> w.after, offset |-> w.offset + c.limit]
         \/ client'.state = "ended" /\ client'.cursor = FirstPage
         \/ /\ client'.state = "paging"
            /\ \E k \in 1..(w.after - 1) :
                 client'.cursor = [after |-> k, offset |-> 0]
  BY <1>1, ReturnEffect
<1>3. /\ a.rows \subseteq Kept(g.got, client.since)
      /\ a.rows \subseteq 1..Len(feed)
  BY AnswerShape
<1>4. w.after \in 1..Top /\ w.offset \in Nat /\ Top \in Nat
      /\ c.limit \in Nat /\ c.limit > 0
  BY FeedHasRoom, WithPageFields, FetchLimitPositive DEF FeedTypes, Top
<1>5. FeedTypes'
  <2>1. shown' \subseteq 1..Len(feed)
    BY <1>1, <1>3 DEF FeedTypes
  <2>2. client' \in [state : {"ended", "paging", "refused"}, since : 0..Len(feed'),
                      next : 0..Len(feed'), cursor : [after : 1..Top, offset : Nat],
                      begun : 0..Len(feed'), torn : BOOLEAN]
    BY <1>1, <1>2
  <2>. QED  BY <1>1, <2>1, <2>2 DEF FeedTypes, NoCall
<1>6. RoundShape'
  <2>1. CASE /\ Filtered /\ client'.state = "paging"
             /\ client'.cursor = [after |-> w.after, offset |-> w.offset + c.limit]
    <3>1. client'.cursor.offset = w.offset + c.limit /\ w.offset + c.limit > 0
      BY <2>1, <1>4
    <3>2. client'.cursor # FirstPage
      BY <3>1 DEF FirstPage
    <3>. QED  BY <1>1, <2>1, <3>2, SameRows DEF RoundShape, NoCall
  <2>2. CASE client'.state = "ended" /\ client'.cursor = FirstPage
    BY <1>1, <2>2 DEF RoundShape, NoCall, FirstPage
  <2>3. CASE /\ client'.state = "paging"
             /\ \E k \in 1..(w.after - 1) :
                  client'.cursor = [after |-> k, offset |-> 0]
    <3>1. client'.cursor.after # Top /\ client'.cursor.offset = 0
      BY <2>3, <1>4
    <3>2. client'.cursor # FirstPage
      BY <3>1 DEF FirstPage
    <3>. QED  BY <1>1, <3>1, <3>2 DEF RoundShape, NoCall
  <2>. QED  BY <1>2, <2>1, <2>2, <2>3
<1>7. ShownVisible'
  <2>1. \A n \in a.rows : Visible(feed[n])
    BY <1>3 DEF Kept
  <2>. HIDE DEF a
  <2>2. \A n : Visible(feed[n])' = Visible(feed[n])
    BY <1>1, SameRows
  <2>. QED  BY <1>1, <2>1, <2>2 DEF ShownVisible, a
<1>. QED  BY <1>5, <1>6, <1>7

LEMMA PostTypes ==
  ASSUME FeedTypes, RoundShape, ShownVisible, NEW row \in Rows, Notify(row)
  PROVE  FeedTypes' /\ RoundShape' /\ ShownVisible'
<1>1. PICK l \in Nat : l = Len(feed)
  BY DEF FeedTypes
<1>2. /\ feed' \in Seq(Rows) /\ Len(feed') = l + 1 /\ Len(feed) < MaxRows
      /\ \A n \in 1..Len(feed) : feed'[n] = feed[n]
  BY <1>1 DEF FeedTypes, Notify
<1>3. MaxRows \in Nat /\ l + 1 <= MaxRows
  BY <1>1, <1>2, FeedHasRoom
<1>4. 1..Len(feed) \subseteq 1..Len(feed') /\ 0..Len(feed) \subseteq 0..Len(feed')
      /\ Len(feed) + 1 \in 1..Len(feed')
  BY <1>1, <1>2
<1>. DEFINE A == 0..Len(feed)
            B == 0..Len(feed')
            X == 1..Len(feed)
            Y == 1..Len(feed')
<1>5. FeedTypes'
  <2>. HIDE DEF A, B, X, Y
  <2>1. client' \in [state : {"ended", "paging", "refused"}, since : B, next : B,
                     cursor : [after : 1..Top, offset : Nat],
                     begun : B, torn : BOOLEAN]
    <3>1. client \in [state : {"ended", "paging", "refused"}, since : A, next : A,
                      cursor : [after : 1..Top, offset : Nat],
                      begun : A, torn : BOOLEAN]
      BY DEF FeedTypes, A
    <3>2. A \subseteq B /\ client' = client
      BY <1>4 DEF Notify, A, B
    <3>. HIDE DEF Top
    <3>. QED  BY <3>1, <3>2
  <2>2. ASSUME NEW c \in reading'
        PROVE  /\ c \in [limit : Limits, left : {c.left}, got : SUBSET Y, more : {{}}]
               /\ SingleQuery' => c.left = {ask'.types} /\ c.got = {}
    <3>1. c \in [limit : Limits, left : {c.left}, got : SUBSET X, more : {{}}]
          /\ (SingleQuery => c.left = {ask.types} /\ c.got = {})
      BY <2>2 DEF FeedTypes, Notify, X
    <3>2. X \subseteq Y
      BY <1>4 DEF X, Y
    <3>. QED  BY <3>1, <3>2 DEF Notify, SingleQuery
  <2>3. present' \subseteq Y /\ shown' \subseteq Y
    BY <1>4 DEF Notify, FeedTypes, Y
  <2>4. profile' \in {"souled", "drone"}
    BY DEF Notify, FeedTypes
  <2>5. Len(feed') <= MaxRows
    BY <1>2, <1>3
  <2>. QED  BY <1>2, <2>1, <2>2, <2>3, <2>4, <2>5 DEF FeedTypes, B, Y
<1>6. RoundShape'
  BY DEF RoundShape, Notify, Filtered
<1>7. ShownVisible'
  BY <1>2 DEF ShownVisible, Notify, Visible, FeedTypes
<1>. QED  BY <1>5, <1>6, <1>7

LEMMA OtherTypes ==
  ASSUME FeedTypes, RoundShape, ShownVisible,
         \/ BeginRound \/ Refuse \/ \E limit \in Limits : Ask(limit)
         \/ FetchQuery \/ Fail \/ \E n \in Ids : Open(n)
         \/ \E gone : Dismissed(gone) \/ UNCHANGED feedVars
  PROVE  FeedTypes' /\ RoundShape' /\ ShownVisible'
<1>1. CASE BeginRound
  <2>1. PICK l \in Nat : l = Len(feed)
    BY DEF FeedTypes
  <2>2. FirstPage \in [after : 1..Top, offset : Nat]
    BY FeedHasRoom DEF FirstPage, Top
  <2>. HIDE DEF Top
  <2>3. FeedTypes'
    <3>1. client.next \in 0..l /\ l \in 0..l /\ client.torn \in BOOLEAN
      BY <2>1 DEF FeedTypes
    <3>2. client' \in [state : {"ended", "paging", "refused"}, since : 0..l,
                       next : 0..l, cursor : [after : 1..Top, offset : Nat],
                       begun : 0..l, torn : BOOLEAN]
      BY <1>1, <2>1, <2>2, <3>1 DEF BeginRound
    <3>. QED  BY <1>1, <2>1, <3>2 DEF FeedTypes, BeginRound, NoCall
  <2>4. RoundShape'
    BY <1>1 DEF RoundShape, BeginRound, NoCall, FirstPage
  <2>5. ShownVisible'
    BY <1>1, SameRows DEF ShownVisible, BeginRound
  <2>. QED  BY <2>3, <2>4, <2>5
<1>2. CASE Refuse
  <2>. HIDE DEF Top
  <2>1. FeedTypes'
    BY <1>2 DEF FeedTypes, Refuse, SingleQuery
  <2>2. RoundShape'
    BY <1>2 DEF RoundShape, Refuse, FeedTypes, Filtered
  <2>3. ShownVisible'
    BY <1>2, SameRows DEF ShownVisible, Refuse
  <2>. QED  BY <2>1, <2>2, <2>3
<1>3. CASE \E limit \in Limits : Ask(limit)
  <2>. HIDE DEF Top
  <2>1. PICK limit \in Limits : Ask(limit)
    BY <1>3
  <2>2. FeedTypes'
    BY <2>1 DEF FeedTypes, Ask, Queries, SingleQuery
  <2>3. RoundShape'
    BY <2>1 DEF RoundShape, Ask, Filtered
  <2>4. ShownVisible'
    BY <2>1, SameRows DEF ShownVisible, Ask
  <2>. QED  BY <2>2, <2>3, <2>4
<1>4. CASE FetchQuery
  <2>. HIDE DEF Top
  <2>0. PICK c \in reading : \E q \in c.left :
          /\ c.left # {q} /\ reading' = {WithPage(c, q)}
          /\ UNCHANGED <<profile, feed, present, ask, client, shown>>
    BY <1>4 DEF FetchQuery
  <2>1. PICK q \in c.left :
          /\ c.left # {q} /\ reading' = {WithPage(c, q)}
          /\ UNCHANGED <<profile, feed, present, ask, client, shown>>
    BY <2>0
  <2>2. ~SingleQuery
    BY <2>1 DEF FeedTypes
  <2>3. WithPage(c, q) \in
          [limit : Limits, left : {WithPage(c, q).left},
           got : SUBSET (1..Len(feed)), more : {{}}]
    <3>. DEFINE g == WithPage(c, q)
    <3>1. /\ \E t, u : g = [limit |-> c.limit, left |-> t, got |-> u, more |-> {}]
          /\ c.limit \in Limits /\ g.got \subseteq 1..Len(feed)
      BY <2>2, WithPageFields
    <3>. HIDE DEF g
    <3>2. g \in [limit : Limits, left : {g.left}, got : SUBSET (1..Len(feed)),
                 more : {{}}]
      BY <3>1
    <3>. QED  BY <3>2 DEF g
  <2>4. FeedTypes'
    BY <2>1, <2>2, <2>3 DEF FeedTypes, SingleQuery
  <2>5. RoundShape'
    BY <2>1 DEF RoundShape, Filtered
  <2>6. ShownVisible'
    BY <2>1, SameRows DEF ShownVisible
  <2>. QED  BY <2>4, <2>5, <2>6
<1>5. CASE Fail
  <2>. HIDE DEF Top
  <2>1. FeedTypes'
    BY <1>5 DEF FeedTypes, Fail, NoCall
  <2>2. RoundShape'
    BY <1>5 DEF RoundShape, Fail, NoCall, Filtered
  <2>3. ShownVisible'
    BY <1>5, SameRows DEF ShownVisible, Fail
  <2>. QED  BY <2>1, <2>2, <2>3
<1>6. CASE \E n \in Ids : Open(n)
  <2>. HIDE DEF Top
  <2>1. PICK n : Open(n)
    BY <1>6
  <2>2. FeedTypes'
    BY <2>1 DEF FeedTypes, Open, SingleQuery
  <2>3. RoundShape'
    BY <2>1 DEF RoundShape, Open, Filtered
  <2>4. ShownVisible'
    BY <2>1, SameRows DEF ShownVisible, Open
  <2>. QED  BY <2>2, <2>3, <2>4
<1>7. CASE \E gone : Dismissed(gone)
  <2>. HIDE DEF Top
  <2>1. PICK gone : Dismissed(gone)
    BY <1>7
  <2>2. Tears(gone) \in BOOLEAN
    <3>1. client.torn \in BOOLEAN
      BY DEF FeedTypes
    <3>. QED  BY <3>1 DEF Tears
  <2>3. client' = [client EXCEPT !.torn = Tears(gone)]
    BY <2>1 DEF Dismissed
  <2>. HIDE DEF Tears
  <2>4. client' \in [state : {"ended", "paging", "refused"}, since : 0..Len(feed),
                     next : 0..Len(feed), cursor : [after : 1..Top, offset : Nat],
                     begun : 0..Len(feed), torn : BOOLEAN]
    BY <2>2, <2>3 DEF FeedTypes
  <2>5. FeedTypes'
    BY <2>1, <2>4 DEF FeedTypes, Dismissed, SingleQuery
  <2>6. client'.state = client.state /\ client'.cursor = client.cursor
        /\ client'.next = client.next /\ client'.since = client.since
    BY <2>3 DEF FeedTypes
  <2>7. RoundShape'
    BY <2>1, <2>6 DEF RoundShape, Dismissed, Filtered
  <2>8. ShownVisible'
    BY <2>1, SameRows DEF ShownVisible, Dismissed
  <2>. QED  BY <2>5, <2>7, <2>8
<1>8. CASE UNCHANGED feedVars
  <2>. HIDE DEF Top
  <2>1. FeedTypes'
    BY <1>8 DEF FeedTypes, feedVars, SingleQuery
  <2>2. RoundShape'
    BY <1>8 DEF RoundShape, feedVars, Filtered
  <2>3. ShownVisible'
    BY <1>8, SameRows DEF ShownVisible, feedVars
  <2>. QED  BY <2>1, <2>2, <2>3
<1>. QED  BY <1>1, <1>2, <1>3, <1>4, <1>5, <1>6, <1>7, <1>8

-----------------------------------------------------------------------------
(* Nothing that is due goes out of reach *)

LEMMA PendingIds ==
  ASSUME FeedTypes
  PROVE  Ahead \in SUBSET Nat /\ IsFiniteSet(Ahead)
<1>1. Ahead \in SUBSET (1..Len(feed))
  BY DEF Ahead, FeedTypes
<1>. QED  BY <1>1, IdsAreFinite

\* What one request brings of the pending matches are the newest of them.
LEMMA WindowIsTop ==
  ASSUME FeedTypes, NEW c \in reading
  PROVE  /\ InWindow(c) \in SUBSET Ahead
         /\ \A n \in InWindow(c), m \in Ahead : n < m => m \in InWindow(c)
         /\ \A n \in Window(c), m \in Ahead : n <= m => m \in InWindow(c)
         /\ IsFiniteSet(Window(c))
         /\ Cardinality(Window(c)) <= FetchLimit(c.limit)
<1>. DEFINE all == Listed(ask.types, client.cursor.after)
            k == FetchLimit(c.limit)
            W == Newest(all, k)
<1>1. k \in Nat
  BY FetchLimitPositive DEF FeedTypes
<1>2. all \in SUBSET (1..Len(feed)) /\ all \in SUBSET present
      /\ \A n \in all : n < client.cursor.after
  BY DEF FeedTypes, Listed
<1>3. all \in SUBSET Nat /\ IsFiniteSet(all)
  BY <1>2, IdsAreFinite
<1>4. Ahead \subseteq all
  BY DEF Ahead, Listed, Matches, TypeMatches
<1>. HIDE DEF all, k
<1>5. /\ W \subseteq all
      /\ \A n \in all, m \in W : m < n => n \in W
  BY <1>1, <1>3, NewestAbove
<1>6. IsFiniteSet(W) /\ Cardinality(W) <= k
  <2>1. /\ IsFiniteSet(W) /\ Cardinality(all) \in Nat
        /\ Cardinality(W) = IF k <= Cardinality(all) THEN k ELSE Cardinality(all)
    BY <1>1, <1>3, NewestCount
  <2>. QED  BY <2>1, <1>1
<1>7. Window(c) = W
  BY DEF Window, all, k
<1>. HIDE DEF W
<1>8. \A n : n \in InWindow(c) <=> n \in W /\ Matches(n) /\ client.since < n
  BY <1>7 DEF InWindow, Kept, Matches, After
<1>9. ASSUME NEW n \in W, NEW m \in Ahead, n <= m
      PROVE  m \in InWindow(c)
  <2>1. n \in Nat /\ m \in Nat /\ m \in all
    BY <1>3, <1>4, <1>5
  <2>2. n = m \/ n < m
    BY <1>9, <2>1
  <2>3. m \in W
    BY <2>1, <2>2, <1>5
  <2>4. Matches(m) /\ client.since < m
    BY DEF Ahead
  <2>. QED  BY <2>3, <2>4, <1>8
<1>10. \A n \in InWindow(c), m \in Ahead : n < m => m \in InWindow(c)
  <2>. SUFFICES ASSUME NEW n \in InWindow(c), NEW m \in Ahead, n < m
                PROVE  m \in InWindow(c)
    OBVIOUS
  <2>1. n \in W
    BY <1>8
  <2>2. n <= m
    BY <2>1, <1>3, <1>4, <1>5
  <2>. QED  BY <2>1, <2>2, <1>9
<1>11. InWindow(c) \in SUBSET Ahead
  BY <1>2, <1>5, <1>8 DEF Ahead
<1>. QED  BY <1>6, <1>7, <1>9, <1>10, <1>11 DEF k

\* The rows of an answer and what the offset counted before are, of the window,
\* all when the next cursor leaves it, and the newest the next offset counts
\* when it stays.
LEMMA RowsCount ==
  ASSUME FeedTypes, SingleQuery, NEW c \in reading, NEW q \in c.left
  PROVE  LET g == WithPage(c, q)
             a == ReadAnswer(g)
             o == client.cursor.offset
         IN /\ g.got = Window(c)
            /\ ~(Filtered /\ a.rows # Rest(g)) =>
                 \A n \in InWindow(c) : n \in a.rows \/ n \in Newest(Ahead, o)
            /\ Filtered /\ a.rows # Rest(g) =>
                 \A n \in Newest(Ahead, o + c.limit) :
                   n \in a.rows \/ n \in Newest(Ahead, o)
<1>. DEFINE g == WithPage(c, q)
            a == ReadAnswer(g)
            o == client.cursor.offset
            l == c.limit
            K == InWindow(c)
            T == Older(K, o)
<1>1. q = ask.types /\ c.got = {}
  BY DEF FeedTypes
<1>2. /\ \E t, u : g = [limit |-> l, left |-> t, more |-> u,
               got |-> c.got \cup Page(q, client.cursor.after, FetchLimit(l)).rows]
      /\ l \in Limits /\ FetchLimit(l) \in Nat
      /\ FetchLimit(l) > 0 /\ client.cursor.after \in Nat
  BY WithPageFields
<1>3. Page(q, client.cursor.after, FetchLimit(l)).rows = Window(c)
  <2>1. Page(q, client.cursor.after, FetchLimit(l)).rows =
          Newest(Listed(q, client.cursor.after), FetchLimit(l))
    BY <1>2, PageHolds
  <2>. QED  BY <2>1, <1>1 DEF Window
<1>4. g.got = Window(c)
  BY <1>1, <1>2, <1>3
<1>5. l \in Nat /\ o \in Nat
  BY <1>2, FetchLimitPositive DEF FeedTypes
<1>. HIDE DEF g
<1>6. a.rows = Newest(Rest(g), l)
  BY AnswerShape DEF g
<1>7. Rest(g) = IF Filtered THEN T ELSE K
  BY <1>4 DEF Rest, InWindow
<1>8. /\ K \in SUBSET Ahead /\ Ahead \in SUBSET Nat /\ IsFiniteSet(Ahead)
      /\ \A n \in K, m \in Ahead : n < m => m \in K
      /\ IsFiniteSet(Window(c)) /\ Cardinality(Window(c)) <= FetchLimit(l)
  BY PendingIds, WindowIsTop
<1>9. K \in SUBSET Nat /\ IsFiniteSet(K)
  BY <1>8, FS_Subset
<1>10. K \in SUBSET Window(c)
  BY DEF InWindow, Kept
<1>. HIDE DEF a, K, o, l
<1>11. Newest(K, o) \subseteq Newest(Ahead, o)
  BY <1>5, <1>8, NewestOfTop
<1>12. ASSUME ~(Filtered /\ a.rows # Rest(g)), NEW n \in K
       PROVE  n \in a.rows \/ n \in Newest(Ahead, o)
  <2>1. CASE Filtered
    BY <2>1, <1>7, <1>11, <1>12 DEF Older
  <2>2. CASE ~Filtered
    <3>1. FetchLimit(l) = l
      BY <2>2 DEF FetchLimit
    <3>2. Cardinality(K) <= Cardinality(Window(c))
          /\ Cardinality(K) \in Nat /\ Cardinality(Window(c)) \in Nat
      BY <1>8, <1>9, <1>10, FS_Subset, FS_CardinalityType
    <3>3. Cardinality(K) <= l
      BY <3>1, <3>2, <1>5, <1>8
    <3>4. Newest(K, l) = K
      BY <3>3, <1>5, <1>9, NewestAll
    <3>. QED  BY <2>2, <3>4, <1>6, <1>7, <1>12
  <2>. QED  BY <2>1, <2>2
<1>13. ASSUME Filtered, a.rows # Rest(g), NEW n \in Newest(Ahead, o + l)
       PROVE  n \in a.rows \/ n \in Newest(Ahead, o)
  <2>1. Rest(g) = T /\ a.rows = Newest(T, l) /\ Newest(T, l) # T
    BY <1>6, <1>7, <1>13
  <2>2. PICK x \in T : x \notin Newest(T, l)
    <3>1. Newest(T, l) \subseteq T
      BY DEF Newest
    <3>. QED  BY <3>1, <2>1
  <2>3. x \notin Newest(K, o + l)
    BY <2>2, <1>5, <1>9, NewestSplit
  <2>4. x \in K
    BY DEF Older
  <2>5. Newest(Ahead, o + l) = Newest(K, o + l)
    <3>1. o + l \in Nat
      BY <1>5
    <3>2. Newest(K, o + l) # K
      BY <2>3, <2>4
    <3>. QED  BY <3>1, <3>2, <1>8, NewestOfTop
  <2>6. n \in Newest(K, o + l) /\ n \in K
    BY <2>5, <1>13 DEF Newest
  <2>7. CASE n \in Newest(K, o)
    BY <2>7, <1>11
  <2>8. CASE n \notin Newest(K, o)
    <3>1. n \in T
      BY <2>6, <2>8 DEF Older
    <3>2. n \in Newest(T, l)
      BY <3>1, <2>6, <1>5, <1>9, NewestSplit
    <3>. QED  BY <3>2, <2>1
  <2>. QED  BY <2>7, <2>8
<1>. QED  BY <1>4, <1>12, <1>13 DEF a, g, K, o, l

\* The cursor of an answer that leaves a window is the oldest id of it, and
\* there is none when the window held all there was.
LEMMA WindowEnds ==
  ASSUME FeedTypes, SingleQuery, NEW c \in reading, NEW q \in c.left
  PROVE  LET g == WithPage(c, q)
         IN /\ g.more = {} => Ahead \subseteq InWindow(c)
            /\ \A k : g.more = {k} => k \in Window(c)
<1>. DEFINE g == WithPage(c, q)
            page == Page(q, client.cursor.after, FetchLimit(c.limit))
<1>1. q = ask.types
  BY DEF FeedTypes
<1>2. /\ g.more = page.more
      /\ FetchLimit(c.limit) \in Nat /\ FetchLimit(c.limit) > 0
      /\ client.cursor.after \in Nat
  <2>1. /\ \E t, u : g = [limit |-> c.limit, left |-> t, got |-> u,
                          more |-> IF SingleQuery THEN page.more ELSE {}]
        /\ FetchLimit(c.limit) \in Nat /\ FetchLimit(c.limit) > 0
        /\ client.cursor.after \in Nat
    BY WithPageFields
  <2>. HIDE DEF g, page
  <2>2. g.more = page.more
    BY <2>1
  <2>. QED  BY <2>1, <2>2
<1>3. /\ page.rows = Newest(Listed(q, client.cursor.after), FetchLimit(c.limit))
      /\ \/ page.more = {} /\ page.rows = Listed(q, client.cursor.after)
         \/ page.more = {Min(page.rows)} /\ Min(page.rows) \in page.rows
  <2>1. /\ FetchLimit(c.limit) \in Nat /\ FetchLimit(c.limit) > 0
        /\ client.cursor.after \in Nat
    BY <1>2
  <2>2. ASSUME NEW k \in Nat, k > 0, NEW after \in Nat
        PROVE  /\ Page(q, after, k).rows = Newest(Listed(q, after), k)
               /\ \/ /\ Page(q, after, k).more = {}
                     /\ Page(q, after, k).rows = Listed(q, after)
                  \/ /\ Page(q, after, k).more = {Min(Page(q, after, k).rows)}
                     /\ Min(Page(q, after, k).rows) \in Page(q, after, k).rows
    BY <2>2, PageHolds
  <2>. QED  BY <2>1, <2>2
<1>. HIDE DEF g, page
<1>4. page.rows = Window(c)
  BY <1>1, <1>3 DEF Window
<1>5. ASSUME g.more = {} PROVE Ahead \subseteq InWindow(c)
  <2>1. Window(c) = Listed(ask.types, client.cursor.after)
    BY <1>1, <1>2, <1>3, <1>4, <1>5
  <2>2. Ahead \subseteq Window(c)
    BY <2>1 DEF Ahead, Listed, Matches, TypeMatches
  <2>. QED  BY <2>2 DEF InWindow, Kept, Ahead, Matches, After
<1>6. ASSUME NEW k, g.more = {k} PROVE k \in Window(c)
  BY <1>2, <1>3, <1>4, <1>6
<1>. QED  BY <1>5, <1>6 DEF g

LEMMA ReturnRound ==
  ASSUME FeedTypes, RoundShape, RoundInv, SingleQuery,
         NEW c \in reading, NEW q \in c.left, Returns(c, q)
  PROVE  RoundInv'
<1>. DEFINE g == WithPage(c, q)
            a == ReadAnswer(g)
            w == client.cursor
            o == w.offset
            deep == Filtered /\ a.rows # Rest(g)
<1>1. /\ shown' = shown \cup a.rows /\ present' = present /\ feed' = feed
      /\ UNCHANGED <<profile, feed, present, ask>>
  BY DEF Returns
<1>2. \A n : Matches(n)' = Matches(n)
  BY <1>1, SameRows
<1>3. /\ client'.since = client.since /\ client'.begun = client.begun
      /\ client'.next = IF w = FirstPage THEN NextSince(a.rows) ELSE client.next
      /\ client'.next \in 0..Len(feed)
      /\ \/ /\ deep /\ client'.state = "paging"
            /\ client'.cursor = [after |-> w.after, offset |-> o + c.limit]
         \/ /\ ~deep
            /\ g.more = {} /\ client'.state = "ended" /\ client'.cursor = FirstPage
         \/ /\ ~deep /\ client'.state = "paging"
            /\ \E k \in 1..(w.after - 1) :
                 g.more = {k} /\ client'.cursor = [after |-> k, offset |-> 0]
  BY ReturnEffect
<1>4. /\ ~deep => \A n \in InWindow(c) : n \in a.rows \/ n \in Newest(Ahead, o)
      /\ deep => \A n \in Newest(Ahead, o + c.limit) :
                   n \in a.rows \/ n \in Newest(Ahead, o)
  BY RowsCount
<1>5. /\ g.more = {} => Ahead \subseteq InWindow(c)
      /\ \A k : g.more = {k} => k \in Window(c)
  BY WindowEnds
<1>. HIDE DEF g, a, deep
<1>6. /\ client.state = "paging"
      /\ \A n \in present : Matches(n) /\ n <= client.since => n \in shown
      /\ \A n \in present : Matches(n) /\ Due(n) /\ n >= w.after => n \in shown
      /\ \A n \in Newest(Ahead, o) : Due(n) => n \in shown
  BY DEF RoundShape, RoundInv
<1>7. /\ Ahead \in SUBSET Nat /\ IsFiniteSet(Ahead)
      /\ \A n \in Window(c), m \in Ahead : n <= m => m \in InWindow(c)
      /\ InWindow(c) \in SUBSET Ahead
  BY PendingIds, WindowIsTop
<1>8. \A n \in present : n \in Nat /\ n < Top
  <2>1. PICK l \in Nat : l = Len(feed)
    BY DEF FeedTypes
  <2>2. l <= MaxRows /\ MaxRows \in Nat /\ present \subseteq 1..l
    BY <2>1, FeedHasRoom DEF FeedTypes
  <2>. QED  BY <2>2 DEF Top
<1>9. ASSUME w = FirstPage PROVE Newest(Ahead, o) = {} /\ w.after = Top
  BY <1>7, <1>9, NewestAll DEF FirstPage
<1>10. ASSUME NEW n, Due(n)', w # FirstPage PROVE Due(n)
  BY <1>3, <1>10 DEF Due
<1>11. \A n \in Newest(Ahead, o) : Due(n)' => n \in shown
  BY <1>6, <1>9, <1>10
<1>12. \A n \in present : Matches(n) /\ Due(n)' /\ n >= w.after => n \in shown
  <2>. SUFFICES ASSUME NEW n \in present, Matches(n), Due(n)', n >= w.after
                PROVE  n \in shown
    OBVIOUS
  <2>1. CASE w = FirstPage
    <3>1. n \in Nat /\ n < Top /\ Top \in Nat
      BY <1>8, FeedHasRoom DEF Top
    <3>. QED  BY <2>1, <3>1, <1>9
  <2>2. CASE w # FirstPage
    BY <2>2, <1>6, <1>10
  <2>. QED  BY <2>1, <2>2
<1>13. \A n \in present : Matches(n) /\ n <= client.since => n \in shown
  BY <1>6
<1>14. \A n \in present : Matches(n) =>
         n <= client.since \/ n >= w.after \/ n \in Ahead
  <2>. SUFFICES ASSUME NEW n \in present, Matches(n),
                       ~(n <= client.since), ~(n >= w.after)
                PROVE  n \in Ahead
    OBVIOUS
  <2>1. n \in Nat /\ client.since \in Nat /\ w.after \in Nat
    BY <1>8, FeedHasRoom DEF FeedTypes, Top
  <2>. QED  BY <2>1 DEF Ahead
<1>15. ASSUME ~deep PROVE \A n \in InWindow(c) : Due(n)' => n \in shown'
  BY <1>1, <1>4, <1>11, <1>15
<1>16. CASE deep /\ client'.state = "paging"
            /\ client'.cursor = [after |-> w.after, offset |-> o + c.limit]
  <2>1. client'.cursor.after = w.after /\ client'.cursor.offset = o + c.limit
    BY <1>16
  <2>2. Ahead' = Ahead
    BY <1>1, <1>2, <1>3, <2>1 DEF Ahead
  <2>4. \A n \in Newest(Ahead', client'.cursor.offset) : Due(n)' => n \in shown'
    BY <1>1, <1>4, <1>11, <1>16, <2>1, <2>2
  <2>5. \A n \in present' : Matches(n)' /\ n <= client'.since => n \in shown'
    BY <1>1, <1>2, <1>3, <1>13
  <2>6. \A n \in present' :
          Matches(n)' /\ Due(n)' /\ n >= client'.cursor.after => n \in shown'
    BY <1>1, <1>2, <1>12, <2>1
  <2>. QED  BY <1>16, <2>4, <2>5, <2>6 DEF RoundInv, Newest
<1>17. CASE ~deep /\ g.more = {} /\ client'.state = "ended"
  <2>1. \A n \in Ahead : Due(n)' => n \in shown'
    BY <1>5, <1>15, <1>17
  <2>2. \A n \in present' : Matches(n)' /\ Due(n)' => n \in shown'
    BY <1>1, <1>2, <1>12, <1>13, <1>14, <2>1
  <2>. QED  BY <1>17, <2>2 DEF RoundInv
<1>18. ASSUME ~deep, client'.state = "paging", NEW k \in 1..(w.after - 1),
              g.more = {k}, client'.cursor = [after |-> k, offset |-> 0]
       PROVE  RoundInv'
  <2>1. client'.cursor.after = k /\ client'.cursor.offset = 0
    BY <1>18
  <2>2. Newest(Ahead', 0) = {}
    <3>1. Ahead' \in SUBSET (1..Len(feed))
      BY <1>1 DEF Ahead, FeedTypes
    <3>2. Ahead' \in SUBSET Nat /\ IsFiniteSet(Ahead')
      BY <3>1, IdsAreFinite
    <3>. QED  BY <3>2, NewestAll
  <2>3. \A n \in present' : Matches(n)' /\ n <= client'.since => n \in shown'
    BY <1>1, <1>2, <1>3, <1>13
  <2>4. \A n \in Ahead : n >= k /\ Due(n)' => n \in shown'
    <3>1. k \in Window(c) /\ k \in Nat
      BY <1>5, <1>18
    <3>2. \A n \in Ahead : n >= k => k <= n
      BY <3>1, <1>7
    <3>. QED  BY <3>1, <3>2, <1>7, <1>15, <1>18
  <2>5. \A n \in present' :
          Matches(n)' /\ Due(n)' /\ n >= client'.cursor.after => n \in shown'
    BY <1>1, <1>2, <1>12, <1>13, <1>14, <2>1, <2>4
  <2>. QED  BY <1>18, <2>1, <2>2, <2>3, <2>5 DEF RoundInv, Newest
<1>. QED  BY <1>3, <1>16, <1>17, <1>18

LEMMA BeginRoundKeeps ==
  ASSUME FeedTypes, RoundInv, BeginRound
  PROVE  RoundInv'
<1>1. /\ client.state = "ended" /\ client'.state = "paging"
      /\ client'.since = client.next /\ client'.next = client.next
      /\ client'.cursor.after = Top /\ client'.cursor.offset = 0
      /\ UNCHANGED <<profile, feed, ask, present, shown>>
  BY DEF BeginRound, FirstPage
<1>2. \A n : Matches(n)' = Matches(n)
  BY <1>1, SameRows
<1>3. \A n \in present : Matches(n) /\ Due(n) => n \in shown
  BY <1>1 DEF RoundInv
<1>4. \A n \in present' : Matches(n)' /\ n <= client'.since => n \in shown'
  BY <1>1, <1>2, <1>3 DEF Due
<1>5. \A n \in present' : ~(n >= client'.cursor.after)
  <2>1. PICK l \in Nat : l = Len(feed)
    BY DEF FeedTypes
  <2>2. l <= MaxRows /\ MaxRows \in Nat /\ present \subseteq 1..l
    BY <2>1, FeedHasRoom DEF FeedTypes
  <2>. QED  BY <1>1, <2>2 DEF Top
<1>6. Newest(Ahead', 0) = {}
  <2>1. Ahead' \in SUBSET (1..Len(feed))
    BY <1>1 DEF Ahead, FeedTypes
  <2>2. Ahead' \in SUBSET Nat /\ IsFiniteSet(Ahead')
    BY <2>1, IdsAreFinite
  <2>. QED  BY <2>2, NewestAll
<1>. QED  BY <1>1, <1>4, <1>5, <1>6 DEF RoundInv, Newest

LEMMA DismissedKeeps ==
  ASSUME FeedTypes, RoundShape, RoundInv, NEW gone, Dismissed(gone),
         Filtered => ~Tears(gone)
  PROVE  RoundInv'
<1>1. /\ present' = present \ gone /\ shown' = shown \ gone
      /\ client' = [client EXCEPT !.torn = Tears(gone)]
      /\ UNCHANGED <<feed, profile, ask>>
  BY DEF Dismissed
<1>2. /\ client'.state = client.state /\ client'.cursor = client.cursor
      /\ client'.next = client.next /\ client'.since = client.since
      /\ client'.begun = client.begun
  BY <1>1 DEF FeedTypes
<1>3. \A n : Matches(n)' = Matches(n) /\ Due(n)' = Due(n)
  BY <1>1, <1>2, SameRows DEF Due
<1>4. Ahead' = Ahead \ gone
  BY <1>1, <1>2, <1>3 DEF Ahead
<1>. DEFINE o == client.cursor.offset
<1>5. Ahead \in SUBSET Nat /\ IsFiniteSet(Ahead) /\ o \in Nat
  BY PendingIds DEF FeedTypes
<1>6. ASSUME client.state = "paging"
      PROVE  \A n \in Newest(Ahead', o) : Due(n)' => n \in shown'
  <2>0. \A n \in Newest(Ahead, o) : Due(n) => n \in shown
    BY <1>6 DEF RoundInv
  <2>1. CASE o = 0
    <3>1. Ahead' \in SUBSET Nat /\ IsFiniteSet(Ahead')
      BY <1>4, <1>5, FS_Subset
    <3>. QED  BY <2>1, <3>1, NewestAll
  <2>2. CASE o > 0
    <3>1. ~Tears(gone)
      BY <2>2 DEF RoundShape
    <3>2. \A n \in gone : ~(n \in Newest(Ahead, o))
      <4>. SUFFICES ASSUME NEW n \in gone, n \in Newest(Ahead, o) PROVE FALSE
        OBVIOUS
      <4>1. n \in Ahead
        BY DEF Newest
      <4>2. ~(n \in shown) /\ Due(n)
        BY <3>1, <4>1, <2>2 DEF Tears, Ahead
      <4>. QED  BY <4>2, <2>0
    <3>3. Newest(Ahead, o) \subseteq Ahead \ gone
      BY <3>2 DEF Newest
    <3>4. Newest(Ahead', o) \subseteq Newest(Ahead, o)
      <4>1. Ahead \ gone \in SUBSET Ahead
        OBVIOUS
      <4>. HIDE DEF o
      <4>. QED  BY <3>3, <4>1, <1>4, <1>5, NewestLeave
    <3>. QED  BY <3>2, <3>4, <1>1, <1>3, <2>0
  <2>. QED  BY <1>5, <2>1, <2>2
<1>7. CASE client.state = "paging"
  <2>1. \A n \in present' : Matches(n)' /\ n <= client'.since => n \in shown'
    BY <1>1, <1>2, <1>3, <1>7 DEF RoundInv
  <2>2. \A n \in present' :
          Matches(n)' /\ Due(n)' /\ n >= client'.cursor.after => n \in shown'
    BY <1>1, <1>2, <1>3, <1>7 DEF RoundInv
  <2>. QED  BY <1>2, <1>6, <1>7, <2>1, <2>2 DEF RoundInv, Newest
<1>8. CASE client.state = "ended"
  BY <1>1, <1>2, <1>3, <1>8 DEF RoundInv
<1>. QED  BY <1>2, <1>7, <1>8 DEF RoundInv

LEMMA PostKeeps ==
  ASSUME FeedTypes, RoundInv, NEW row \in Rows, Notify(row)
  PROVE  RoundInv'
<1>1. PICK l \in Nat : l = Len(feed)
  BY DEF FeedTypes
<1>2. /\ present' = present \cup {l + 1} /\ shown' = shown /\ client' = client
      /\ UNCHANGED <<profile, ask>>
      /\ \A n \in 1..l : feed'[n] = feed[n]
  BY <1>1 DEF FeedTypes, Notify
<1>3. present \subseteq 1..l /\ client.begun \in 0..l /\ client.next \in 0..l
      /\ client.since \in 0..l
  BY <1>1 DEF FeedTypes
<1>4. \A n \in present : Matches(n)' = Matches(n)
  BY <1>2, <1>3 DEF Matches, Visible, TypeMatches, ActorMatches
<1>5. \A n : Due(n)' = Due(n)
  BY <1>2 DEF Due
<1>6. \A n \in present' : Due(n)' \/ n <= client.since => n \in present
  <2>1. ~(l + 1 <= client.begun) /\ ~(l + 1 <= client.next) /\ ~(l + 1 <= client.since)
    BY <1>3
  <2>. QED  BY <2>1, <1>2, <1>5 DEF Due
<1>7. Ahead \subseteq Ahead' /\ \A n \in Ahead' : n \in present => n \in Ahead
  BY <1>2, <1>4 DEF Ahead
<1>. DEFINE o == client.cursor.offset
<1>8. Ahead' \in SUBSET Nat /\ IsFiniteSet(Ahead') /\ o \in Nat
  <2>1. Ahead' \in SUBSET (1..(l + 1))
    <3>1. \A n \in 1..l : n \in 1..(l + 1)
      OBVIOUS
    <3>2. present' \subseteq 1..(l + 1) /\ l + 1 \in 1..(l + 1)
      BY <3>1, <1>2, <1>3
    <3>3. Ahead' \subseteq present'
      BY DEF Ahead
    <3>. QED  BY <3>2, <3>3
  <2>2. IsFiniteSet(1..(l + 1))
    BY FS_Interval
  <2>3. IsFiniteSet(Ahead')
    BY <2>1, <2>2, FS_Subset
  <2>. QED  BY <2>1, <2>3 DEF FeedTypes
<1>9. ASSUME client.state = "paging", NEW n \in Newest(Ahead', o), Due(n)'
      PROVE  n \in shown'
  <2>1. n \in Ahead' /\ n \in present'
    BY DEF Newest, Ahead
  <2>2. n \in Ahead
    BY <2>1, <1>6, <1>7, <1>9
  <2>. HIDE DEF o
  <2>3. n \in Newest(Ahead, o)
    BY <2>2, <1>7, <1>8, NewestJoin
  <2>. QED  BY <2>3, <1>2, <1>5, <1>9 DEF RoundInv, o
<1>10. CASE client.state = "paging"
  <2>1. \A n \in present' : Matches(n)' /\ n <= client'.since => n \in shown'
    BY <1>2, <1>4, <1>6, <1>10 DEF RoundInv
  <2>2. \A n \in present' :
          Matches(n)' /\ Due(n)' /\ n >= client'.cursor.after => n \in shown'
    BY <1>2, <1>4, <1>5, <1>6, <1>10 DEF RoundInv
  <2>. QED  BY <1>2, <1>9, <1>10, <2>1, <2>2 DEF RoundInv, Newest
<1>11. CASE client.state = "ended"
  BY <1>2, <1>4, <1>5, <1>6, <1>11 DEF RoundInv
<1>. QED  BY <1>2, <1>10, <1>11 DEF RoundInv

\* The steps that leave the round and the feed alone.
LEMMA RestKeeps ==
  ASSUME RoundInv, UNCHANGED <<profile, feed, present, ask, client>>,
         shown \subseteq shown'
  PROVE  RoundInv'
<1>1. \A n : Matches(n)' = Matches(n) /\ Due(n)' = Due(n)
  BY SameRows DEF Due
<1>2. Ahead' = Ahead
  BY <1>1 DEF Ahead
<1>. QED  BY <1>1, <1>2 DEF RoundInv, Newest

LEMMA FeedNextKeeps ==
  ASSUME FeedInv, [FeedNext]_feedVars
  PROVE  FeedInv'
<1>0. FeedTypes /\ RoundShape /\ ShownVisible /\ (Orderly => RoundInv)
  BY DEF FeedInv
<1>1. CASE Return
  <2>1. PICK c \in reading : \E q \in c.left : Returns(c, q)
    BY <1>1 DEF Return, Returns
  <2>2. PICK q \in c.left : Returns(c, q)
    BY <2>1
  <2>3. FeedTypes' /\ RoundShape' /\ ShownVisible'
    BY <1>0, <2>2, ReturnTypes
  <2>4. client'.torn = client.torn /\ UNCHANGED <<profile, feed, ask>>
    BY <1>0, <2>2, ReturnEffect DEF Returns
  <2>5. Orderly' => Orderly
    BY <2>4, SameRows DEF Orderly
  <2>6. Orderly => RoundInv'
    BY <1>0, <2>2, ReturnRound DEF Orderly
  <2>. QED  BY <2>3, <2>5, <2>6 DEF FeedInv
<1>2. CASE \E row \in Rows : Notify(row)
  <2>1. PICK row \in Rows : Notify(row)
    BY <1>2
  <2>2. FeedTypes' /\ RoundShape' /\ ShownVisible'
    BY <1>0, <2>1, PostTypes
  <2>3. Orderly' => Orderly
    BY <2>1 DEF Orderly, SingleQuery, Filtered, Notify
  <2>4. Orderly => RoundInv'
    BY <1>0, <2>1, PostKeeps
  <2>. QED  BY <2>2, <2>3, <2>4 DEF FeedInv
<1>3. CASE BeginRound
  <2>1. FeedTypes' /\ RoundShape' /\ ShownVisible'
    BY <1>0, <1>3, OtherTypes
  <2>2. Orderly' => Orderly
    BY <1>3 DEF Orderly, SingleQuery, Filtered, BeginRound
  <2>3. Orderly => RoundInv'
    BY <1>0, <1>3, BeginRoundKeeps
  <2>. QED  BY <2>1, <2>2, <2>3 DEF FeedInv
<1>4. CASE \E gone : Dismissed(gone)
  <2>1. PICK gone : Dismissed(gone)
    BY <1>4
  <2>2. FeedTypes' /\ RoundShape' /\ ShownVisible'
    BY <1>0, <1>4, OtherTypes
  <2>3. client'.torn = Tears(gone) /\ UNCHANGED <<profile, feed, ask>>
    <3>1. client' = [client EXCEPT !.torn = Tears(gone)]
      BY <2>1 DEF Dismissed
    <3>. HIDE DEF Tears
    <3>. QED  BY <1>0, <2>1, <3>1 DEF FeedTypes, Dismissed
  <2>4. Orderly' => SingleQuery /\ (Filtered => ~Tears(gone))
    BY <2>3, SameRows DEF Orderly
  <2>5. ~Tears(gone) => ~client.torn
    BY DEF Tears
  <2>6. SingleQuery /\ (Filtered => ~Tears(gone)) => RoundInv'
    BY <1>0, <2>1, <2>5, DismissedKeeps DEF Orderly
  <2>. QED  BY <2>2, <2>4, <2>6 DEF FeedInv
<1>5. CASE Refuse
  <2>1. FeedTypes' /\ RoundShape' /\ ShownVisible'
    BY <1>0, <1>5, OtherTypes
  <2>2. client'.state = "refused"
    BY <1>0, <1>5 DEF Refuse, FeedTypes
  <2>. QED  BY <2>1, <2>2 DEF FeedInv, RoundInv
<1>6. CASE /\ \/ \E limit \in Limits : Ask(limit)
              \/ FetchQuery \/ Fail \/ \E n \in Ids : Open(n)
              \/ UNCHANGED feedVars
  <2>1. FeedTypes' /\ RoundShape' /\ ShownVisible'
    BY <1>0, <1>6, OtherTypes
  <2>2. UNCHANGED <<profile, feed, present, ask, client>> /\ shown \subseteq shown'
    BY <1>6 DEF Ask, FetchQuery, Fail, Open, feedVars
  <2>3. Orderly' => Orderly
    BY <2>2, SameRows DEF Orderly
  <2>4. Orderly => RoundInv'
    BY <1>0, <2>2, RestKeeps
  <2>. QED  BY <2>1, <2>3, <2>4 DEF FeedInv
<1>. QED
  BY <1>1, <1>2, <1>3, <1>4, <1>5, <1>6 DEF FeedNext, Dismiss, DismissAll

\* However long clients page, poll and dismiss, the feed's state is what its
\* handlers assume, and what is due has been shown or lies ahead of the cursor.
THEOREM FeedKeepsItsInvariant == FeedSpec => []FeedInv
<1>1. FeedInit => FeedInv
  BY FeedStarts
<1>2. FeedInv /\ [FeedNext]_feedVars => FeedInv'
  BY FeedNextKeeps
<1>. QED  BY <1>1, <1>2, PTL DEF FeedSpec

\* For every feed, every window and page size and every length of a session: a
\* round of single requests that has ended has shown every match the feed held
\* as it began (handleNotificationsRead, social_tools.go:1439-1598).
THEOREM EveryMatchIsShown == FeedSpec => []EveryMatchShown
<1>1. FeedInv => EveryMatchShown
  <2>. SUFFICES ASSUME FeedInv, client.state = "ended", Orderly,
                       NEW n \in present \cap 1..client.begun, Matches(n)
                PROVE  n \in shown
    BY DEF EveryMatchShown, Orderly
  <2>1. Due(n)
    BY DEF Due, FeedInv, FeedTypes
  <2>. QED  BY <2>1 DEF FeedInv, RoundInv
<1>. QED  BY <1>1, FeedKeepsItsInvariant, PTL

\* For every feed and profile: one without communications is shown none, by a
\* list or by an id (social_tools.go:1513, 1640).
THEOREM DronesAreShownNone == FeedSpec => []DronesSeeNoCommunication
<1>1. FeedInv => DronesSeeNoCommunication
  BY DEF FeedInv, ShownVisible, Visible, DronesSeeNoCommunication
<1>. QED  BY <1>1, FeedKeepsItsInvariant, PTL

\* A page leads to an older window, or deeper into its own.
Advances ==
  Return /\ client'.state = "paging" =>
    \/ client'.cursor.after < client.cursor.after
    \/ /\ client'.cursor.after = client.cursor.after
       /\ client'.cursor.offset > client.cursor.offset

\* For every feed and page size: every cursor moves on, whatever arrives or is
\* dismissed between two pages (social_tools.go:1532-1547).
THEOREM PagesAlwaysAdvance == FeedSpec => PagesAdvance
<1>1. FeedInv /\ [FeedNext]_feedVars => [Advances]_feedVars
  <2>. SUFFICES ASSUME FeedInv, Return, client'.state = "paging"
                PROVE  \/ client'.cursor.after < client.cursor.after
                       \/ /\ client'.cursor.after = client.cursor.after
                          /\ client'.cursor.offset > client.cursor.offset
    BY DEF Advances
  <2>1. FeedTypes
    BY DEF FeedInv
  <2>2. PICK c \in reading : \E q \in c.left : Returns(c, q)
    BY DEF Return, Returns
  <2>3. PICK q \in c.left : Returns(c, q)
    BY <2>2
  <2>. DEFINE w == client.cursor
  <2>4. \/ client'.cursor = [after |-> w.after, offset |-> w.offset + c.limit]
        \/ \E k \in 1..(w.after - 1) : client'.cursor = [after |-> k, offset |-> 0]
    BY <2>1, <2>3, ReturnEffect
  <2>5. w.after \in Nat /\ w.offset \in Nat /\ c.limit \in Nat /\ c.limit > 0
    BY <2>1, <2>3, WithPageFields, FetchLimitPositive DEF FeedTypes
  <2>6. CASE client'.cursor = [after |-> w.after, offset |-> w.offset + c.limit]
    BY <2>5, <2>6
  <2>7. CASE \E k \in 1..(w.after - 1) : client'.cursor = [after |-> k, offset |-> 0]
    BY <2>5, <2>7
  <2>. QED  BY <2>4, <2>6, <2>7
<1>2. FeedSpec => [][Advances]_feedVars
  BY <1>1, FeedKeepsItsInvariant, PTL DEF FeedSpec
<1>. QED  BY <1>2 DEF PagesAdvance, Advances

-----------------------------------------------------------------------------
(* SocialInbox *)

\* What a caller has under way; an answer it follows up on names the account.
Holdings ==
  {Idle} \cup [tool : {"pending_check"}, selector : Selectors]
         \cup {r \in [tool : {"resolved"}, argument : Accounts, named : Accounts] :
                 r.argument = r.named}

SocialShape ==
  /\ conv \in [Peers -> [state : States, unread : BOOLEAN]]
  /\ listed \in Seq(Peers)
  /\ fields \in [Fields -> {"old", "new"}]
  /\ holder \in [Handles -> Accounts]
  /\ held \in [Callers -> Holdings]

SocialInv == SocialShape /\ ConversationAnswersHold /\ DecisionsHold

\* An answer that says nothing of conversations or decisions.
Silent(a) ==
  a.said \notin {"message_request_pending", "not found", "unread only",
                 "ACCEPTED", "DECLINED"}

LEMMA SilentHolds ==
  /\ Silent(reply) => ConversationAnswersHold /\ DecisionsHold
  /\ Silent(reply') => ConversationAnswersHold' /\ DecisionsHold'
BY DEF Silent, ConversationAnswersHold, PendingIsUndecided, MissMeansNoRequest,
       ReadBodiesStayOut, DecisionsHold

LEMMA SaysSilent ==
  \A t, s, a, p :
    s \notin {"message_request_pending", "not found", "unread only",
             "ACCEPTED", "DECLINED"} => Silent(Reply(t, s, a, p))
BY DEF Silent, Reply

LEMMA NoAnswerSilent == Silent(NoAnswer)
BY DEF Silent, NoAnswer, Reply

\* One entry of the folder less is a folder of the others.
LEMMA FolderWithout ==
  ASSUME NEW s \in Seq(Peers), NEW i \in DOMAIN s
  PROVE  RemoveAt(s, i) \in Seq(Peers)
<1>1. i \in 1..Len(s) /\ Len(s) \in Nat
  OBVIOUS
<1>2. SubSeq(s, 1, i - 1) \in Seq(Peers) /\ SubSeq(s, i + 1, Len(s)) \in Seq(Peers)
  <2>1. \A j \in 1..(i - 1) : j \in 1..Len(s)
    BY <1>1
  <2>2. \A j \in (i + 1)..Len(s) : j \in 1..Len(s)
    BY <1>1
  <2>. QED  BY <1>1, <2>1, <2>2
<1>. QED  BY <1>2 DEF RemoveAt

\* What one check reads are entries of the folder, and the request it reports
\* is one of them; it reports none only when none of them is of the name.
LEMMA CheckedHolds ==
  ASSUME listed \in Seq(Peers), NEW s
  PROVE  /\ Range(Checked) \subseteq Peers
         /\ PendingFor(s) # "none" =>
              conv[PendingFor(s)].state = "PENDING" /\ s \in Names[PendingFor(s)]
         /\ PendingFor(s) = "none" =>
              \A p \in Range(Checked) :
                 ~(conv[p].state = "PENDING" /\ s \in Names[p])
<1>. DEFINE k == Min({MaxListed, Len(listed)})
            hits == {i \in DOMAIN Checked : IsPendingOf(Checked[i], s)}
<1>1. k \in Nat /\ k <= Len(listed) /\ Len(listed) \in Nat
  <2>1. MaxListed \in Nat /\ Len(listed) \in Nat
    BY SelectorsResolve
  <2>2. ASSUME NEW a \in Nat, NEW b \in Nat
        PROVE  Min({a, b}) \in Nat /\ Min({a, b}) <= b
    <3>1. \E x \in {a, b} : \A y \in {a, b} : x =< y
      <4>1. a <= b \/ b <= a
        OBVIOUS
      <4>. QED  BY <4>1
    <3>2. Min({a, b}) \in {a, b} /\ \A y \in {a, b} : Min({a, b}) =< y
      BY <3>1 DEF Min
    <3>. QED  BY <3>2
  <2>. QED  BY <2>1, <2>2
<1>. HIDE DEF k
<1>2. /\ Checked \in Seq(Peers) /\ DOMAIN Checked = 1..k
      /\ \A i \in DOMAIN Checked : Checked[i] \in Peers
  <2>1. Checked = SubSeq(listed, 1, k)
    BY DEF Checked, k
  <2>2. \A i \in 1..k : i \in 1..Len(listed)
    BY <1>1
  <2>3. Checked \in Seq(Peers) /\ Len(Checked) = k
    BY <2>1, <2>2, <1>1
  <2>. QED  BY <2>3
<1>3. Range(Checked) \subseteq Peers
  BY <1>2 DEF Range
<1>4. PendingFor(s) = IF hits = {} THEN "none" ELSE Checked[Min(hits)]
  BY DEF PendingFor
<1>5. ASSUME hits # {}
      PROVE  /\ PendingFor(s) # "none"
             /\ conv[PendingFor(s)].state = "PENDING" /\ s \in Names[PendingFor(s)]
  <2>1. hits \in SUBSET (1..k)
    BY <1>2
  <2>2. hits \in SUBSET Nat /\ IsFiniteSet(hits)
    <3>1. IsFiniteSet(1..k)
      BY <1>1, FS_Interval
    <3>2. IsFiniteSet(hits)
      BY <2>1, <3>1, FS_Subset
    <3>. QED  BY <2>1, <3>2
  <2>3. Min(hits) \in hits
    BY <2>2, <1>5, NewestOldest
  <2>4. Checked[Min(hits)] \in Peers /\ IsPendingOf(Checked[Min(hits)], s)
    BY <2>3, <1>2
  <2>5. PendingFor(s) = Checked[Min(hits)] /\ "none" \notin Peers
    BY <1>4, <1>5, SelectorsResolve
  <2>. QED  BY <2>4, <2>5 DEF IsPendingOf
<1>6. ASSUME hits = {}
      PROVE  /\ PendingFor(s) = "none"
             /\ \A p \in Range(Checked) :
                  ~(conv[p].state = "PENDING" /\ s \in Names[p])
  <2>1. \A i \in DOMAIN Checked : ~IsPendingOf(Checked[i], s)
    BY <1>6
  <2>. QED  BY <2>1, <1>4, <1>6 DEF IsPendingOf, Range
<1>. QED  BY <1>3, <1>5, <1>6

LEMMA SocialStarts ==
  ASSUME SocialInit
  PROVE  SocialInv
<1>1. ConversationAnswersHold /\ DecisionsHold
  BY SilentHolds, NoAnswerSilent DEF SocialInit
<1>2. SocialShape
  BY DEF SocialInit, SocialShape, States, Holdings
<1>. QED  BY <1>1, <1>2 DEF SocialInv

\* The steps of Lesser and of other clients say nothing.
LEMMA WorldKeepsSocial ==
  ASSUME SocialInv,
         \/ \E p \in Peers : PeerWrites(p) \/ PeerIsRead(p) \/ LeaveFolder(p)
         \/ \E h \in Handles, a \in Accounts : MoveHandle(h, a)
         \/ \E f \in Fields : ProfileEdited(f)
  PROVE  SocialInv'
<1>0. SocialShape
  BY DEF SocialInv
<1>1. CASE \E p \in Peers : PeerWrites(p)
  <2>1. PICK p \in Peers : PeerWrites(p)
    BY <1>1
  <2>2. conv' \in [Peers -> [state : States, unread : BOOLEAN]]
    <3>1. [state |-> "PENDING", unread |-> TRUE] \in [state : States, unread : BOOLEAN]
      BY DEF States
    <3>2. \/ conv' = [conv EXCEPT ![p] = [state |-> "PENDING", unread |-> TRUE]]
          \/ conv' = [conv EXCEPT ![p].unread = TRUE]
      BY <2>1 DEF PeerWrites
    <3>3. CASE conv' = [conv EXCEPT ![p] = [state |-> "PENDING", unread |-> TRUE]]
      BY <3>1, <3>3, <1>0 DEF SocialShape
    <3>4. CASE conv' = [conv EXCEPT ![p].unread = TRUE]
      BY <3>4, <1>0 DEF SocialShape
    <3>. QED  BY <3>2, <3>3, <3>4
  <2>3. listed' \in Seq(Peers)
    BY <2>1, <1>0 DEF PeerWrites, SocialShape
  <2>4. SocialShape'
    BY <2>1, <2>2, <2>3, <1>0 DEF PeerWrites, SocialShape, accountVars
  <2>. QED  BY <2>1, <2>4, SilentHolds, NoAnswerSilent DEF PeerWrites, SocialInv
<1>2. CASE \E p \in Peers : PeerIsRead(p)
  <2>1. PICK p \in Peers : PeerIsRead(p)
    BY <1>2
  <2>2. SocialShape'
    BY <2>1, <1>0 DEF PeerIsRead, SocialShape, accountVars
  <2>. QED  BY <2>1, <2>2, SilentHolds, NoAnswerSilent DEF PeerIsRead, SocialInv
<1>3. CASE \E p \in Peers : LeaveFolder(p)
  <2>1. PICK p \in Peers : LeaveFolder(p)
    BY <1>3
  <2>2. listed' \in Seq(Peers)
    BY <2>1, <1>0, FolderWithout DEF LeaveFolder, SocialShape
  <2>3. SocialShape'
    BY <2>1, <2>2, <1>0 DEF LeaveFolder, SocialShape, accountVars
  <2>. QED  BY <2>1, <2>3, SilentHolds, NoAnswerSilent DEF LeaveFolder, SocialInv
<1>4. CASE \E h \in Handles, a \in Accounts : MoveHandle(h, a)
  <2>1. PICK h \in Handles, a \in Accounts : MoveHandle(h, a)
    BY <1>4
  <2>2. SocialShape'
    BY <2>1, <1>0 DEF MoveHandle, SocialShape, inboxVars
  <2>. QED  BY <2>1, <2>2, SilentHolds, NoAnswerSilent DEF MoveHandle, SocialInv
<1>5. CASE \E f \in Fields : ProfileEdited(f)
  <2>1. PICK f \in Fields : ProfileEdited(f)
    BY <1>5
  <2>2. SocialShape'
    BY <2>1, <1>0 DEF ProfileEdited, SocialShape, inboxVars
  <2>3. Silent(reply')
    BY <2>1 DEF ProfileEdited, Silent, Reply
  <2>. QED  BY <2>2, <2>3, SilentHolds DEF SocialInv
<1>. QED  BY <1>1, <1>2, <1>3, <1>4, <1>5

LEMMA ReadKeepsSocial ==
  ASSUME SocialInv, NEW c \in Callers, NEW s \in Selectors,
         NEW view \in {"compact", "full"}, NEW u \in BOOLEAN,
         DirectMessagesRead(c, s, view, u)
  PROVE  SocialInv'
<1>0. SocialShape /\ Resolves[s] \in Peers
  BY SelectorsResolve DEF SocialInv
<1>. DEFINE p == Resolves[s]
            parts == Shown(view, IF u /\ ~conv[p].unread
                                 THEN WithoutBodies(Bodies(view))
                                 ELSE Bodies(view))
<1>1. /\ UNCHANGED <<conv, listed, fields, following, holder>>
      /\ \/ /\ UNCHANGED held
            /\ reply' = Reply("direct_messages_read",
                              IF u THEN "unread only" ELSE "all", p, parts)
         \/ /\ held' = [held EXCEPT ![c] = [tool |-> "pending_check", selector |-> s]]
            /\ reply' = NoAnswer
         \/ /\ UNCHANGED held
            /\ reply' = Reply("direct_messages_read", "failed", s, {})
  BY DEF DirectMessagesRead, Then, inboxVars, accountVars
<1>2. SocialShape'
  <2>1. [tool |-> "pending_check", selector |-> s] \in Holdings
    BY DEF Holdings
  <2>2. held' \in [Callers -> Holdings]
    BY <1>0, <1>1, <2>1 DEF SocialShape
  <2>. QED  BY <1>0, <1>1, <2>2 DEF SocialShape
<1>3. ~conv[p].unread /\ u => parts = {}
  BY DEF Shown, WithoutBodies, Bodies, Compact
<1>. HIDE DEF parts
<1>4. CASE reply' = Reply("direct_messages_read",
                          IF u THEN "unread only" ELSE "all", p, parts)
  <2>1. /\ reply'.said \in {"unread only", "all"} /\ reply'.about = p
        /\ reply'.parts = parts /\ (reply'.said = "unread only" => u)
    BY <1>4 DEF Reply
  <2>2. ConversationAnswersHold'
    BY <1>1, <1>3, <2>1 DEF ConversationAnswersHold, PendingIsUndecided,
                            MissMeansNoRequest, ReadBodiesStayOut
  <2>3. DecisionsHold'
    BY <2>1 DEF DecisionsHold
  <2>. QED  BY <1>2, <2>2, <2>3 DEF SocialInv
<1>5. CASE \/ reply' = NoAnswer
           \/ reply' = Reply("direct_messages_read", "failed", s, {})
  <2>1. Silent(reply')
    BY <1>5, NoAnswerSilent, SaysSilent
  <2>. QED  BY <1>2, <2>1, SilentHolds DEF SocialInv
<1>. QED  BY <1>1, <1>4, <1>5

LEMMA CheckKeepsSocial ==
  ASSUME SocialInv, NEW c \in Callers, PendingCheck(c)
  PROVE  SocialInv'
<1>0. SocialShape
  BY DEF SocialInv
<1>. DEFINE s == held[c].selector
            p == PendingFor(s)
<1>1. /\ UNCHANGED <<conv, listed, fields, following, holder>>
      /\ held' = [held EXCEPT ![c] = Idle]
      /\ \/ p # "none" /\ reply' = Pending(p, s)
         \/ p = "none" /\ reply' = Miss(s)
         \/ reply' = CheckFailed(s)
  BY DEF PendingCheck, Done, Then, inboxVars, accountVars
<1>2. SocialShape'
  BY <1>0, <1>1 DEF SocialShape, Holdings
<1>3. /\ p # "none" => conv[p].state = "PENDING" /\ s \in Names[p]
      /\ p = "none" =>
           \A q \in Range(Checked) : ~(conv[q].state = "PENDING" /\ s \in Names[q])
  BY <1>0, CheckedHolds DEF SocialShape
<1>. HIDE DEF p, s
<1>4. CASE p # "none" /\ reply' = Pending(p, s)
  <2>1. /\ reply'.said = "message_request_pending" /\ reply'.about = p
        /\ reply'.parts = {s} /\ reply'.tool = "direct_messages_read"
    BY <1>4 DEF Pending, Reply
  <2>2. ConversationAnswersHold'
    BY <1>1, <1>3, <1>4, <2>1 DEF ConversationAnswersHold, PendingIsUndecided,
                                 MissMeansNoRequest, ReadBodiesStayOut
  <2>. QED  BY <1>2, <2>1, <2>2 DEF SocialInv, DecisionsHold
<1>5. CASE p = "none" /\ reply' = Miss(s)
  <2>1. /\ reply'.said = "not found" /\ reply'.about = s
        /\ reply'.tool = "direct_messages_read"
    BY <1>5 DEF Miss, Reply
  <2>2. Checked' = Checked
    BY <1>1 DEF Checked
  <2>3. ConversationAnswersHold'
    BY <1>1, <1>3, <1>5, <2>1, <2>2 DEF ConversationAnswersHold, PendingIsUndecided,
                                       MissMeansNoRequest, ReadBodiesStayOut
  <2>. QED  BY <1>2, <2>1, <2>3 DEF SocialInv, DecisionsHold
<1>6. CASE reply' = CheckFailed(s)
  <2>1. Silent(reply')
    BY <1>6 DEF CheckFailed, Silent, Reply
  <2>. QED  BY <1>2, <2>1, SilentHolds DEF SocialInv
<1>. QED  BY <1>1, <1>4, <1>5, <1>6

LEMMA DecideKeepsSocial ==
  ASSUME SocialInv, NEW c \in Callers, NEW p \in Peers,
         NEW decision \in {"ACCEPTED", "DECLINED"}, Decide(c, p, decision)
  PROVE  SocialInv'
<1>0. SocialShape
  BY DEF SocialInv
<1>1. /\ UNCHANGED <<listed, fields, following, holder, held>>
      /\ conv' = Decided(p, decision) \/ conv' = conv
      /\ \/ /\ conv'[p].state = decision
            /\ reply' = Reply("decide", decision, p, {})
         \/ reply' = Reply("decide", "upstream_contract_error", p, {})
         \/ reply' = Reply("decide", "error", p, {})
  BY DEF Decide, DecisionError, Confirmed, accountVars
<1>2. SocialShape'
  <2>1. conv' \in [Peers -> [state : States, unread : BOOLEAN]]
    BY <1>0, <1>1 DEF SocialShape, Decided, States
  <2>. QED  BY <1>0, <1>1, <2>1 DEF SocialShape
<1>3. CASE /\ conv'[p].state = decision
           /\ reply' = Reply("decide", decision, p, {})
  <2>1. reply'.said = decision /\ reply'.about = p
    BY <1>3 DEF Reply
  <2>2. ConversationAnswersHold'
    BY <2>1 DEF ConversationAnswersHold, PendingIsUndecided,
                MissMeansNoRequest, ReadBodiesStayOut
  <2>. QED  BY <1>2, <1>3, <2>1, <2>2 DEF SocialInv, DecisionsHold
<1>4. CASE \/ reply' = Reply("decide", "upstream_contract_error", p, {})
           \/ reply' = Reply("decide", "error", p, {})
  <2>1. Silent(reply')
    BY <1>4, SaysSilent
  <2>. QED  BY <1>2, <2>1, SilentHolds DEF SocialInv
<1>. QED  BY <1>1, <1>3, <1>4

LEMMA AccountKeepsSocial ==
  ASSUME SocialInv, NEW c \in Callers,
         \/ \E h \in Handles : AccountResolve(c, h)
         \/ Follow(c) \/ Unfollow(c)
         \/ \E given \in SUBSET Fields : ProfileUpdate(c, given)
  PROVE  SocialInv'
<1>0. SocialShape
  BY DEF SocialInv
<1>1. CASE \E h \in Handles : AccountResolve(c, h)
  <2>1. PICK h \in Handles : AccountResolve(c, h)
    BY <1>1
  <2>2. [tool |-> "resolved", argument |-> holder[h], named |-> holder[h]] \in Holdings
    BY <1>0 DEF Holdings, SocialShape
  <2>3. SocialShape'
    BY <2>1, <2>2, <1>0 DEF AccountResolve, Then, Resolved, SocialShape,
                           inboxVars, accountVars
  <2>. QED  BY <2>1, <2>3, SilentHolds, NoAnswerSilent DEF AccountResolve, SocialInv
<1>2. CASE Follow(c) \/ Unfollow(c)
  <2>1. SocialShape'
    BY <1>2, <1>0 DEF Follow, Unfollow, Done, Then, SocialShape, Holdings, inboxVars
  <2>. QED  BY <1>2, <2>1, SilentHolds, NoAnswerSilent DEF Follow, Unfollow, SocialInv
<1>3. CASE \E given \in SUBSET Fields : ProfileUpdate(c, given)
  <2>1. PICK given \in SUBSET Fields : ProfileUpdate(c, given)
    BY <1>3
  <2>2. fields' \in [Fields -> {"old", "new"}]
    BY <2>1, <1>0 DEF ProfileUpdate, PatchOf, SocialShape
  <2>3. SocialShape'
    BY <2>1, <2>2, <1>0 DEF ProfileUpdate, SocialShape, inboxVars
  <2>4. Silent(reply')
    BY <2>1, SaysSilent DEF ProfileUpdate, ProfileError
  <2>. QED  BY <2>3, <2>4, SilentHolds DEF SocialInv
<1>. QED  BY <1>1, <1>2, <1>3

LEMMA SocialNextKeeps ==
  ASSUME SocialInv, [SocialNext]_socialVars
  PROVE  SocialInv'
<1>1. CASE UNCHANGED socialVars
  BY <1>1 DEF SocialInv, SocialShape, socialVars, ConversationAnswersHold,
              PendingIsUndecided, MissMeansNoRequest, ReadBodiesStayOut,
              DecisionsHold, Checked
<1>2. ASSUME NEW c \in Callers, NEW p \in Peers, Accept(c, p) \/ Decline(c, p)
      PROVE  SocialInv'
  BY <1>2, DecideKeepsSocial DEF Accept, Decline
<1>. QED
  BY <1>1, <1>2, WorldKeepsSocial, ReadKeepsSocial, CheckKeepsSocial,
     AccountKeepsSocial DEF SocialNext

LEMMA SocialInvHolds == SocialSpec => []SocialInv
<1>1. SocialInit => SocialInv
  BY SocialStarts
<1>2. SocialInv /\ [SocialNext]_socialVars => SocialInv'
  BY SocialNextKeeps
<1>. QED  BY <1>1, <1>2, PTL DEF SocialSpec

\* For every number of callers, peers and requests, and every folder: what a
\* read of a conversation says is so (social_tools.go:844-943): a reported
\* request is undecided and of the name asked for, none is found only where the
\* folder as read holds none, and an unread-only read shows nothing read.
THEOREM SocialAnswersHold == SocialSpec => []ConversationAnswersHold
<1>1. SocialInv => ConversationAnswersHold
  BY DEF SocialInv
<1>. QED  BY <1>1, SocialInvHolds, PTL

\* Whoever else decides, and whatever answer is lost on the way: a decision a
\* caller is told of is the one that stands (message_request_tools.go:75-169).
THEOREM DecisionsStand == SocialSpec => []DecisionsHold
<1>1. SocialInv => DecisionsHold
  BY DEF SocialInv
<1>. QED  BY <1>1, SocialInvHolds, PTL

\* Whatever handle moves and whoever else writes: a caller comes to follow the
\* account it resolved, and an update leaves the fields it does not name as
\* others wrote them (social_tools.go:2230-2378).
THEOREM WritesReachTheNamed == SocialSpec => WritesAreTheCallers
<1>1. SocialInv /\ [SocialNext]_socialVars => [FollowsResolved]_socialVars
  <2>. SUFFICES ASSUME SocialInv, SocialNext PROVE FollowsResolved
    OBVIOUS
  <2>1. CASE \E c \in Callers : Follow(c)
    <3>1. PICK c \in Callers : Follow(c)
      BY <2>1
    <3>2. /\ held[c] \in Holdings /\ held[c].tool = "resolved"
          /\ following' = following \cup {Target(held[c].argument)}
      BY <3>1 DEF Follow, SocialInv, SocialShape
    <3>3. held[c].argument = held[c].named /\ held[c].argument \in Accounts
      BY <3>2 DEF Holdings, Idle
    <3>. QED  BY <3>2, <3>3 DEF FollowsResolved, Target
  <2>2. CASE ~\E c \in Callers : Follow(c)
    <3>1. following' \subseteq following
      BY <2>2 DEF SocialNext, PeerWrites, PeerIsRead, LeaveFolder, MoveHandle,
        ProfileEdited, DirectMessagesRead, PendingCheck, Accept, Decline, Decide,
        AccountResolve, Unfollow, ProfileUpdate, accountVars
    <3>. QED  BY <3>1 DEF FollowsResolved
  <2>. QED  BY <2>1, <2>2
<1>2. SocialInv /\ [SocialNext]_socialVars => [KeepsTheRest]_socialVars
  <2>. SUFFICES ASSUME SocialInv, SocialNext, NEW f \in Fields, fields'[f] # fields[f]
                PROVE  f \in reply'.parts
    BY DEF KeepsTheRest
  <2>0. fields \in [Fields -> {"old", "new"}]
    BY DEF SocialInv, SocialShape
  <2>1. CASE \E c \in Callers, given \in SUBSET Fields : ProfileUpdate(c, given)
    <3>1. PICK c \in Callers, given \in SUBSET Fields : ProfileUpdate(c, given)
      BY <2>1
    <3>2. f \in given
      BY <3>1, <2>0 DEF ProfileUpdate, PatchOf
    <3>. QED  BY <3>1, <3>2 DEF ProfileUpdate, ProfileError, Reply
  <2>2. CASE \E g \in Fields : ProfileEdited(g)
    <3>1. PICK g \in Fields : ProfileEdited(g)
      BY <2>2
    <3>2. f = g
      BY <3>1, <2>0 DEF ProfileEdited
    <3>. QED  BY <3>1, <3>2 DEF ProfileEdited, Reply
  <2>3. CASE /\ ~\E c \in Callers, given \in SUBSET Fields : ProfileUpdate(c, given)
             /\ ~\E g \in Fields : ProfileEdited(g)
    <3>1. fields' = fields
      BY <2>3 DEF SocialNext, PeerWrites, PeerIsRead, LeaveFolder, MoveHandle,
        DirectMessagesRead, PendingCheck, Accept, Decline, Decide,
        AccountResolve, Follow, Unfollow, accountVars
    <3>. QED  BY <3>1
  <2>. QED  BY <2>1, <2>2, <2>3
<1>3. SocialSpec => []SocialInv
  <2>1. SocialInit => SocialInv
    BY SocialStarts
  <2>2. SocialInv /\ [SocialNext]_socialVars => SocialInv'
    BY SocialNextKeeps
  <2>. QED  BY <2>1, <2>2, PTL DEF SocialSpec
<1>. QED
  BY <1>1, <1>2, <1>3, PTL DEF SocialSpec, WritesAreTheCallers,
     FollowsWhoWasResolved, UpdatesKeepTheRest
===============================================================================
