------------------------------ MODULE SoulRead ------------------------------
(***************************************************************************)
(* soul_read and identity_lookup: who is meant, and what the public        *)
(* services say of them, put together from one request after the other.    *)
(* `self' is the soul that Body's projection names for the actor, which    *)
(* Lesser confirms for the owner; other queries go through ENS and the     *)
(* search.  Each soul is its identity, its registration and three blocks   *)
(* that have endpoints of their own and may also stand in the              *)
(* registration.  Private conversations come from Lesser, for the soul     *)
(* that it has bound to the token.                                         *)
(*                                                                         *)
(* A call keeps nothing, so one call at a time shows all; what moves is    *)
(* the Host and Lesser.  `sources' is the history of what they would         *)
(* answer; its last element is the present.                                *)
(***************************************************************************)
EXTENDS Naturals, Sequences, SequencesExt, FiniteSetsExt

CONSTANTS Identities,
          Enquiries,    \* [tool, caller, self, query, view, private, limit]
          Publications, \* what the Host may publish of a soul
          FirstSources,  \* what the services may answer at first
          Sizes,        \* what an answer may measure
          SummaryBytes, \* what an answer in view=summary may measure
          StreamBytes,  \* what an event of the MCP stream may measure
          Headroom,     \* what is kept free in it
          MaxEdits,     \* bound: changes of the sources
          MaxLosses     \* bound: failed requests

VARIABLES enquiry, \* the call and how far it is
          sources,   \* history of bindings, publications and names
          losses   \* spent of its bound

readVars == <<enquiry, sources, losses>>

Unbound   == "no soul"
NoDomain == "no domain"
NoBlock  == 0
MaxFound == 3        \* soulReadMaxMatches, and the cut of a search

Blocks == {"capabilities", "boundaries", "transparency"}
\* The order in which soul_read asks for the parts of a soul.
PartOrder == <<"identity", "registration", "capabilities", "boundaries", "transparency">>
Parts == Range(PartOrder)

\* What the Host may publish of a soul: a registration that is not there
\* declares no block, and every publication is counted.
Domains == {p.domain : p \in Publications}
Publication ==
  {p \in [version : Nat, domain : Domains, answers : SUBSET Parts,
          holds : SUBSET Parts, declares : SUBSET Blocks] :
     p.version # NoBlock /\ (p.declares # {} => "registration" \in p.holds)}

\* What the services answer: Body's projection and Lesser's binding, the Host's
\* publications, ENS, and the search for a domain or a kind of query.
Unmatched == {"none", "agent", "ens", "local", "address", "number", "malformed"}
Source ==
  [projected : Identities \cup {Unbound}, bound : Identities \cup {Unbound},
   host  : [Identities -> Publication],
   names : [{q.query.name : q \in {q \in Enquiries : q.query.kind = "ens"}}
              -> Identities \cup {Unbound}],
   found : [Domains \cup ({q.query.kind : q \in Enquiries} \ Unmatched) -> Seq(Identities)]]

ASSUME ReadAssumption ==
  /\ Publications \subseteq Publication
  /\ FirstSources \subseteq Source
  /\ \A q \in Enquiries : q.limit \in Nat
  /\ \A q \in Enquiries : q.query.kind = "agent" => q.query.soul \in Identities

Today == sources[Len(sources)]

-----------------------------------------------------------------------------
(* Requests *)

\* self with a query, or neither; private conversations of another, or in the
\* summary; a malformed option.
Malformed(q) ==
  \/ q.self <=> q.query.kind # "none"
  \/ q.private # "none" /\ (~q.self \/ q.view = "summary")
  \/ q.private = "malformed"

\* Addresses and numbers are private, and of a remote actor only the handle
\* @user@domain and the canonical URL are known.
Unsupported(q) == q.query.kind \in {"address", "number", "malformed"}

LimitOf(q) ==
  IF q.tool = "identity_lookup" THEN MaxFound
  ELSE IF q.limit = 0 THEN 1
  ELSE Min({q.limit, MaxFound})

DeliveryBytes ==
  IF StreamBytes <= Headroom THEN StreamBytes \div 2 ELSE StreamBytes - Headroom

-----------------------------------------------------------------------------
Idle == [at |-> "idle", of |-> CHOOSE q \in Enquiries : TRUE, soul |-> Unbound,
         domain |-> NoDomain, todo |-> <<>>, draft |-> <<>>, done |-> <<>>,
         answer |-> "none", since |-> 1, until |-> 1]

ReadInit ==
  /\ sources \in {<<w>> : w \in FirstSources}
  /\ enquiry = Idle
  /\ losses = 0

Goes(e)         == enquiry' = e
Closes(e, text) == [e EXCEPT !.at = "done", !.answer = text, !.until = Len(sources)]

\* An error ends the call and takes with it what was read so far.
Fails(e, text) == Closes([e EXCEPT !.todo = <<>>, !.draft = <<>>, !.done = <<>>], text)

Loss == losses < MaxLosses /\ losses' = losses + 1

\* A request to another service, or its failure.
Asks(stage, answered) ==
  /\ enquiry.at = stage
  /\ \/ Goes(answered) /\ UNCHANGED losses
     \/ Loss /\ Goes(Fails(enquiry, "upstream_error"))
  /\ UNCHANGED sources

\* The souls to read: identity first, and a part after the other.
Reading(e, souls) ==
  [e EXCEPT !.at = "part", !.todo = SubSeq(souls, 1, Min({Len(souls), LimitOf(e.of)}))]

Begin(q) ==
  /\ enquiry.at \in {"idle", "done"}
  /\ LET e == [Idle EXCEPT !.of = q, !.since = Len(sources)] IN
     Goes(IF Malformed(q) THEN Fails(e, "invalid_request")
          ELSE IF Unsupported(q) THEN Fails(e, "private_or_unsupported")
          ELSE IF q.self THEN [e EXCEPT !.at = "projection"]
          ELSE CASE q.query.kind = "local" -> [e EXCEPT !.at = "projection"]
                 [] q.query.kind = "agent" -> Reading(e, <<q.query.soul>>)
                 [] q.query.kind = "ens"   -> [e EXCEPT !.at = "ens"]
                 [] OTHER                  -> [e EXCEPT !.at = "search"])
  /\ UNCHANGED <<sources, losses>>

-----------------------------------------------------------------------------
(* Who is meant *)

\* The soul of the caller is known: it is read, or its domain is looked up.
Recognized(e) ==
  IF e.of.self THEN Reading(e, <<e.soul>>) ELSE [e EXCEPT !.at = "domain"]

\* A guest acts for the agent, on the share that admitted the request.
Projected(e) ==
  LET own == [e EXCEPT !.soul = Today.projected] IN
  CASE Today.projected = Unbound /\ e.of.self -> Fails(e, "not_found")
    [] Today.projected = Unbound /\ ~e.of.self -> Fails(e, "invalid_request")
    [] Today.projected # Unbound /\ e.of.caller = "guest" -> Recognized(own)
    [] OTHER -> [own EXCEPT !.at = "confirm"]

Project == Asks("projection", Projected(enquiry))

\* Mutant: that Lesser has a soul for the token is enough.
ConfirmedAny(e) == IF Today.bound = Unbound THEN Fails(e, "forbidden") ELSE Recognized(e)

Confirmed(e) == IF Today.bound = e.soul THEN Recognized(e) ELSE Fails(e, "forbidden")

Confirm == Asks("confirm", Confirmed(enquiry))

\* A local id is searched for in the domain of the caller's own soul.
InDomain(e) ==
  LET domain == Today.host[e.soul].domain
  IN IF domain = NoDomain THEN Fails(e, "invalid_request")
     ELSE [e EXCEPT !.at = "search", !.domain = domain]

ReadDomain == Asks("domain", InDomain(enquiry))

Resolved(e) ==
  LET soul == Today.names[e.of.query.name] IN
  IF soul = Unbound THEN Fails(e, "not_found") ELSE Reading(e, <<soul>>)

ResolveName == Asks("ens", Resolved(enquiry))

\* What the search is asked: a local id in one domain, or the query alone.
SearchKey(q, domain) == IF q.query.kind = "local" THEN domain ELSE q.query.kind

\* The first three of what the search returns.
Searched(e) ==
  LET found == Today.found[SearchKey(e.of, e.domain)]
  IN IF found = <<>> THEN Fails(e, "not_found") ELSE Reading(e, found)

Search == Asks("search", Searched(enquiry))

-----------------------------------------------------------------------------
(* A soul, part after part *)

Subject(e)  == Head(e.todo)
NextPart(e) == PartOrder[Len(e.draft) + 1]
LastPart(q) == IF q.tool = "identity_lookup" THEN 1 ELSE Len(PartOrder)

Unread(part) == [part |-> part, source |-> "unavailable", version |-> NoBlock, declares |-> {}]

\* What the endpoint answers: the part as published, or an empty one.
Answered(part, host) ==
  [part |-> part, source |-> "ok",
   version  |-> IF part \in host.holds THEN host.version ELSE NoBlock,
   declares |-> IF part = "registration" THEN host.declares ELSE {}]

\* Mutant: only the dedicated endpoints count.
BlockOnly(draft, p) == p

\* A block that is missing or empty is taken from the registration.
BlockOf(draft, p) ==
  IF p.version = NoBlock /\ \E reg \in Range(draft) : p.part \in reg.declares
  THEN [p EXCEPT !.version = (CHOOSE reg \in Range(draft) : p.part \in reg.declares).version]
  ELSE p

\* The soul is complete: its private conversations, the next soul, the answer.
Complete(e) ==
  [e EXCEPT !.done = Append(@, [soul |-> Subject(e), parts |-> e.draft, private |-> Unbound]),
            !.draft = <<>>, !.todo = Tail(@),
            !.at = CASE e.of.private # "none" -> "private"
                     [] e.of.private = "none" /\ Len(e.todo) > 1 -> "part"
                     [] OTHER -> "answer"]

With(e, p) ==
  LET more == [e EXCEPT !.draft = Append(@, BlockOf(@, p))]
  IN IF Len(more.draft) = LastPart(e.of) THEN Complete(more) ELSE more

\* The identity must be there.
Identified(e) ==
  LET host == Today.host[Subject(e)]
  IN IF "identity" \in host.holds THEN With(e, Answered("identity", host))
     ELSE Fails(e, "not_found")

ReadIdentity == enquiry.draft = <<>> /\ Asks("part", Identified(enquiry))

\* soulReadOptional: every other part may be missing, for whatever reason.
ReadPart ==
  /\ enquiry.at = "part" /\ enquiry.draft # <<>>
  /\ LET host == Today.host[Subject(enquiry)]
         part == NextPart(enquiry)
     IN \/ /\ part \in host.answers
           /\ Goes(With(enquiry, Answered(part, host)))
           /\ UNCHANGED losses
        \/ /\ part \notin host.answers
           /\ Goes(With(enquiry, Unread(part)))
           /\ UNCHANGED losses
        \/ Loss /\ Goes(With(enquiry, Unread(part)))
  /\ UNCHANGED sources

\* Mutant: the conversations of the soul that is shown.
ConversationsOfShown(e) == [e EXCEPT !.done[1].private = e.soul, !.at = "answer"]

\* Lesser answers for the soul that it has bound to the token.
Conversations(e) ==
  IF Today.bound = Unbound THEN Fails(e, "not_found")
  ELSE [e EXCEPT !.done[1].private = Today.bound, !.at = "answer"]

ReadPrivate == Asks("private", Conversations(enquiry))

-----------------------------------------------------------------------------
\* What is delivered must fit: a summary into its budget, a single private
\* conversation into an event of the stream.
Fits(q, bytes) ==
  /\ q.view = "summary"   => bytes <= SummaryBytes
  /\ q.private = "single" => bytes <= DeliveryBytes

Deliver(bytes) ==
  /\ enquiry.at = "answer"
  /\ Goes(IF enquiry.of.tool = "identity_lookup" \/ Fits(enquiry.of, bytes)
          THEN Closes(enquiry, "ok") ELSE Fails(enquiry, "response_too_large"))
  /\ UNCHANGED <<sources, losses>>

-----------------------------------------------------------------------------
(* The Host publishes, Lesser binds, Body's projection follows *)

Edited(soul, p) ==
  [p EXCEPT !.version = Today.host[soul].version + 1]

\* Another projection, binding, publication or name.
Projections == {[Today EXCEPT !.projected = s] : s \in Identities \cup {Unbound}}
Bindings    == {[Today EXCEPT !.bound = s] : s \in Identities \cup {Unbound}}
Republished == {[Today EXCEPT !.host[s] = Edited(s, p)] : s \in Identities, p \in Publications}
Renamed     == {[Today EXCEPT !.names[n] = s] :
                  n \in DOMAIN Today.names, s \in Identities \cup {Unbound}}

NextSources == Projections \cup Bindings \cup Republished \cup Renamed

Edit ==
  /\ Len(sources) <= MaxEdits
  /\ \E w \in NextSources \ {Today} : sources' = Append(sources, w)
  /\ UNCHANGED <<enquiry, losses>>

ReadNext ==
  \/ \E q \in Enquiries : Begin(q)
  \/ Project \/ Confirm \/ ReadDomain \/ ResolveName \/ Search
  \/ ReadIdentity \/ ReadPart \/ ReadPrivate
  \/ \E bytes \in Sizes : Deliver(bytes)
  \/ Edit

ReadSpec == ReadInit /\ [][ReadNext]_readVars

-----------------------------------------------------------------------------
(* Properties *)

Window(e) == {sources[i] : i \in e.since .. e.until}

\* An owner's own soul is one that Body took for it and that Lesser confirmed
\* after that; a guest's is the actor's.
SelfIsConfirmed(e) ==
  e.of.self =>
    \E i, j \in e.since .. e.until :
      /\ i <= j
      /\ sources[i].projected = e.done[1].soul
      /\ e.of.caller = "owner" => sources[j].bound = e.done[1].soul

\* The souls that a query meant at some time of the call, all and in order; a
\* local id means souls of the domain of the actor's own soul.
Meanings(e) ==
  CASE e.of.query.kind = "agent" -> {<<e.of.query.soul>>}
    [] e.of.query.kind = "ens"   -> {<<w.names[e.of.query.name]>> : w \in Window(e)}
    [] e.of.query.kind = "local" ->
         {w.found[w.host[v.projected].domain] :
            w \in Window(e), v \in {v \in Window(e) : v.projected # Unbound}}
    [] OTHER                     -> {w.found[e.of.query.kind] : w \in Window(e)}

ShownWereMeant(e) ==
  ~e.of.self => \E all \in Meanings(e) :
    [i \in DOMAIN e.done |-> e.done[i].soul] = SubSeq(all, 1, Min({Len(all), LimitOf(e.of)}))

\* What is shown of a soul was published of that soul, a missing block only
\* where the registration beside it has none either; and no part is older than
\* the identity or the registration before it.
PartsHeld(e) ==
  \A i \in DOMAIN e.done :
    LET parts == e.done[i].parts IN
    /\ \A k \in DOMAIN parts : parts[k].version # NoBlock =>
         \E w \in Window(e) :
           LET host == w.host[e.done[i].soul]
           IN /\ host.version = parts[k].version
              /\ parts[k].part \in host.holds \cup (IF "registration" \in host.holds
                                                   THEN host.declares ELSE {})
    /\ \A k, n \in DOMAIN parts :
         /\ k < n /\ k <= 2 /\ parts[n].version # NoBlock => parts[k].version <= parts[n].version
         /\ parts[n].part \in parts[k].declares => parts[n].version # NoBlock

\* Private conversations are shown only on the caller's word, with the actor's
\* own soul, and are of a soul that Lesser had bound to the actor.
PrivateIsTheActors(e) ==
  \A i \in DOMAIN e.done : e.done[i].private # Unbound =>
    /\ e.of.self /\ e.of.private # "none" /\ e.of.view # "summary"
    /\ \E w \in Window(e) : w.bound = e.done[i].private

\* Whatever is published or bound between the requests of a soul_read or an
\* identity_lookup, and whichever of them fail, an answer shows the souls that
\* were meant, what was published of them, and no private conversation but of
\* the actor's soul (soul_read_tools.go:576-655, identity_tools.go:104-149).
SoulReadsHold ==
  enquiry.answer = "ok" =>
    /\ SelfIsConfirmed(enquiry)
    /\ ShownWereMeant(enquiry)
    /\ PartsHeld(enquiry)
    /\ PrivateIsTheActors(enquiry)

=============================================================================
