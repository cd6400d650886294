---------------------------- MODULE MCAgentComm ----------------------------
(***************************************************************************)
(* Two concurrent tool calls for one agent, by its owner and by a guest,   *)
(* while the agent is bound to another soul and the Host edits policies;   *)
(* and a read of souls while they are bound and published anew.  The two   *)
(* share no variable, so that a behaviour that moves one of them shows all *)
(* that it can do: each is explored while the other rests.                 *)
(***************************************************************************)
EXTENDS AgentComm, SoulRead, TLC

CONSTANTS arch, alice, s1, s2, k1, ens1

Rule(ops, entitled) ==
  [ops |-> ops, enabled |-> TRUE, callers |-> {"bound_body", "principal_operator"},
   entitled |-> entitled]

Hosted(email, sms, entitled) ==
  [binding |-> TRUE, email |-> email, sms |-> sms, voice |-> FALSE, entitled |-> entitled,
   callers |-> TRUE, peer |-> FALSE, paid |-> FALSE]

Bare == [hosted |-> {}, policyRules |-> {}, rules |-> {}, access |-> {},
         entitled |-> FALSE, channels |-> {}]

Full   == [Bare EXCEPT !.hosted = {Hosted(TRUE, TRUE, TRUE)}]
Unpaid == [Bare EXCEPT !.hosted = {Hosted(TRUE, TRUE, FALSE)}]
Silent == [Bare EXCEPT !.policyRules = {Rule({"email.send", "identity.self.read"}, FALSE)}]
Phone  == [Bare EXCEPT !.rules = {Rule({"email.read", "sms.read", "voice.read"}, FALSE)},
                       !.channels = {"phone"}]

MCRegistrations == {Full, Unpaid, Silent, Phone}

MCContacts == {[hosted |-> {}, rules |-> {Rule({"email.manage", "email.read"}, FALSE)}]}

Message(store, channel, from, names) ==
  [store |-> store, soul |-> s1, channel |-> channel, from |-> from, names |-> names]

mail  == Message("mailbox", "email", {s2}, {"s2.eth"})
spoof == Message("mailbox", "sms", {}, {"s2.eth"})
note  == Message("lesser", "email", {}, {"s2.eth"})
MCMessages == {mail, spoof, note}

MCNames == [n \in {"s2.eth"} |-> s2]

Token(class, delegated) == [class |-> class, delegated |-> delegated, shared |-> FALSE]
Body == Token("none", TRUE)
Tool(user, token, tool) == [user |-> user, token |-> token, tool |-> tool, key |-> NoKey]
About(user, tool, ref)  == Tool(user, Body, tool) @@ [ref |-> ref]
VerifyOf(user, channel, ref) ==
  About(user, "identity_verify", ref) @@ [channel |-> channel, name |-> "s2.eth"]

MCRequests ==
  {[Tool(alice, Body, "email_send") EXCEPT !.key = k1],
   Tool(arch, Body, "email_send"),
   Tool(alice, Body, "sms_send"),
   Tool(arch, Token("public_paid", FALSE), "email_read"),
   Tool(alice, Body, "voicemail_read"),
   Tool(arch, Body, "email_read"), Tool(alice, Body, "email_search"),
   Tool(arch, Body, "sms_read"),
   Tool(arch, Body, "identity_whoami"),
   About(arch, "email_get", mail),
   About(alice, "email_reply", mail),
   About(arch, "email_delete", spoof) @@ [action |-> "archive"],
   About(alice, "email_mark", mail) @@ [action |-> "read"],
   VerifyOf(arch, "ens", mail), VerifyOf(alice, "ens", spoof),
   VerifyOf(arch, "phone", spoof), VerifyOf(arch, "ens", note)}

MCFirstWorlds ==
  {[projected |-> [a \in Accounts |-> IF a = arch THEN s1 ELSE s2],
    bound |-> [a \in Accounts |-> IF a = arch THEN s1 ELSE s2],
    registration |-> (s1 :> g) @@ (s2 :> Phone),
    contact |-> [s \in Souls |-> NoContact]] : g \in {Unpaid}}

-----------------------------------------------------------------------------
(* Reads of souls *)

Asked(tool, caller, query) ==
  [tool |-> tool, caller |-> caller, self |-> FALSE, query |-> query,
   view |-> "standard", private |-> "none", limit |-> 0]
AskedSelf(caller, view, private) ==
  [Asked("soul_read", caller, [kind |-> "none"])
     EXCEPT !.self = TRUE, !.view = view, !.private = private]

MCEnquiries ==
  {AskedSelf("owner", "standard", "single"), AskedSelf("guest", "full", "list"),
   AskedSelf("owner", "summary", "none"), AskedSelf("owner", "summary", "list"),
   Asked("soul_read", "owner", [kind |-> "agent", soul |-> s2]),
   Asked("soul_read", "guest", [kind |-> "ens", name |-> ens1]),
   [Asked("soul_read", "owner", [kind |-> "handle"]) EXCEPT !.limit = 2],
   Asked("identity_lookup", "owner", [kind |-> "local"]),
   Asked("identity_lookup", "guest", [kind |-> "address"])}

PublishedAs(domain, answers, holds, declares) ==
  [version |-> 1, domain |-> domain, answers |-> answers, holds |-> holds,
   declares |-> declares]
Whole == PublishedAs("here", Parts, Parts, Blocks)
Plain == PublishedAs("here", Parts, {"identity", "registration"}, {"capabilities"})
Dim   == PublishedAs("there", {"identity", "boundaries"}, {"identity", "boundaries"}, {})
Gone  == PublishedAs(NoDomain, {}, {}, {})

MCPublications == {Whole, Plain, Dim, Gone}

MCFound == [k \in {"here", "there", NoDomain, "handle"} |->
              IF k \in {"here", "handle"} THEN <<s2, s1>> ELSE <<s1>>]

MCFirstSources ==
  {[projected |-> s1, bound |-> s1, names |-> (ens1 :> s2), found |-> MCFound,
    host |-> (s1 :> Whole) @@ (s2 :> p)] : p \in {Plain}}

-----------------------------------------------------------------------------
CommRests == call = [c \in Calls |-> Vacant] /\ Len(world) = 1
ReadRests == enquiry = Idle /\ Len(sources) = 1

AgentInit == Init /\ ReadInit

AgentSpec ==
  /\ AgentInit
  /\ [][\/ ReadRests /\ Next /\ UNCHANGED readVars
        \/ CommRests /\ ReadNext /\ UNCHANGED vars]_<<vars, readVars>>
=============================================================================
