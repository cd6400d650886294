------------------------ MODULE BoundOperationPolicy ------------------------
(***************************************************************************)
(* Which operations a caller may perform as a bound agent.  The decision   *)
(* reads the agent's public registration and the Host's contactability     *)
(* record.  Body accepts many spellings of a policy; here a registration   *)
(* is what they come down to:                                              *)
(*   hosted      the Host's explicit policy: none, or one                  *)
(*   policyRules rules written under the key that a contactability policy  *)
(*               replaces                                                  *)
(*   rules       rules written anywhere else                               *)
(*   access      caller classes that a caller-access policy lets in        *)
(*   entitled    a payment policy grants an entitlement                    *)
(*   channels    channels that are themselves paid or provisioned          *)
(***************************************************************************)
EXTENDS FiniteSets

Operations == {"email.send", "email.read", "email.manage", "sms.send", "sms.read",
               "voice.read", "channels.read", "identity.self.read"}

CallerClasses == {"principal_operator", "bound_body", "instance_key",
                  "allowlisted_peer", "public_paid"}

NoContact == {}

-----------------------------------------------------------------------------
(* Callers *)

\* An OAuth client may name any class but the instance's own.
Honored(class) == class \in CallerClasses \ {"instance_key"}

\* An OAuth token: the class its client names, if it is honored, then the share
\* marker of the route, then the human or the operator it was issued to.
CallerClass(token) ==
  CASE Honored(token.class)                       -> token.class
    [] ~Honored(token.class) /\ ~token.shared
                             /\ token.delegated  -> "principal_operator"
    [] OTHER                                      -> "bound_body"

-----------------------------------------------------------------------------
(* The entries of a registration about an operation *)

PhoneOperations == {"sms.send", "sms.read", "voice.read"}

Capability(policy, op) ==
  CASE op \in {"email.send", "email.read", "email.manage"} -> policy.email
    [] op \in {"sms.send", "sms.read"}                     -> policy.sms
    [] op = "voice.read"                                   -> policy.voice
    [] OTHER                                               -> TRUE

HostedCallers(policy) ==
  IF ~policy.callers THEN {}
  ELSE {"principal_operator", "bound_body", "instance_key"}
       \cup {x \in {"allowlisted_peer"} : policy.peer}
       \cup {x \in {"public_paid"} : policy.paid}

HostedEntry(policy, op) ==
  [ops      |-> {op},
   enabled  |-> policy.binding /\ Capability(policy, op),
   callers  |-> HostedCallers(policy),
   entitled |-> policy.binding /\ op \in PhoneOperations /\ policy.entitled]

Entries(registration, op) ==
  {e \in registration.rules \cup registration.policyRules : op \in e.ops}
  \cup {HostedEntry(policy, op) : policy \in registration.hosted}

Enabled(registration, op) == {e \in Entries(registration, op) : e.enabled}

-----------------------------------------------------------------------------
(* The decision *)

CapabilityAllows(registration, op) == Enabled(registration, op) # {}

CallerAllowed(registration, op, class) ==
  \/ \E e \in Enabled(registration, op) : class \in e.callers
  \/ class \in registration.access

\* Channels that entitle an operation: sms and voice go by the phone too.
EntitlingChannels(op) ==
  CASE op \in {"sms.send", "sms.read"} -> {"sms", "phone"}
    [] op = "voice.read"               -> {"voice", "phone"}
    [] OTHER                           -> {}

Entitled(registration, op) ==
  \/ \E e \in Enabled(registration, op) : e.entitled
  \/ registration.entitled
  \/ EntitlingChannels(op) \cap registration.channels # {}

\* Mutant: a provisioned capability is taken for an entitlement.
AllowedUnpaid(registration, op, class) ==
  /\ class # "public_paid"
  /\ CapabilityAllows(registration, op)
  /\ CallerAllowed(registration, op, class)

\* A paid caller needs the grant of its own request, which a token never has.
Allowed(registration, op, class) ==
  /\ class # "public_paid"
  /\ CapabilityAllows(registration, op)
  /\ CallerAllowed(registration, op, class)
  /\ op \in PhoneOperations => Entitled(registration, op)

\* The policy of the contactability record stands in for a registration that
\* has no policy of the Host's, and replaces what is under the same key.  A
\* contactability is none, or one record.
WithContactability(registration, contact) ==
  IF contact = NoContact \/ registration.hosted # {} THEN registration
  ELSE [registration EXCEPT !.hosted = UNION {k.hosted : k \in contact},
                            !.policyRules = UNION {k.rules : k \in contact}]
=============================================================================
