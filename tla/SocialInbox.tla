----------------------------- MODULE SocialInbox -----------------------------
(***************************************************************************)
(* The tools of internal/mcpserver that work on an agent's direct messages *)
(* and on its account in Lesser: direct_messages_read, message_requests    *)
(* and their decisions, account_resolve with follow and unfollow, and      *)
(* profile_update (social_tools.go, message_request_tools.go,              *)
(* lesserapi/message_requests.go).                                         *)
(*                                                                         *)
(* Lesser (external) keeps the conversations, the folder of requests, the  *)
(* account.  The agent and guests acting as it call at the same time, and  *)
(* a call of two requests, or a client that follows up on an answer, acts  *)
(* on what has changed since.                                              *)
(***************************************************************************)
EXTENDS Integers, Sequences, FiniteSets, FiniteSetsExt, SequencesExt

CONSTANTS
    Callers,     \* the agent and the guests that act as it
    Peers,       \* accounts that write to the agent
    Selectors,   \* the names callers use for peers
    Resolves,    \* whom Lesser takes a selector for
    Names,       \* the selectors Body takes for a peer: id, username, acct
    MaxListed,   \* bound of the code: requests read in one check
    Accounts,    \* accounts that can be followed
    Handles      \* what callers resolve; a handle moves between accounts

\* Lesser resolves a selector to one account, also an actor URL, which is none of
\* the names Body knows.  "none" is the word for no one.
ASSUME SelectorsResolve ==
    /\ Resolves \in [Selectors -> Peers]
    /\ "none" \notin Peers
    /\ MaxListed \in Nat

VARIABLES
    conv,        \* the agent's side of its conversation with each peer
    listed,      \* the folder of requests as Lesser lists it, newest first
    fields,      \* the agent's profile
    following,   \* the accounts the agent follows
    holder,      \* the account each handle names
    held,        \* what each caller has under way
    reply        \* the answer the last step gave, or NoAnswer

socialVars == <<conv, listed, fields, following, holder, held, reply>>
inboxVars == <<conv, listed>>
accountVars == <<fields, following, holder>>

Fields == {"display_name", "note"}
States == {"none", "PENDING", "ACCEPTED", "DECLINED"}

Idle == [tool |-> "idle"]
Reply(tool, said, about, parts) ==
    [tool |-> tool, said |-> said, about |-> about, parts |-> parts]
NoAnswer == Reply("none", "none", "none", {})

SocialInit ==
    /\ conv = [p \in Peers |-> [state |-> "none", unread |-> FALSE]]
    /\ listed = << >>
    /\ fields = [f \in Fields |-> "old"]
    /\ following = {}
    /\ holder \in [Handles -> Accounts]
    /\ held = [c \in Callers |-> Idle]
    /\ reply = NoAnswer

-----------------------------------------------------------------------------
(* What goes on in Lesser *)

\* A first message is a request to the agent; later ones follow an accepted one.
PeerWrites(p) ==
    /\ \/ /\ conv[p].state = "none"
          /\ conv' = [conv EXCEPT ![p] = [state |-> "PENDING", unread |-> TRUE]]
          /\ listed' = <<p>> \o listed
       \/ /\ conv[p].state = "ACCEPTED"
          /\ conv' = [conv EXCEPT ![p].unread = TRUE]
          /\ UNCHANGED listed
    /\ reply' = NoAnswer
    /\ UNCHANGED <<accountVars, held>>

\* The conversation is read to its end, in whatever client.
PeerIsRead(p) ==
    /\ conv[p].unread
    /\ conv' = [conv EXCEPT ![p].unread = FALSE]
    /\ reply' = NoAnswer
    /\ UNCHANGED <<listed, accountVars, held>>

\* A decided request leaves the folder some time later.
LeaveFolder(p) ==
    /\ conv[p].state # "PENDING"
    /\ \E i \in DOMAIN listed : listed[i] = p /\ listed' = RemoveAt(listed, i)
    /\ reply' = NoAnswer
    /\ UNCHANGED <<conv, accountVars, held>>

MoveHandle(h, a) ==
    /\ holder[h] # a
    /\ holder' = [holder EXCEPT ![h] = a]
    /\ reply' = NoAnswer
    /\ UNCHANGED <<inboxVars, fields, following, held>>

-----------------------------------------------------------------------------
(* direct_messages_read *)

Then(c, record) == held' = [held EXCEPT ![c] = record]
Done(c) == Then(c, Idle)

\* Where a normalized conversation carries message bodies.
Bodies(view) ==
    {"messages", "lastPost"} \cup (IF view = "full" THEN {"_raw"} ELSE {})

\* What a read conversation keeps of them when only unread ones are asked for,
\* with the raw conversation forgotten.
WithoutMessages(bodies) == bodies \ {"messages", "lastPost"}

WithoutBodies(bodies) == bodies \ {"messages", "lastPost", "_raw"}

\* The compact view has previews of the same messages, and nothing raw.
Compact(bodies) == bodies \ {"_raw"}

Shown(view, bodies) == IF view = "compact" THEN Compact(bodies) ELSE bodies

Miss(s) == Reply("direct_messages_read", "not found", s, {})

\* The lookup finds what is in the inbox, and the call is answered; it finds
\* nothing, and the folder of requests is still to be asked; or it fails.
DirectMessagesRead(c, s, view, unreadOnly) ==
    LET p == Resolves[s] IN
    /\ held[c] = Idle
    /\ \/ /\ conv[p].state = "ACCEPTED"
          /\ reply' = Reply("direct_messages_read",
                              IF unreadOnly THEN "unread only" ELSE "all", p,
                              Shown(view, IF unreadOnly /\ ~conv[p].unread
                                          THEN WithoutBodies(Bodies(view))
                                          ELSE Bodies(view)))
          /\ UNCHANGED held
       \/ /\ conv[p].state # "ACCEPTED"
          /\ Then(c, [tool |-> "pending_check", selector |-> s])
          /\ reply' = NoAnswer
       \/ /\ reply' = Reply("direct_messages_read", "failed", s, {})
          /\ UNCHANGED held
    /\ UNCHANGED <<inboxVars, accountVars>>

\* The requests one check reads.
Checked == SubSeq(listed, 1, Min({MaxListed, Len(listed)}))

\* A listed request is of the counterpart if it goes by the name.
IsOf(p, s) == s \in Names[p]

\* ... and is reported as long as it is undecided.
IsPendingOf(p, s) == s \in Names[p] /\ conv[p].state = "PENDING"

\* The first match, newest request first.
PendingFor(s) ==
    LET hits == {i \in DOMAIN Checked : IsPendingOf(Checked[i], s)}
    IN IF hits = {} THEN "none" ELSE Checked[Min(hits)]

\* A check that fails taken for one that found nothing.
CheckFailedAsMiss(s) == Miss(s)

CheckFailed(s) ==
    Reply("direct_messages_read", "pending_request_check_failed", s, {})

Pending(p, s) ==
    Reply("direct_messages_read", "message_request_pending", p, {s})

PendingCheck(c) ==
    LET s == held[c].selector IN
    /\ held[c].tool = "pending_check"
    /\ Done(c)
    /\ \/ reply' = IF PendingFor(s) # "none"
                    THEN Pending(PendingFor(s), s) ELSE Miss(s)
       \/ reply' = CheckFailed(s)
    /\ UNCHANGED <<inboxVars, accountVars>>

-----------------------------------------------------------------------------
(* message_request_accept and message_request_decline *)

\* Lesser decides an undecided request and leaves any other as it is.
Decided(p, state) ==
    IF conv[p].state = "PENDING" THEN [conv EXCEPT ![p].state = state] ELSE conv

\* Any answer without an error taken for the decision.
ConfirmedByAnswer(state, decision) == TRUE

\* The decision is confirmed by the state Lesser answers with.
Confirmed(state, decision) == state = decision

DecisionError(p) == Reply("decide", "error", p, {})

\* Lesser answers an accept with the conversation as it now is, a decline with
\* whether it is declined; body reports the decision, or that it is not
\* confirmed.  Lesser can refuse, and its answer can be lost: the caller is
\* told of an error and knows nothing.
Decide(c, p, decision) ==
    /\ held[c] = Idle /\ conv[p].state # "none"
    /\ \/ /\ conv' = Decided(p, decision)
          /\ \/ reply' = Reply("decide",
                                 IF Confirmed(conv'[p].state, decision)
                                 THEN decision ELSE "upstream_contract_error",
                                 p, {})
             \/ reply' = DecisionError(p)
       \/ /\ reply' = DecisionError(p)
          /\ UNCHANGED conv
    /\ UNCHANGED <<listed, accountVars, held>>

Accept(c, p) == Decide(c, p, "ACCEPTED")
Decline(c, p) == Decide(c, p, "DECLINED")

-----------------------------------------------------------------------------
(* account_resolve, follow and unfollow *)

\* The answer repeating the name it was asked for.
ResolvedBySelector(h) == h

\* The answer's follow and unfollow arguments: the account's canonical id.
Resolved(h) == holder[h]

\* The caller keeps the answer to follow up on it.
AccountResolve(c, h) ==
    /\ held[c] = Idle
    /\ Then(c, [tool |-> "resolved", argument |-> Resolved(h),
                named |-> holder[h]])
    /\ reply' = NoAnswer
    /\ UNCHANGED <<inboxVars, accountVars>>

\* Lesser takes an id, or a handle for whom it then names.
Target(argument) ==
    IF argument \in Accounts THEN argument ELSE holder[argument]

Follow(c) ==
    /\ held[c].tool = "resolved"
    /\ following' = following \cup {Target(held[c].argument)}
    /\ Done(c)
    /\ reply' = NoAnswer
    /\ UNCHANGED <<inboxVars, fields, holder>>

Unfollow(c) ==
    /\ held[c].tool = "resolved"
    /\ following' = following \ {Target(held[c].argument)}
    /\ Done(c)
    /\ reply' = NoAnswer
    /\ UNCHANGED <<inboxVars, fields, holder>>

-----------------------------------------------------------------------------
(* profile_update *)

\* The request with the fields not given as they once were.
PatchOfDefaults(given) == [f \in Fields |-> IF f \in given THEN "new" ELSE "old"]

\* The request names the fields given and no other.
PatchOf(given) == [f \in given |-> "new"]

ProfileError(given) == Reply("profile_update", "error", "profile", given)

\* Lesser replaces what the request names, or refuses it, or its answer is
\* lost.  A field given is never empty.
ProfileUpdate(c, given) ==
    /\ held[c] = Idle /\ given # {}
    /\ \/ /\ fields' = [f \in Fields |-> IF f \in DOMAIN PatchOf(given)
                                          THEN PatchOf(given)[f]
                                          ELSE fields[f]]
          /\ \E said \in {"updated", "error"} :
               reply' = Reply("profile_update", said, "profile", given)
       \/ /\ reply' = ProfileError(given)
          /\ UNCHANGED fields
    /\ UNCHANGED <<inboxVars, following, holder, held>>

\* Elsewhere the account's owner edits the profile.
ProfileEdited(f) ==
    /\ fields' = [fields EXCEPT ![f] = "old"]
    /\ reply' = Reply("owner", "updated", "profile", {f})
    /\ UNCHANGED <<inboxVars, following, holder, held>>

-----------------------------------------------------------------------------

SocialNext ==
    \/ \E p \in Peers : PeerWrites(p) \/ PeerIsRead(p) \/ LeaveFolder(p)
    \/ \E h \in Handles, a \in Accounts : MoveHandle(h, a)
    \/ \E f \in Fields : ProfileEdited(f)
    \/ \E c \in Callers :
         \/ \E s \in Selectors, view \in {"compact", "full"}, u \in BOOLEAN :
              DirectMessagesRead(c, s, view, u)
         \/ PendingCheck(c)
         \/ \E p \in Peers : Accept(c, p) \/ Decline(c, p)
         \/ \E h \in Handles : AccountResolve(c, h)
         \/ Follow(c) \/ Unfollow(c)
         \/ \E given \in SUBSET Fields : ProfileUpdate(c, given)

SocialSpec == SocialInit /\ [][SocialNext]_socialVars

-----------------------------------------------------------------------------
(* Properties *)

\* The shape of the variables; the folder lists each request once and every
\* undecided one.
SocialTypeOK ==
    /\ conv \in [Peers -> [state : States, unread : BOOLEAN]]
    /\ IsInjective(listed)
    /\ {p \in Peers : conv[p].state = "PENDING"} \subseteq Range(listed)
    /\ Range(listed) \subseteq {p \in Peers : conv[p].state # "none"}
    /\ fields \in [Fields -> {"old", "new"}]
    /\ following \subseteq Accounts
    /\ holder \in [Handles -> Accounts]
    /\ \A c \in Callers :
         held[c] \in {Idle}
            \cup [tool : {"pending_check"}, selector : Selectors]
            \cup [tool : {"resolved"}, argument : Accounts \cup Handles,
                   named : Accounts]

\* A caller told to decide a request (social_tools.go:1093-1116) is told of one
\* that is undecided and of an account that goes by the counterpart's name, also
\* when the folder still lists requests that another caller has decided.
PendingIsUndecided ==
    reply.said = "message_request_pending" =>
        /\ conv[reply.about].state = "PENDING"
        /\ reply.parts \subseteq Names[reply.about]

\* "Not found" is said only while the folder, as far as it is read, holds no
\* undecided request of a peer that goes by the counterpart's name
\* (social_tools.go:884-896, 1093-1116): a check that failed is not taken for one
\* that found nothing.  An actor URL is the name of nobody here.
MissMeansNoRequest ==
    reply.said = "not found"
        => \A p \in Range(Checked) :
              ~(conv[p].state = "PENDING" /\ reply.about \in Names[p])

\* A caller told that its decision is made (message_request_tools.go:90-98,
\* 145-150) made it, or another caller made the same one: it is never told so
\* when the other decision won.
DecisionsHold ==
    reply.tool = "decide" /\ reply.said \in {"ACCEPTED", "DECLINED"}
        => conv[reply.about].state = reply.said

\* A read that asks for unread messages only shows no body of a conversation
\* that is read, in any part of the answer (social_tools.go:904-908, 1431-1437).
ReadBodiesStayOut ==
    reply.said = "unread only" /\ ~conv[reply.about].unread
        => reply.parts = {}

\* Whom a caller comes to follow is the account it resolved
\* (social_tools.go:2230-2302), whatever account the handle names by then.
FollowsResolved ==
    \A a \in following' \ following :
        \E c \in Callers : held[c].tool = "resolved" /\ held[c].named = a
FollowsWhoWasResolved == [][FollowsResolved]_socialVars

\* An update of the profile changes the fields it was given and leaves what
\* others wrote into the rest (social_tools.go:2354-2371).
KeepsTheRest ==
    \A f \in Fields : fields'[f] # fields[f] => f \in reply'.parts
UpdatesKeepTheRest == [][KeepsTheRest]_socialVars

\* What a read of a conversation says is so: a request it sends the caller to
\* decide is undecided, one it does not find is not there, and an answer for
\* unread messages holds no read one.
ConversationAnswersHold == PendingIsUndecided /\ MissMeansNoRequest /\ ReadBodiesStayOut

\* A write reaches what its caller named and nothing else.
WritesAreTheCallers == FollowsWhoWasResolved /\ UpdatesKeepTheRest

=============================================================================
