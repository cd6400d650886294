-------------------------- MODULE NotificationFeed --------------------------
(***************************************************************************)
(* The notification tools of internal/mcpserver/social_tools.go over the   *)
(* feed one Lesser account has: notifications_read, notification_get and   *)
(* notification_dismiss, and the client that pages through answers.        *)
(*                                                                         *)
(* Lesser (external) lists notifications newest first and pages by the id  *)
(* of the last row it returned.  Body adds to this a filter by actor: it   *)
(* reads a larger window than it was asked for, keeps the matching rows,   *)
(* returns the first ones, and hands out a cursor of its own -- the        *)
(* upstream cursor with an offset -- for the rest of the window.  The      *)
(* window is read again for every page, from a feed that goes on moving.   *)
(*                                                                         *)
(* Client: it asks for one set of types and one actor.  A round is a read  *)
(* without a cursor followed by reads with the cursor of the answer before *)
(* until there is none; the next round starts at the nextSince the first   *)
(* page of a round gave.                                                   *)
(*                                                                         *)
(* Every type the tool accepts is one Lesser filters by                    *)
(* (social_tools.go:60-88), so the untyped fallback of                     *)
(* normalizeRequestedNotificationTypes is never taken and left out.        *)
(***************************************************************************)
EXTENDS Naturals, Sequences, FiniteSets, FiniteSetsExt

CONSTANTS
    Rows,         \* the rows Lesser lists: [type, channel, handles]
    Types,        \* the notification types of the rows
    CommTypes,    \* those of the communication family
    Wanted,       \* what clients ask for: [types, actor], actor a set of names
    Limits,       \* the page sizes asked for, after boundedNotificationReadLimit
    MaxLimit,     \* notificationReadMaxLimit (80 in the code)
    OverFetch,    \* rows read per row asked for under an actor filter (4)
    Initial,      \* how many rows the feed has at first
    MaxRows       \* bound: rows that ever arrive

ASSUME LimitsAreBounded == MaxLimit \in Nat /\ Limits \subseteq 1..MaxLimit
ASSUME WindowHoldsAPage == OverFetch \in Nat \ {0}
ASSUME FeedHasRoom == Initial \in Nat /\ MaxRows \in Nat /\ Initial <= MaxRows

VARIABLES
    profile,   \* the runtime profile: "souled" or "drone"
    feed,      \* every row that ever arrived; its index is its id and its time
    present,   \* the ids not dismissed
    ask,       \* what the client asks for
    client,    \* its round: [state, since, next, cursor, begun, torn], where
               \* begun is the newest id as it began
    reading,      \* its read under way: [limit, left, got, more]
    shown      \* the ids answers returned that were not dismissed after

feedVars == <<profile, feed, present, ask, client, reading, shown>>

Ids == 1..MaxRows
Top == MaxRows + 1       \* the upstream cursor of a read without one
NoCall == {}

\* A cursor a client passes back: where the window starts and how many of its
\* matches earlier pages returned.
Cursors == [after : 1..Top, offset : 0..MaxRows]
FirstPage == [after |-> Top, offset |-> 0]

-----------------------------------------------------------------------------
(* The filters *)

\* A row is a communication by its type or by a channel it carries.
IsCommunication(row) == row.type \in CommTypes \/ row.channel

\* The same by the type alone, which the code does not do.
VisibleByType(row) == profile = "souled" \/ row.type \notin CommTypes

\* A profile without communications sees no communication row; that is decided
\* on the raw rows, before they are normalised.
Visible(row) == profile = "souled" \/ ~IsCommunication(row)

\* No requested type stands for all of them.
TypeMatches(row) == ask.types = {} \/ row.type \in ask.types

\* An actor matches when one of the names its id, handle, URL, address or post
\* author stand for is one of the names the filter stands for.
ActorMatches(row) == ask.actor = {} \/ row.handles \cap ask.actor # {}

Filtered == ask.actor # {}

\* Rows older than the temporal bound go; the bound itself is excluded.
After(n, since) == n > since

Kept(ids, since) ==
    {n \in ids : /\ Visible(feed[n]) /\ After(n, since)
                 /\ TypeMatches(feed[n]) /\ ActorMatches(feed[n])}

\* How many rows are read for a page of `limit`.
FetchLimit(limit) ==
    IF Filtered THEN Min({limit * OverFetch, MaxLimit}) ELSE limit

-----------------------------------------------------------------------------
(* Lists, newest first, as sets of ids *)

\* The `k` newest of `ids`.
Newest(ids, k) == {n \in ids : Cardinality({m \in ids : m > n}) < k}

\* All but the `k` newest of `ids`.
Older(ids, k) == ids \ Newest(ids, k)

\* The rows Lesser lists for one query: of one type, older than the cursor.
Listed(types, after) ==
    {n \in present : n < after /\ (types = {} \/ feed[n].type \in types)}

\* One request to Lesser: a page and, when more is to come, the cursor of its
\* last row.
Page(types, after, limit) ==
    LET all == Listed(types, after)
        page == Newest(all, limit)
    IN [rows |-> page, more |-> IF all = page THEN {} ELSE {Min(page)}]

-----------------------------------------------------------------------------
(* notifications_read *)

\* A read fans out to one request per type when there are several, and then
\* drops their cursors; one type, or none, is a single request.
Queries(types) ==
    IF Cardinality(types) <= 1 THEN {types} ELSE {{t} : t \in types}

SingleQuery == Cardinality(ask.types) <= 1

FeedInit ==
    /\ profile \in {"souled", "drone"}
    /\ feed \in [1..Initial -> Rows]
    /\ present = 1..Initial
    /\ ask \in Wanted
    /\ client = [state |-> "ended", since |-> 0, next |-> 0,
                 cursor |-> FirstPage, begun |-> 0, torn |-> FALSE]
    /\ reading = NoCall
    /\ shown = {}

\* The client starts a round from the time its last round gave it.
BeginRound ==
    /\ client.state = "ended" /\ reading = NoCall
    /\ client' = [state |-> "paging", since |-> client.next,
                  next |-> client.next, cursor |-> FirstPage,
                  begun |-> Len(feed), torn |-> client.torn]
    /\ UNCHANGED <<profile, feed, present, ask, reading, shown>>

\* A profile without communications may not name their types.
Refuse ==
    /\ client.state = "paging"
    /\ profile = "drone" /\ ask.types \cap CommTypes # {}
    /\ client' = [client EXCEPT !.state = "refused"]
    /\ UNCHANGED <<profile, feed, present, ask, reading, shown>>

\* notifications_read is called for a page of `limit` rows.
Ask(limit) ==
    /\ client.state = "paging" /\ reading = NoCall
    /\ ~(profile = "drone" /\ ask.types \cap CommTypes # {})
    /\ reading' = {[limit |-> limit, left |-> Queries(ask.types),
                 got |-> {}, more |-> {}]}
    /\ UNCHANGED <<profile, feed, present, ask, client, shown>>

\* A read after Lesser's answer to one of its queries.
WithPage(c, q) ==
    LET page == Page(q, client.cursor.after, FetchLimit(c.limit))
    IN [c EXCEPT !.left = @ \ {q},
                 !.got = @ \cup page.rows,
                 !.more = IF SingleQuery THEN page.more ELSE {}]

\* The kept rows earlier pages have not taken: under an actor filter those are
\* dropped by count.
Rest(c) ==
    LET kept == Kept(c.got, client.since)
    IN IF Filtered THEN Older(kept, client.cursor.offset) ELSE kept

Deeper(k) == {[after |-> client.cursor.after, offset |-> k]}
Further(c) == {[after |-> k, offset |-> 0] : k \in c.more}

\* Three answers the code does not give: one that leaves the rest of a window
\* behind, one whose offset never moves, and one that goes on in a window it
\* has emptied.
AnswerHasty(c) ==
    [rows |-> Newest(Rest(c), c.limit), cursor |-> Further(c)]
AnswerStuck(c) ==
    LET rows == Newest(Rest(c), c.limit)
    IN [rows |-> rows, cursor |-> IF Filtered /\ rows # Rest(c)
                                  THEN Deeper(client.cursor.offset)
                                  ELSE Further(c)]

\* What a page returns and the cursor that goes with it: what is left over in a
\* filtered window is reached by the same window with a larger offset, and the
\* next window by Lesser's cursor.
ReadAnswer(c) ==
    LET rows == Newest(Rest(c), c.limit)
    IN [rows |-> rows, cursor |-> IF Filtered /\ rows # Rest(c)
                                  THEN Deeper(client.cursor.offset + c.limit)
                                  ELSE Further(c)]

\* The time to poll from next: of the newest row of the round's first page, and
\* of the bound asked for when that page is empty.
NextSince(rows) == IF rows = {} THEN client.since ELSE Max(rows)

\* One of its requests to Lesser is answered, and others are to be made.
FetchQuery ==
    \E c \in reading : \E q \in c.left :
        /\ c.left # {q}
        /\ reading' = {WithPage(c, q)}
        /\ UNCHANGED <<profile, feed, present, ask, client, shown>>

\* The last one is answered, and the page goes back to the client, which goes
\* on or ends its round.
Return ==
    \E c \in reading : \E q \in c.left :
        LET a == ReadAnswer(WithPage(c, q))
            first == client.cursor = FirstPage
        IN /\ c.left = {q}
           /\ shown' = shown \cup a.rows
           /\ client' = [client EXCEPT
                 !.next = IF first THEN NextSince(a.rows) ELSE @,
                 !.state = IF a.cursor = {} THEN "ended" ELSE "paging",
                 !.cursor = IF a.cursor = {} THEN FirstPage
                            ELSE CHOOSE k \in a.cursor : TRUE]
           /\ reading' = NoCall
           /\ UNCHANGED <<profile, feed, present, ask>>

\* A request fails, or the compact page is larger than its budget
\* (response_too_large): the client has nothing and asks again.
Fail ==
    /\ reading # NoCall
    /\ reading' = NoCall
    /\ UNCHANGED <<profile, feed, present, ask, client, shown>>

-----------------------------------------------------------------------------
(* notification_get and notification_dismiss *)

\* One notification by id; a communication is refused to a profile without.
Open(n) ==
    /\ n \in present /\ Visible(feed[n])
    /\ shown' = shown \cup {n}
    /\ UNCHANGED <<profile, feed, present, ask, client, reading>>

\* A match of the ask.
Matches(n) ==
    Visible(feed[n]) /\ TypeMatches(feed[n]) /\ ActorMatches(feed[n])

\* The ids a client that polls has to be shown: those the feed had as its round
\* began, and those the next round leaves out for their time.
Due(n) == n <= client.begun \/ n <= client.next

\* Dismissing matches that earlier pages counted in the window a cursor is in
\* the middle of shifts what its offset stands for.  They are those returned,
\* and those that came too late for the round.
Tears(gone) ==
    \/ client.torn
    \/ /\ client.cursor.offset > 0
       /\ \E n \in gone : /\ Matches(n) /\ (n \in shown \/ ~Due(n))
                          /\ client.since < n /\ n < client.cursor.after

Dismissed(gone) ==
    /\ present' = present \ gone
    /\ shown' = shown \ gone
    /\ client' = [client EXCEPT !.torn = Tears(gone)]
    /\ UNCHANGED <<profile, feed, ask, reading>>

\* One notification is dismissed.  An id Lesser does not have is not_found.
Dismiss(n) == n \in present /\ Dismissed({n})

\* All are dismissed.  The cleared-cursor event it then appends to the acting
\* scope's memory is left out: nothing but tests reads it back.
DismissAll == present # {} /\ Dismissed(present)

\* A notification arrives.
Notify(row) ==
    /\ Len(feed) < MaxRows
    /\ feed' = Append(feed, row)
    /\ present' = present \cup {Len(feed) + 1}
    /\ UNCHANGED <<profile, ask, client, reading, shown>>

FeedNext ==
    \/ BeginRound
    \/ Refuse
    \/ \E limit \in Limits : Ask(limit)
    \/ FetchQuery
    \/ Return
    \/ Fail
    \/ \E n \in Ids : Open(n)
    \/ \E n \in Ids : Dismiss(n)
    \/ DismissAll
    \/ \E row \in Rows : Notify(row)

FeedSpec == FeedInit /\ [][FeedNext]_feedVars

-----------------------------------------------------------------------------
FeedTypeOK ==
    /\ profile \in {"souled", "drone"}
    /\ feed \in UNION {[1..k -> Rows] : k \in Initial..MaxRows}
    /\ present \subseteq DOMAIN feed
    /\ ask \in Wanted
    /\ client \in [state : {"ended", "paging", "refused"}, since : 0..MaxRows,
                   next : 0..MaxRows, cursor : Cursors,
                   begun : 0..MaxRows, torn : BOOLEAN]
    /\ \A c \in reading : /\ c.limit \in Limits
                       /\ c.left \subseteq Queries(ask.types)
                       /\ c.got \subseteq DOMAIN feed
                       /\ c.more \subseteq Ids
    /\ Cardinality(reading) <= 1
    /\ shown \subseteq DOMAIN feed

\* A profile without communications is shown none, whether they are so by type
\* or by the channel they carry, by a list or by an id (social_tools.go:1513,
\* 1640).
DronesSeeNoCommunication ==
    profile = "drone" =>
        \A n \in shown : ~IsCommunication(feed[n])

\* When a round that needed one request a page has ended, every match that was
\* in the feed as it began, and still is, has been shown, in this round or an
\* earlier one: arrivals while the windows are read again push nothing out of
\* reach, and polling from nextSince skips nothing.  Under an actor filter this
\* holds only while no match that is shown, or that came since the round began,
\* is dismissed between two pages of a window.
EveryMatchShown ==
    client.state = "ended" /\ SingleQuery /\ (Filtered => ~client.torn) =>
        \A n \in present \cap 1..client.begun : Matches(n) => n \in shown

\* Paging comes to an end: within a round every cursor leads to an older window
\* or deeper into the same one, also while rows arrive, windows are read again
\* and page sizes change.
PagesAdvance ==
    [][Return /\ client'.state = "paging" =>
           \/ client'.cursor.after < client.cursor.after
           \/ /\ client'.cursor.after = client.cursor.after
              /\ client'.cursor.offset > client.cursor.offset]_feedVars
=============================================================================
