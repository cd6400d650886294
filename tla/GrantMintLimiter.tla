--------------------------- MODULE GrantMintLimiter ---------------------------
(***************************************************************************)
(* InMemoryGrantMintLimiter of internal/baserver: per account, the times   *)
(* of the plans it let through, kept for one window.  A Lambda environment *)
(* serves one request at a time, so a call reads the clock and decides in  *)
(* one step; a new environment starts with no hits.                        *)
(***************************************************************************)
EXTENDS Integers, Sequences

CONSTANTS Accounts, MaxHits, Window,
          MaxSeconds     \* bound on the clock

ASSUME LimiterAssumption ==
  MaxHits \in Nat \ {0} /\ Window \in Nat \ {0} /\ MaxSeconds \in Nat

VARIABLES seconds,
          hits,      \* per account: the times kept
          accepted,  \* per account: every time it was let through since the start
          resetAt    \* per account: the time named by its last refusal, or none

limiterVars == <<seconds, hits, accepted, resetAt>>

None == -1

LimiterInit ==
  /\ seconds = 0
  /\ hits = [a \in Accounts |-> <<>>]
  /\ accepted = [a \in Accounts |-> <<>>]
  /\ resetAt = [a \in Accounts |-> None]

SecondPasses ==
  /\ seconds < MaxSeconds
  /\ seconds' = seconds + 1
  /\ UNCHANGED <<hits, accepted, resetAt>>

AfterNext(hit) == hit > seconds + 1 - Window
After(hit)     == hit > seconds - Window

\* The hits after the cutoff, taken one after the other.
Kept(a) ==
  LET upTo[n \in 0..Len(hits[a])] ==
        IF n = 0 THEN << >>
        ELSE IF After(hits[a][n]) THEN Append(upTo[n - 1], hits[a][n])
        ELSE upTo[n - 1]
  IN upTo[Len(hits[a])]

ResetAt(kept) == kept[1] + Window

\* Whether a call at this second is refused.
Refuses(a) == Len(Kept(a)) >= MaxHits

Refuse(a) ==
  /\ Refuses(a)
  /\ hits' = [hits EXCEPT ![a] = Kept(a)]
  /\ resetAt' = [resetAt EXCEPT ![a] = ResetAt(Kept(a))]
  /\ UNCHANGED <<seconds, accepted>>

Accept(a) ==
  /\ ~Refuses(a)
  /\ hits' = [hits EXCEPT ![a] = Append(Kept(a), seconds)]
  /\ accepted' = [accepted EXCEPT ![a] = Append(@, seconds)]
  /\ resetAt' = [resetAt EXCEPT ![a] = None]
  /\ UNCHANGED seconds

NewEnvironment ==
  /\ hits' = [a \in Accounts |-> <<>>]
  /\ accepted' = [a \in Accounts |-> <<>>]
  /\ resetAt' = [a \in Accounts |-> None]
  /\ UNCHANGED seconds

LimiterNext ==
  \/ SecondPasses \/ NewEnvironment
  \/ \E a \in Accounts : Accept(a) \/ Refuse(a)

LimiterSpec == LimiterInit /\ [][LimiterNext]_limiterVars

-----------------------------------------------------------------------------
\* Whatever window of time one looks at, and however the refusals fell in it,
\* one environment lets an account through at most MaxHits times; and the
\* reset_at of a refusal is exact: until then every call of that account is
\* refused, and the first one from then on is let through, whatever the other
\* accounts did (baserver.go:1297-1311).
MeteredExactly ==
  \A a \in Accounts :
    /\ \A i \in DOMAIN accepted[a] :
         i > MaxHits => accepted[a][i] - accepted[a][i - MaxHits] >= Window
    /\ resetAt[a] # None => (Refuses(a) <=> seconds < resetAt[a])
=============================================================================
