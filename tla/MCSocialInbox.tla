---------------------------- MODULE MCSocialInbox ----------------------------
(* A small instance of SocialInbox: the agent and a guest, two peers of one  *)
(* user name on two instances, one of them also called by its actor URL, and *)
(* a handle that moves between two accounts.                                 *)
EXTENDS SocialInbox

\* Lesser takes the bare name for the local account.
MCResolves == [s \in Selectors |-> IF s \in {"bob@far", "url of far"} THEN "far" ELSE "near"]
MCNames == [near |-> {"bob", "bob@near"}, far |-> {"bob", "bob@far"}]
=============================================================================
