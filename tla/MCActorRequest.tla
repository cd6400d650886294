--------------------------- MODULE MCActorRequest ---------------------------
\* Two concurrent requests to one agent, by its owner, a guest, a stranger to
\* the agent, the instance key and the holders of two grants.
EXTENDS ActorRequest, TLC

CONSTANTS owner, guest, g1, g2

Token(h, s) == [kind |-> "token", valid |-> TRUE, audience |-> TRUE, human |-> h, scope |-> s]
Paid(g)     == [kind |-> "grant", grant |-> g, mixed |-> FALSE, evidence |-> TRUE]
Key         == [kind |-> "key", valid |-> TRUE]

Post1(cred, items) == [cred |-> cred, route |-> "agent", method |-> "POST",
                       session |-> "held", items |-> items]

MCRequests ==
  {Post1(Token(owner, "write"), <<"email_send", "post_create">>),
   Post1(Token(guest, "write"), <<"post_create", "memory_append">>),
   Post1(Token(guest, "read"), <<"timeline_read", "post_create">>),
   [Post1(Token(owner, "read"), <<>>) EXCEPT !.method = "GET"],
   Post1([Token(owner, "admin") EXCEPT !.audience = FALSE], <<"timeline_read">>),
   Post1(Token(NoOne, "write"), <<"memory_append">>),
   Post1(Paid(g1), <<"memory_append">>),
   Post1(Paid(g2), <<"email_send">>),
   Post1(Paid(g1), <<"initialize">>),
   Post1([Paid(g1) EXCEPT !.mixed = TRUE], <<"memory_append">>),
   [Post1(Key, <<"memory_append", "email_send">>) EXCEPT !.route = "instance"],
   Post1(Key, <<"memory_append">>)}

MCIssued ==
  (g1 :> [tool |-> "memory_append", scope |-> "write", agent |-> "soul", named |-> FALSE])
  @@ (g2 :> [tool |-> "email_send", scope |-> "write", agent |-> "actor", named |-> TRUE])
=============================================================================
