------------------------- MODULE MCNotificationFeed -------------------------
(* A small instance of NotificationFeed: windows of three rows for pages of *)
(* one or two, over a feed of up to four.                                   *)
EXTENDS NotificationFeed

Row(type, channel, handles) ==
    [type |-> type, channel |-> channel, handles |-> handles]

\* Two actors, a type of each family and a mention that came by mail.
MCRows == {Row("mention", FALSE, {"ada"}), Row("follow", FALSE, {"bob"}),
           Row("mention", TRUE, {"ada", "bob"})}

MCTypes == {"mention", "follow", "communication"}
MCCommTypes == {"communication"}

\* Everything; everything of one actor; one type; two types; mail.
MCAsks == {[types |-> {}, actor |-> {}],
           [types |-> {}, actor |-> {"ada"}],
           [types |-> {"mention"}, actor |-> {"ada"}],
           [types |-> {"mention", "follow"}, actor |-> {}],
           [types |-> {"communication"}, actor |-> {}]}
=============================================================================
