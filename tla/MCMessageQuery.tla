--------------------------- MODULE MCMessageQuery ---------------------------
(***************************************************************************)
(* MessageQuery on a small instance: sender exchanges messages with        *)
(* receiver; stranger has no part in them.                                 *)
(***************************************************************************)
EXTENDS MessageQuery

CONSTANTS sender, receiver, stranger

Agreement(c)  == [op |-> "agree", from |-> c, to |-> c, key |-> 0]
Sending(n)    == [op |-> "send", from |-> sender, to |-> receiver, key |-> n]

MCRequests == {Agreement(sender), Agreement(receiver), Sending(1)}

One(c, id)     == [op |-> "one", asker |-> c, id |-> id, of |-> NoClient, limit |-> 0]
List(c, of, n) == [op |-> "list", asker |-> c, id |-> 0, of |-> of, limit |-> n]

MCQueries ==
  {One(c, 3) : c \in {sender, stranger}}
  \cup {List(stranger, sender, 1), List(sender, sender, 1), List(sender, sender, 101)}
=============================================================================
