---------------------------- MODULE RequestReply ----------------------------
(***************************************************************************)
(* What an exchange on one connection promises: the server is given the    *)
(* client's request at most once and as it was asked, and what the client  *)
(* is told is the server's reply to it.  Nothing is promised to arrive.    *)
(* ClientNode takes its wire for this.                                     *)
(***************************************************************************)

CONSTANTS
  Conns,       \* connections, one per exchange
  NoPayload    \* nothing yet

VARIABLES
  asked,       \* the client's request
  seen,        \* what the server takes it for
  answered,    \* the server's reply
  told         \* what the client takes it for

vars == <<asked, seen, answered, told>>

Init ==
  /\ asked = [c \in Conns |-> NoPayload]
  /\ seen = [c \in Conns |-> NoPayload]
  /\ answered = [c \in Conns |-> NoPayload]
  /\ told = [c \in Conns |-> NoPayload]

\* f[c] gets a value, once.
Set(f, c) ==
  /\ f[c] = NoPayload /\ f'[c] # NoPayload
  /\ f' = [f EXCEPT ![c] = f'[c]]

Ask(c) == Set(asked, c) /\ UNCHANGED <<seen, answered, told>>

See(c) == Set(seen, c) /\ seen'[c] = asked[c] /\ UNCHANGED <<asked, answered, told>>

Answer(c) ==
  /\ seen[c] # NoPayload
  /\ Set(answered, c)
  /\ UNCHANGED <<asked, seen, told>>

Tell(c) == Set(told, c) /\ told'[c] = answered[c] /\ UNCHANGED <<asked, seen, answered>>

Next == \E c \in Conns : Ask(c) \/ See(c) \/ Answer(c) \/ Tell(c)

Spec == Init /\ [][Next]_vars
=============================================================================
