----------------------------- MODULE MCKeyServer -----------------------------
(***************************************************************************)
(* KeyServer on small instances.                                           *)
(***************************************************************************)
EXTENDS KeyServer, TLC

CONSTANTS
  Ops,          \* the requests clients make in the run
  AskedKeys,    \* the key numbers they name
  Guests        \* clients that only agree on keys, and are sent no messages

MCRequests ==
  {r \in [op : Ops, from : Clients, to : Clients, key : AskedKeys] :
     /\ r.op = "agree" \/ {r.from, r.to} \cap Guests = {}
     /\ CASE r.op = "agree" -> r.to = r.from /\ r.key = 0
          [] r.op = "send"  -> r.from # r.to \/ r.key = 0
          [] OTHER          -> r.to = r.from /\ r.key # 0}

\* With three requests in a run, a message that is stored is one to oneself.
PoolRequests ==
  MCRequests \cup {r \in [op : {"send"}, from : Clients, to : Clients, key : AskedKeys] : r.from = r.to}

\* Clients and threads are interchangeable.
PoolSymmetry == Permutations(Clients) \cup Permutations(Workers)
=============================================================================
