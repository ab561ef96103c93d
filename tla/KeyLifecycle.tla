---------------------------- MODULE KeyLifecycle ----------------------------
(***************************************************************************)
(* What the server promises about session keys, one atomic step per        *)
(* operation: the table of all keys ever issued and the number the next    *)
(* key gets (the keysn table).  KeyServer implements it on the committed   *)
(* tables when one thread at a time runs a request.                        *)
(***************************************************************************)
EXTENDS KeyStates

CONSTANT KeyBytes    \* the key bytes an agreement can come up with

VARIABLES
  sn,      \* the number of the next key
  keys     \* every key ever issued, as a set of KeyRow

lifecycleVars == <<sn, keys>>

Init == sn = 1 /\ keys = {}

\* A new key for c, under a number of its own; the key c had is Rotated.
Agree(c, m) ==
  /\ keys' = SetState(keys, ActiveOf(keys, c), "Rotated")
             \cup {[client |-> c, key |-> sn, state |-> "Active", mat |-> m]}
  /\ sn' = sn + 1

\* An Active key ends in state s.
End(r, s) ==
  /\ r.state = "Active"
  /\ keys' = SetState(keys, {r}, s)
  /\ UNCHANGED sn

Revoke(r) == End(r, "Revoked")
Expire(r) == End(r, "Expired")

Next ==
  \/ \E c \in Clients, m \in KeyBytes : Agree(c, m)
  \/ \E r \in keys : Revoke(r) \/ Expire(r)

Spec == Init /\ [][Next]_lifecycleVars

TypeOK == sn \in Nat /\ keys \subseteq KeyRow

\* A client has at most one Active key.
OneActiveKey ==
  \A r, s \in keys :
    r.client = s.client /\ r.state = "Active" /\ s.state = "Active" => r = s

\* No number is issued twice, to one client or to two, and the next is unused.
NumbersUnique ==
  /\ \A r, s \in keys : r.key = s.key => r = s
  /\ \A r \in keys : r.key < sn

\* A key's final state is final, and keys are never forgotten.
StatesAdvance == [][Advances(keys, keys')]_lifecycleVars
=============================================================================
