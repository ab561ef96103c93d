------------------------------ MODULE KeyStates ------------------------------
(***************************************************************************)
(* What a session key is to the rest of the system (KeyLifecycle.h and the *)
(* seckeyinfo table): it belongs to a client, has a number, is in one of   *)
(* four states, and has key bytes, here an opaque number mat.              *)
(***************************************************************************)
EXTENDS Naturals

CONSTANT Clients    \* the client nodes' ids

\* KeyLifecycleState
State == {"Active", "Revoked", "Expired", "Rotated"}

\* A row of seckeyinfo.  One server owns the table: serverid is left out.
KeyRow == [client : Clients, key : Nat, state : State, mat : Nat]

\* The rows a WHERE over clientid, keyid and state selects, and over two of them.
KeysWhere(keys, c, k, s) == {r \in keys : r.client = c /\ r.key = k /\ r.state = s}
ActiveOf(keys, c)        == {r \in keys : r.client = c /\ r.state = "Active"}

\* UPDATE seckeyinfo SET state = s on the given rows.
SetState(keys, rows, s) == (keys \ rows) \cup {[r EXCEPT !.state = s] : r \in rows}

\* A state once reached is kept or, from Active, left for a final one; rows
\* are never deleted and their number, owner and bytes never change.
Advances(keys, later) ==
  \A r \in keys : \E s \in later :
    /\ s = [r EXCEPT !.state = s.state]
    /\ r.state # "Active" => s.state = r.state
=============================================================================
