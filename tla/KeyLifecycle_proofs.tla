------------------------- MODULE KeyLifecycle_proofs -------------------------
(***************************************************************************)
(* KeyLifecycle keeps its promises for any set of clients and any number   *)
(* of keys.  The only hypothesis is that key bytes are what KeyRow says.   *)
(***************************************************************************)
EXTENDS KeyLifecycle, TLAPS

\* The inductive invariant: types, and the two promises, which need each other's
\* company only through the type of the numbers.
IInv == TypeOK /\ OneActiveKey /\ NumbersUnique

LEMMA InitIInv == Init => IInv
  BY DEF Init, IInv, TypeOK, OneActiveKey, NumbersUnique

\* An agreement: the old Active row of c is gone from the Active ones, and the
\* new number is above all others.
LEMMA AgreeIInv ==
  ASSUME KeyBytes \subseteq Nat, IInv, NEW c \in Clients, NEW m \in KeyBytes, Agree(c, m)
  PROVE  IInv'
<1> DEFINE new == [client |-> c, key |-> sn, state |-> "Active", mat |-> m]
           old == SetState(keys, ActiveOf(keys, c), "Rotated")
<1>1. keys' = old \cup {new} /\ sn' = sn + 1 /\ sn \in Nat /\ new \in KeyRow
  BY DEF Agree, IInv, TypeOK, KeyRow, State
\* Each row of old comes from one of keys with the same owner and number.
<1>2. ASSUME NEW r \in old
      PROVE  /\ r \in KeyRow
             /\ \E q \in keys : /\ q.key = r.key /\ q.client = r.client
                                /\ \/ r = q /\ ~(q.client = c /\ q.state = "Active")
                                   \/ r = [q EXCEPT !.state = "Rotated"] /\ q.client = c
                                      /\ q.state = "Active"
  BY DEF SetState, ActiveOf, IInv, TypeOK, KeyRow, State
<1>3. ASSUME NEW r \in old, NEW s \in old, r.key = s.key
      PROVE  r = s
  <2>1. PICK q \in keys : /\ q.key = r.key
                          /\ \/ r = q /\ ~(q.client = c /\ q.state = "Active")
                             \/ r = [q EXCEPT !.state = "Rotated"] /\ q.client = c
                                /\ q.state = "Active"
    BY <1>2
  <2>2. PICK p \in keys : /\ p.key = s.key
                          /\ \/ s = p /\ ~(p.client = c /\ p.state = "Active")
                             \/ s = [p EXCEPT !.state = "Rotated"] /\ p.client = c
                                /\ p.state = "Active"
    BY <1>2
  <2>3. p = q
    BY <1>3, <2>1, <2>2 DEF IInv, NumbersUnique
  <2> QED  BY <2>1, <2>2, <2>3
<1>4. \A r \in old : r.key < sn
  BY <1>2 DEF IInv, NumbersUnique
<1>5. TypeOK'
  BY <1>1, <1>2 DEF TypeOK
<1>6. NumbersUnique'
  <2>1. \A r \in keys' : r.key < sn'
    BY <1>1, <1>2, <1>4 DEF KeyRow
  <2>2. ASSUME NEW r \in keys', NEW s \in keys', r.key = s.key
        PROVE  r = s
    BY <2>2, <1>1, <1>2, <1>3, <1>4 DEF KeyRow
  <2> QED  BY <2>1, <2>2 DEF NumbersUnique
<1>7. OneActiveKey'
  <2>1. ASSUME NEW r \in old, r.state = "Active"
        PROVE  r \in keys /\ r.client # c
    BY <1>2, <2>1 DEF IInv, TypeOK, KeyRow
  <2>2. ASSUME NEW r \in keys', NEW s \in keys', r.client = s.client,
               r.state = "Active", s.state = "Active"
        PROVE  r = s
    BY <2>1, <2>2, <1>1 DEF IInv, OneActiveKey
  <2> QED  BY <2>2 DEF OneActiveKey
<1> QED  BY <1>5, <1>6, <1>7 DEF IInv

\* Revoking or expiring one key changes neither owner nor number of any row.
LEMMA EndIInv ==
  ASSUME IInv, NEW k \in keys, NEW s \in {"Revoked", "Expired"}, End(k, s)
  PROVE  IInv'
<1>1. keys' = SetState(keys, {k}, s) /\ sn' = sn /\ sn \in Nat /\ k \in KeyRow
  BY DEF End, IInv, TypeOK
<1>2. ASSUME NEW r \in keys'
      PROVE  (r \in keys /\ r # k) \/ r = [k EXCEPT !.state = s]
  BY <1>1, <1>2 DEF SetState
<1>3. [k EXCEPT !.state = s] \in KeyRow /\ [k EXCEPT !.state = s].key = k.key
      /\ [k EXCEPT !.state = s].state = s
  BY <1>1 DEF KeyRow, State
<1>4. TypeOK'
  BY <1>1, <1>2, <1>3 DEF TypeOK, IInv
<1>5. NumbersUnique'
  BY <1>1, <1>2, <1>3 DEF NumbersUnique, IInv
<1>6. OneActiveKey'
  <2>1. ASSUME NEW r \in keys', r.state = "Active" PROVE r \in keys
    BY <1>2, <1>3, <2>1
  <2> QED  BY <2>1 DEF OneActiveKey, IInv
<1> QED  BY <1>4, <1>5, <1>6 DEF IInv

LEMMA NextIInv == ASSUME KeyBytes \subseteq Nat PROVE IInv /\ [Next]_lifecycleVars => IInv'
<1> SUFFICES ASSUME IInv, [Next]_lifecycleVars PROVE IInv'
  OBVIOUS
<1>1. CASE \E c \in Clients, m \in KeyBytes : Agree(c, m)
  BY <1>1, AgreeIInv
<1>2. CASE \E r \in keys : Revoke(r) \/ Expire(r)
  BY <1>2, EndIInv DEF Revoke, Expire
<1>3. CASE UNCHANGED lifecycleVars
  BY <1>3 DEF lifecycleVars, IInv, TypeOK, OneActiveKey, NumbersUnique
<1> QED  BY <1>1, <1>2, <1>3 DEF Next

\* KeyLifecycle is type correct, issues no number twice and leaves each client
\* at most one Active key.
THEOREM LifecycleSafe ==
  ASSUME KeyBytes \subseteq Nat
  PROVE  Spec => [](TypeOK /\ OneActiveKey /\ NumbersUnique)
<1>1. Init => IInv
  BY InitIInv
<1>2. IInv /\ [Next]_lifecycleVars => IInv'
  BY NextIInv
<1>3. IInv => TypeOK /\ OneActiveKey /\ NumbersUnique
  BY DEF IInv
<1> QED  BY <1>1, <1>2, <1>3, PTL DEF Spec

\* Active rows that end advance the table.
LEMMA EndingAdvances ==
  ASSUME keys \in SUBSET KeyRow, NEW rows \in SUBSET keys, NEW s \in State,
         \A r \in rows : r.state = "Active"
  PROVE  Advances(keys, SetState(keys, rows, s))
<1>1. ASSUME NEW r \in rows
      PROVE  \E q \in SetState(keys, rows, s) :
               q = [r EXCEPT !.state = q.state] /\ (r.state # "Active" => q.state = r.state)
  <2>1. [r EXCEPT !.state = s] \in SetState(keys, rows, s) /\ r \in KeyRow
    BY DEF SetState
  <2>2. [r EXCEPT !.state = s].state = s
    BY <2>1 DEF KeyRow
  <2> QED  BY <2>1, <2>2
<1>2. ASSUME NEW r \in keys \ rows
      PROVE  r \in SetState(keys, rows, s) /\ r = [r EXCEPT !.state = r.state]
  BY DEF SetState, KeyRow
<1> QED  BY <1>1, <1>2 DEF Advances

\* A step of the abstract system never loses a key and never brings a key back
\* from a final state (KeyLifecycle.h, its comment on the states).
THEOREM LifecycleStatesAdvance ==
  ASSUME KeyBytes \subseteq Nat
  PROVE  Spec => StatesAdvance
<1>1. ASSUME TypeOK, NEW c \in Clients, NEW m \in KeyBytes, Agree(c, m)
      PROVE  Advances(keys, keys')
  <2>1. Advances(keys, SetState(keys, ActiveOf(keys, c), "Rotated"))
    BY <1>1, EndingAdvances DEF TypeOK, ActiveOf, State
  <2> QED  BY <1>1, <2>1 DEF Agree, Advances
<1>2. ASSUME TypeOK, NEW r \in keys, Revoke(r) \/ Expire(r)
      PROVE  Advances(keys, keys')
  <2>1. ASSUME NEW s \in {"Revoked", "Expired"}, End(r, s)
        PROVE  Advances(keys, keys')
    <3>1. keys \in SUBSET KeyRow /\ {r} \in SUBSET keys /\ s \in State /\ r.state = "Active"
      BY <1>2, <2>1 DEF TypeOK, End, State
    <3>2. Advances(keys, SetState(keys, {r}, s))
      BY <3>1, EndingAdvances
    <3> QED  BY <3>2, <2>1 DEF End
  <2> QED  BY <1>2, <2>1 DEF Revoke, Expire
<1>3. TypeOK /\ [Next]_lifecycleVars => [Advances(keys, keys')]_lifecycleVars
  BY <1>1, <1>2 DEF Next
<1>4. Spec => []TypeOK
  BY LifecycleSafe, PTL
<1> QED  BY <1>3, <1>4, PTL DEF Spec, StatesAdvance
=============================================================================
