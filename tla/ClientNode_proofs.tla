------------------------- MODULE ClientNode_proofs -------------------------
(***************************************************************************)
(* Clients and server for any number of clients, requests and database     *)
(* failures, whatever is lost or late: what a client has in its cache is   *)
(* a key the server issued to it, it switches off only a key that is over, *)
(* and a key switched off never comes back.  Last, as long as answers come *)
(* in time, what it has on is its latest key.                              *)
(***************************************************************************)
EXTENDS ClientNode, SecKeyShm_proofs

\* A cache holds what was issued, under a number already given out, and a node
\* is off only for a key that is over.
CacheInv ==
  \A c \in Clients :
    /\ Cached(c).key < sn
    /\ Cached(c).client # NoClient => Issued(keys, c, Cached(c).key, Cached(c).mat)
    /\ faults = 0 /\ Cached(c).client # NoClient /\ Cached(c).status = 0
         => Over(keys, c, Cached(c).key)

\* A client at rest has no connection open; a check is asked about a node.
WaitInv ==
  \A c \in Clients :
    /\ pc[c] = "idle"  => inbox[c] = {}
    /\ pc[c] = "check" => Cached(c).client # NoClient

\* Ids are not used twice, so the request a client waits on is the one it has
\* sent for its present operation, about the key still in its cache.
WireInv ==
  \A r \in wire :
    /\ r.id <= seq
    /\ r.op = "send" => Issued(keys, r.from, r.key, r.bytes)
    /\ pc[r.from] # "idle" /\ call[r.from] = r.id
         => /\ pc[r.from] = r.op
            /\ r.op \in {"check", "logout"} => r.key = Cached(r.from).key

\* An agreement's answer brings a key just issued, newer than the cached one.
Brings(table, next, c, old, a) ==
  Issued(table, c, a.key, a.bytes) /\ old < a.key /\ a.key < next

\* The answers on which a client switches its key off.
SwitchesOff(op, code) ==
  (op = "check" /\ code # "SUCCESS") \/ (op = "logout" /\ code = "SUCCESS")

\* What an answer that is going to be acted on says is true on the server.
AnswerInv ==
  \A c \in Clients : \A a \in inbox[c] :
    /\ pc[c] = "agree" /\ a.code = "SUCCESS" => Brings(keys, sn, c, Cached(c).key, a)
    /\ SwitchesOff(pc[c], a.code) /\ faults = 0 => Over(keys, c, Cached(c).key)

IInv == TypeOK /\ CacheInv /\ WaitInv /\ WireInv /\ AnswerInv
-----------------------------------------------------------------------------
(* What a step of the server never undoes.                                 *)

Grows == keys' \in SUBSET KeyRow /\ sn' \in Nat /\ sn <= sn' /\ Advances(keys, keys')

\* The server's operators are those of the cache's module.
LEMMA ServerOperators ==
  /\ Server!KeyRow = KeyRow
  /\ \A table, c : Server!ActiveOf(table, c) = ActiveOf(table, c)
  /\ \A table, rows, s : Server!SetState(table, rows, s) = SetState(table, rows, s)
  BY DEF Server!KeyRow, KeyRow, Server!State, State, Server!ActiveOf, ActiveOf,
         Server!SetState, SetState

LEMMA TableType ==
  ASSUME TypeOK
  PROVE  keys \in SUBSET KeyRow /\ sn \in Nat
  BY ServerOperators DEF TypeOK, Server!TypeOK

LEMMA CachedType ==
  ASSUME TypeOK, NEW c \in Clients
  PROVE  local[c] \in Shm /\ Cached(c) \in Node
  BY ReadType DEF TypeOK, Shm, Cached

LEMMA IssuedStays ==
  ASSUME NEW table \in SUBSET KeyRow, NEW later, Advances(table, later),
         NEW c, NEW key, NEW bytes, Issued(table, c, key, bytes)
  PROVE  Issued(later, c, key, bytes)
<1>1. PICK k \in table : k.client = c /\ k.key = key /\ k.mat = bytes
  BY DEF Issued
<1>2. PICK l \in later : l = [k EXCEPT !.state = l.state]
  BY DEF Advances
<1>3. l.client = c /\ l.key = key /\ l.mat = bytes
  BY <1>1, <1>2 DEF KeyRow
<1> QED  BY <1>3 DEF Issued

LEMMA OverStays ==
  ASSUME NEW table \in SUBSET KeyRow, NEW later, Advances(table, later),
         NEW c, NEW key, Over(table, c, key)
  PROVE  Over(later, c, key)
<1>1. PICK k \in table : k.client = c /\ k.key = key /\ ~ActiveRow(k)
  BY DEF Over
<1>2. PICK l \in later : l = [k EXCEPT !.state = l.state] /\ (k.state # "Active" => l.state = k.state)
  BY DEF Advances
<1>3. l.client = c /\ l.key = key /\ ~ActiveRow(l)
  BY <1>1, <1>2 DEF KeyRow, ActiveRow
<1> QED  BY <1>3 DEF Over

LEMMA StayGrows ==
  ASSUME TypeOK, UNCHANGED serverVars
  PROVE  Grows
  BY TableType, AdvancesReflexive DEF Grows, serverVars

LEMMA AgreeGrows ==
  ASSUME TypeOK, NEW c \in Clients, NEW m \in Nat, Server!Agree(c, m)
  PROVE  Grows /\ Issued(keys', c, sn, m) /\ sn < sn'
<1> DEFINE old == SetState(keys, ActiveOf(keys, c), "Rotated")
           new == [client |-> c, key |-> sn, state |-> "Active", mat |-> m]
<1>1. keys \in SUBSET KeyRow /\ sn \in Nat
  BY TableType
<1>2. keys' = old \cup {new} /\ sn' = sn + 1
  BY ServerOperators DEF Server!Agree
<1>3. ActiveOf(keys, c) \in SUBSET keys /\ \A r \in ActiveOf(keys, c) : r.state = "Active"
  BY DEF ActiveOf
<1>4. old \in SUBSET KeyRow /\ Advances(keys, old)
  BY <1>1, <1>3, SetStateType, SetStateAdvances DEF State
<1>5. new \in KeyRow
  BY <1>1 DEF KeyRow, State
<1>6. Advances(old, old \cup {new})
  BY <1>4, InsertAdvances
<1>7. Advances(keys, keys') /\ keys' \in SUBSET KeyRow
  BY <1>1, <1>2, <1>4, <1>5, <1>6, AdvancesTransitive
<1>8. Issued(keys', c, sn, m)
  <2>1. new \in keys' /\ new.client = c /\ new.key = sn /\ new.mat = m
    BY <1>2
  <2> QED  BY <2>1 DEF Issued
<1> QED  BY <1>1, <1>2, <1>7, <1>8 DEF Grows

LEMMA EndGrows ==
  ASSUME TypeOK, NEW k \in keys, NEW s \in {"Revoked", "Expired"}, Server!End(k, s)
  PROVE  Grows /\ Over(keys', k.client, k.key)
<1>1. keys \in SUBSET KeyRow /\ sn \in Nat
  BY TableType
<1>2. keys' = SetState(keys, {k}, s) /\ sn' = sn /\ k.state = "Active"
  BY ServerOperators DEF Server!End
<1>3. {k} \in SUBSET keys /\ s \in State /\ \A r \in {k} : r.state = "Active"
  BY <1>2 DEF State
<1>4. keys' \in SUBSET KeyRow /\ Advances(keys, keys')
  BY <1>1, <1>2, <1>3, SetStateType, SetStateAdvances
<1>5. Over(keys', k.client, k.key)
  <2> DEFINE l == [k EXCEPT !.state = s]
  <2>1. l \in keys'
    BY <1>2 DEF SetState
  <2>2. l.client = k.client /\ l.key = k.key /\ ~ActiveRow(l)
    BY <1>1 DEF KeyRow, ActiveRow
  <2> QED  BY <2>1, <2>2 DEF Over
<1> QED  BY <1>1, <1>2, <1>4, <1>5 DEF Grows
-----------------------------------------------------------------------------
(* The steps, by kind.                                                     *)

LEMMA InitIInv == Init => IInv
<1> SUFFICES ASSUME Init PROVE IInv
  OBVIOUS
<1>1. \A c \in Clients : local[c] = EmptyShm /\ EmptyShm \in Shm
  BY EmptyShmType DEF Init
<1>2. TypeOK
  <2>1. Server!TypeOK
    BY DEF Init, Server!Init, Server!TypeOK
  <2>2. local \in [Clients -> [Slots -> Node]]
    BY <1>1 DEF Init, Shm
  <2>3. seq \in 0 .. MaxReq /\ faults \in 0 .. MaxFaults /\ call \in [Clients -> 0 .. MaxReq]
    BY RequestBound DEF Init
  <2>4. pc \in [Clients -> {"idle"} \cup Op] /\ inbox \in [Clients -> SUBSET Answer]
    BY DEF Init
  <2> QED  BY <2>1, <2>2, <2>3, <2>4 DEF Init, TypeOK
<1>3. \A c \in Clients : Cached(c) = EmptyNode
  <2> SUFFICES ASSUME NEW c \in Clients PROVE Cached(c) = EmptyNode
    OBVIOUS
  <2>1. SlotsOf(local[c], c) = {}
    BY <1>1, NoClientAssumption DEF SlotsOf, EmptyShm, EmptyNode
  <2> QED  BY <2>1 DEF Cached, shmRead
<1>4. CacheInv
  <2> SUFFICES ASSUME NEW c \in Clients
               PROVE  Cached(c).key < sn /\ Cached(c).client = NoClient
    BY DEF CacheInv
  <2> QED  BY <1>3 DEF EmptyNode, Init, Server!Init
<1>5. WaitInv /\ WireInv /\ AnswerInv
  BY DEF Init, WaitInv, WireInv, AnswerInv
<1> QED  BY <1>2, <1>4, <1>5 DEF IInv

\* A client asks.  What it names is in its cache, and a message is encrypted
\* with the bytes that belong to the number.
LEMMA AskIInv ==
  ASSUME IInv, NEW c \in Clients, NEW op \in Op, NEW to \in Clients,
         NEW key \in Nat, NEW bytes \in Nat, Ask(c, op, to, key, bytes),
         op \in {"check", "logout"} => key = Cached(c).key,
         op = "check" => Cached(c).client # NoClient,
         op = "send" => Issued(keys, c, key, bytes)
  PROVE  IInv'
<1> DEFINE new == [id |-> seq + 1, op |-> op, from |-> c, to |-> to, key |-> key, bytes |-> bytes]
<1>1. /\ seq' = seq + 1 /\ seq' \in 0 .. MaxReq /\ seq + 1 \in Nat
      /\ wire' = wire \cup {new} /\ new \in Request
      /\ pc' = [pc EXCEPT ![c] = op] /\ call' = [call EXCEPT ![c] = seq + 1]
      /\ UNCHANGED <<serverVars, local, inbox, faults, lost>>
  BY RequestBound DEF Ask, IInv, TypeOK, Request
<1>2. TypeOK'
  BY <1>1, RequestBound DEF IInv, TypeOK, Server!TypeOK, serverVars
<1>3. \A d \in Clients : Cached(d)' = Cached(d)
  BY <1>1 DEF Cached
<1>4. CacheInv'
  BY <1>1, <1>3 DEF IInv, CacheInv, serverVars
<1>5. WaitInv'
  BY <1>1, <1>3 DEF IInv, WaitInv, TypeOK, Op
<1>6. WireInv'
  <2> SUFFICES ASSUME NEW r \in wire'
               PROVE  /\ r.id <= seq'
                      /\ r.op = "send" => Issued(keys', r.from, r.key, r.bytes)
                      /\ pc'[r.from] # "idle" /\ call'[r.from] = r.id
                           => /\ pc'[r.from] = r.op
                              /\ r.op \in {"check", "logout"} => r.key = Cached(r.from)'.key
    BY DEF WireInv
  <2>1. CASE r = new
    BY <2>1, <1>1, <1>3 DEF serverVars, IInv, TypeOK
  <2>2. CASE r \in wire
    <3>1. /\ r \in Request /\ r.id \in Nat /\ r.id <= seq /\ seq \in Nat
          /\ r.op = "send" => Issued(keys, r.from, r.key, r.bytes)
      BY <2>2 DEF IInv, WireInv, TypeOK, Request
    <3>2. CASE r.from = c
      BY <3>1, <3>2, <1>1 DEF serverVars, IInv, TypeOK, Request
    <3>3. CASE r.from # c
      <4>1. pc'[r.from] = pc[r.from] /\ call'[r.from] = call[r.from] /\ r.from \in Clients
        BY <3>1, <3>3, <1>1 DEF IInv, TypeOK, Request
      <4> QED  BY <4>1, <3>1, <2>2, <1>1, <1>3 DEF IInv, WireInv, serverVars, Request
    <3> QED  BY <3>2, <3>3
  <2> QED  BY <2>1, <2>2, <1>1
<1>7. AnswerInv'
  <2> SUFFICES ASSUME NEW d \in Clients, NEW a \in inbox'[d]
               PROVE  /\ pc'[d] = "agree" /\ a.code = "SUCCESS"
                           => Brings(keys', sn', d, Cached(d)'.key, a)
                      /\ SwitchesOff(pc'[d], a.code) /\ faults' = 0 => Over(keys', d, Cached(d)'.key)
    BY DEF AnswerInv
  <2>1. d # c
    BY <1>1 DEF Ask, IInv, WaitInv
  <2> QED  BY <2>1, <1>1, <1>3 DEF IInv, AnswerInv, TypeOK, serverVars
<1> QED  BY <1>2, <1>4, <1>5, <1>6, <1>7 DEF IInv

\* When the server's tables grow and no cache changes, what was known of the
\* caches and of the requests and answers under way is still known.
LEMMA GrowsKeeps ==
  ASSUME IInv, Grows, UNCHANGED local, faults' = 0 => faults = 0
  PROVE  /\ CacheInv'
         /\ \A c \in Clients : Cached(c)' = Cached(c)
         /\ \A c, key, bytes : Issued(keys, c, key, bytes) => Issued(keys', c, key, bytes)
         /\ \A c, key : Over(keys, c, key) => Over(keys', c, key)
<1>1. \A c \in Clients : Cached(c)' = Cached(c)
  BY DEF Cached
<1>2. keys \in SUBSET KeyRow /\ sn \in Nat /\ Advances(keys, keys') /\ sn' \in Nat /\ sn <= sn'
  BY TableType DEF IInv, Grows
<1>3. \A c, key, bytes : Issued(keys, c, key, bytes) => Issued(keys', c, key, bytes)
  BY <1>2, IssuedStays
<1>4. \A c, key : Over(keys, c, key) => Over(keys', c, key)
  BY <1>2, OverStays
<1>5. CacheInv'
  <2> SUFFICES ASSUME NEW c \in Clients
               PROVE  /\ Cached(c)'.key < sn'
                      /\ Cached(c)'.client # NoClient
                           => Issued(keys', c, Cached(c)'.key, Cached(c)'.mat)
                      /\ faults' = 0 /\ Cached(c)'.client # NoClient /\ Cached(c)'.status = 0
                           => Over(keys', c, Cached(c)'.key)
    BY DEF CacheInv
  <2>1. Cached(c).key < sn /\ Cached(c).key \in Nat
    BY CachedType DEF IInv, CacheInv, Node
  <2> QED  BY <2>1, <1>1, <1>2, <1>3, <1>4 DEF IInv, CacheInv
<1> QED  BY <1>1, <1>3, <1>4, <1>5

\* The server answers a request: an agreement is answered SUCCESS only with a
\* key just issued, and an answer that switches a key off tells the truth
\* unless the database has failed.
LEMMA RespondIInv ==
  ASSUME IInv, Grows, NEW r \in wire, NEW code \in Code, NEW key \in Nat, NEW bytes \in Nat,
         Respond(r, code, key, bytes),
         faults' \in 0 .. MaxFaults, faults' = 0 => faults = 0,
         r.op = "agree" /\ code = "SUCCESS"
           => Issued(keys', r.from, key, bytes) /\ sn <= key /\ key < sn',
         (r.op = "check" /\ Cached(r.from).client # NoClient) \/ r.op = "logout"
           => (SwitchesOff(r.op, code) /\ faults' = 0 /\ r.key = Cached(r.from).key
                 => Over(keys', r.from, r.key))
  PROVE  IInv'
<1> DEFINE new == [code |-> code, key |-> key, bytes |-> bytes]
<1>1. /\ wire' = wire \ {r} /\ UNCHANGED <<local, pc, call, seq, lost>>
      /\ r.from \in Clients /\ new \in Answer
  BY DEF Respond, clientVars, IInv, TypeOK, Request, Answer
<1>2. \A c \in Clients : \/ inbox'[c] = inbox[c]
                         \/ /\ inbox'[c] = {new} /\ c = r.from
                            /\ pc[c] # "idle" /\ call[c] = r.id
  BY <1>1 DEF Respond
<1>3. /\ CacheInv'
      /\ \A c \in Clients : Cached(c)' = Cached(c)
      /\ \A c, k, b : Issued(keys, c, k, b) => Issued(keys', c, k, b)
      /\ \A c, k : Over(keys, c, k) => Over(keys', c, k)
  BY <1>1, GrowsKeeps
<1>4. TypeOK'
  <2>1. Server!TypeOK'
    BY ServerOperators DEF Server!TypeOK, Grows
  <2>2. inbox' \in [Clients -> SUBSET Answer]
    BY <1>1 DEF Respond, IInv, TypeOK
  <2> QED  BY <2>1, <2>2, <1>1 DEF IInv, TypeOK
<1>5. WaitInv'
  <2> SUFFICES ASSUME NEW c \in Clients
               PROVE  /\ pc'[c] = "idle"  => inbox'[c] = {}
                      /\ pc'[c] = "check" => Cached(c)'.client # NoClient
    BY DEF WaitInv
  <2> QED  BY <1>1, <1>2, <1>3 DEF IInv, WaitInv
<1>6. WireInv'
  <2> SUFFICES ASSUME NEW q \in wire'
               PROVE  /\ q.id <= seq'
                      /\ q.op = "send" => Issued(keys', q.from, q.key, q.bytes)
                      /\ pc'[q.from] # "idle" /\ call'[q.from] = q.id
                           => /\ pc'[q.from] = q.op
                              /\ q.op \in {"check", "logout"} => q.key = Cached(q.from)'.key
    BY DEF WireInv
  <2>1. q \in wire /\ q.from \in Clients
    BY <1>1 DEF IInv, TypeOK, Request
  <2> QED  BY <2>1, <1>1, <1>3 DEF IInv, WireInv
<1>7. AnswerInv'
  <2> SUFFICES ASSUME NEW c \in Clients, NEW a \in inbox'[c]
               PROVE  /\ pc'[c] = "agree" /\ a.code = "SUCCESS"
                           => Brings(keys', sn', c, Cached(c)'.key, a)
                      /\ SwitchesOff(pc'[c], a.code) /\ faults' = 0 => Over(keys', c, Cached(c)'.key)
    BY DEF AnswerInv
  <2>0. /\ sn \in Nat /\ sn' \in Nat /\ sn <= sn' /\ Cached(c).key \in Nat /\ Cached(c).key < sn
        /\ pc'[c] = pc[c] /\ Cached(c)'.key = Cached(c).key
    BY <1>1, <1>3, TableType, CachedType DEF IInv, CacheInv, Grows, Node
  <2>1. CASE a \in inbox[c]
    <3>1. a.key \in Nat
      BY <2>1 DEF IInv, TypeOK, Answer
    <3>2. /\ pc[c] = "agree" /\ a.code = "SUCCESS" => Brings(keys, sn, c, Cached(c).key, a)
          /\ SwitchesOff(pc[c], a.code) /\ faults = 0 => Over(keys, c, Cached(c).key)
      BY <2>1 DEF IInv, AnswerInv
    <3>3. Brings(keys, sn, c, Cached(c).key, a) => Brings(keys', sn', c, Cached(c).key, a)
      BY <3>1, <2>0, <1>3 DEF Brings
    <3> QED  BY <3>2, <3>3, <2>0, <1>3
  <2>2. CASE a \notin inbox[c]
    <3>1. a = new /\ c = r.from /\ pc[c] # "idle" /\ call[c] = r.id
      BY <2>2, <1>2
    <3>2. pc[c] = r.op /\ (r.op \in {"check", "logout"} => r.key = Cached(c).key)
      BY <3>1 DEF IInv, WireInv
    <3>3. r.op = "check" => Cached(c).client # NoClient
      BY <3>2 DEF IInv, WaitInv
    <3>4. r.op = "agree" /\ code = "SUCCESS" => Brings(keys', sn', c, Cached(c).key, a)
      BY <3>1, <2>0 DEF Brings
    <3>5. SwitchesOff(r.op, code) /\ faults' = 0 => Over(keys', c, Cached(c).key)
      BY <3>1, <3>2, <3>3 DEF SwitchesOff
    <3> QED  BY <3>1, <3>2, <3>4, <3>5, <2>0
  <2> QED  BY <2>1, <2>2
<1> QED  BY <1>3, <1>4, <1>5, <1>6, <1>7 DEF IInv

\* A client is done: its cache is as it was, or has a newer key that was issued
\* to it, or the old one switched off for a reason.
CacheStep(c) ==
  \/ local' = local
  \/ /\ local' \in [Clients -> Shm]
     /\ \A d \in Clients \ {c} : local'[d] = local[d]
     /\ \/ /\ Cached(c)'.status = 1 /\ Cached(c).key < Cached(c)'.key /\ Cached(c)'.key < sn
           /\ Issued(keys, c, Cached(c)'.key, Cached(c)'.mat)
        \/ /\ Cached(c)' = [Cached(c) EXCEPT !.status = 0]
           /\ faults = 0 => Over(keys, c, Cached(c).key)

LEMMA ReturnIInv ==
  ASSUME IInv, NEW c \in Clients, Return(c), lost' \in BOOLEAN, CacheStep(c)
  PROVE  IInv'
<1>1. /\ pc' = [pc EXCEPT ![c] = "idle"] /\ inbox' = [inbox EXCEPT ![c] = {}]
      /\ UNCHANGED <<sn, keys, call, wire, seq, faults>>
  BY DEF Return, serverVars
<1>2. \A d \in Clients \ {c} : Cached(d)' = Cached(d)
  BY DEF CacheStep, Cached
<1>3. local' \in [Clients -> [Slots -> Node]]
  BY DEF CacheStep, IInv, TypeOK, Shm
<1>4. TypeOK'
  BY <1>1, <1>3 DEF IInv, TypeOK, Server!TypeOK
<1>5. CacheInv'
  <2> SUFFICES ASSUME NEW d \in Clients
               PROVE  /\ Cached(d)'.key < sn
                      /\ Cached(d)'.client # NoClient
                           => Issued(keys, d, Cached(d)'.key, Cached(d)'.mat)
                      /\ faults = 0 /\ Cached(d)'.client # NoClient /\ Cached(d)'.status = 0
                           => Over(keys, d, Cached(d)'.key)
    BY <1>1 DEF CacheInv
  <2>0. /\ Cached(d).key < sn
        /\ Cached(d).client # NoClient => Issued(keys, d, Cached(d).key, Cached(d).mat)
        /\ faults = 0 /\ Cached(d).client # NoClient /\ Cached(d).status = 0
             => Over(keys, d, Cached(d).key)
    BY DEF IInv, CacheInv
  <2>1. CASE d # c
    BY <2>0, <2>1, <1>2
  <2>2. CASE Cached(d)' = Cached(d)
    BY <2>0, <2>2
  <2>3. CASE d = c /\ Cached(d)' # Cached(d)
    <3>1. \/ /\ Cached(c)'.status = 1 /\ Cached(c).key < Cached(c)'.key /\ Cached(c)'.key < sn
             /\ Issued(keys, c, Cached(c)'.key, Cached(c)'.mat)
          \/ /\ Cached(c)' = [Cached(c) EXCEPT !.status = 0]
             /\ faults = 0 => Over(keys, c, Cached(c).key)
      BY <2>3 DEF CacheStep, Cached
    <3>2. CASE Cached(c)' = [Cached(c) EXCEPT !.status = 0] /\ (faults = 0 => Over(keys, c, Cached(c).key))
      <4>1. Cached(c) \in Node
        BY CachedType DEF IInv
      <4>2. /\ Cached(c)'.key = Cached(c).key /\ Cached(c)'.mat = Cached(c).mat
            /\ Cached(c)'.client = Cached(c).client
        BY <4>1, <3>2 DEF Node
      <4> QED  BY <4>2, <3>2, <2>0, <2>3
    <3>3. CASE /\ Cached(c)'.status = 1 /\ Cached(c)'.key < sn
               /\ Issued(keys, c, Cached(c)'.key, Cached(c)'.mat)
      BY <3>3, <2>3
    <3> QED  BY <3>1, <3>2, <3>3
  <2> QED  BY <2>1, <2>2, <2>3
<1>6. WaitInv'
  <2> SUFFICES ASSUME NEW d \in Clients
               PROVE  /\ pc'[d] = "idle"  => inbox'[d] = {}
                      /\ pc'[d] = "check" => Cached(d)'.client # NoClient
    BY DEF WaitInv
  <2> QED  BY <1>1, <1>2 DEF IInv, WaitInv, TypeOK, Return
<1>7. WireInv'
  <2> SUFFICES ASSUME NEW q \in wire
               PROVE  pc'[q.from] # "idle" /\ call[q.from] = q.id
                        => /\ pc'[q.from] = q.op
                           /\ q.op \in {"check", "logout"} => q.key = Cached(q.from)'.key
    BY <1>1 DEF WireInv, IInv
  <2>1. q.from \in Clients
    BY DEF IInv, TypeOK, Request
  <2>2. CASE q.from = c
    BY <2>1, <2>2, <1>1 DEF IInv, TypeOK
  <2>3. CASE q.from # c
    BY <2>1, <2>3, <1>1, <1>2 DEF IInv, TypeOK, WireInv
  <2> QED  BY <2>2, <2>3
<1>8. AnswerInv'
  <2> SUFFICES ASSUME NEW d \in Clients, NEW a \in inbox'[d]
               PROVE  /\ pc'[d] = "agree" /\ a.code = "SUCCESS"
                           => Brings(keys, sn, d, Cached(d)'.key, a)
                      /\ SwitchesOff(pc'[d], a.code) /\ faults = 0 => Over(keys, d, Cached(d)'.key)
    BY <1>1 DEF AnswerInv
  <2>1. CASE d = c
    BY <2>1, <1>1 DEF IInv, TypeOK, SwitchesOff
  <2>2. CASE d # c
    <3>1. pc'[d] = pc[d] /\ inbox'[d] = inbox[d]
      BY <2>2, <1>1 DEF IInv, TypeOK
    <3> QED  BY <3>1, <2>2, <1>2 DEF IInv, AnswerInv
  <2> QED  BY <2>1, <2>2
<1> QED  BY <1>4, <1>5, <1>6, <1>7, <1>8 DEF IInv

\* Tables grow and requests get lost while no client does anything.
LEMMA EnvIInv ==
  ASSUME IInv, Grows, wire' \subseteq wire, UNCHANGED <<clientVars, inbox, seq, faults, lost>>
  PROVE  IInv'
<1>1. UNCHANGED <<local, pc, call, inbox, seq, faults, lost>>
  BY DEF clientVars
<1>2. /\ CacheInv'
      /\ \A c \in Clients : Cached(c)' = Cached(c)
      /\ \A c, k, b : Issued(keys, c, k, b) => Issued(keys', c, k, b)
      /\ \A c, k : Over(keys, c, k) => Over(keys', c, k)
  BY <1>1, GrowsKeeps
<1>3. TypeOK'
  <2>1. Server!TypeOK'
    BY ServerOperators DEF Server!TypeOK, Grows
  <2> QED  BY <2>1, <1>1 DEF IInv, TypeOK
<1>4. WaitInv'
  BY <1>1, <1>2 DEF IInv, WaitInv
<1>5. WireInv'
  <2> SUFFICES ASSUME NEW q \in wire
               PROVE  /\ q.id <= seq
                      /\ q.op = "send" => Issued(keys', q.from, q.key, q.bytes)
                      /\ pc[q.from] # "idle" /\ call[q.from] = q.id
                           => /\ pc[q.from] = q.op
                              /\ q.op \in {"check", "logout"} => q.key = Cached(q.from)'.key
    BY <1>1 DEF WireInv
  <2>1. q.from \in Clients
    BY DEF IInv, TypeOK, Request
  <2> QED  BY <2>1, <1>2 DEF IInv, WireInv
<1>6. AnswerInv'
  <2> SUFFICES ASSUME NEW c \in Clients, NEW a \in inbox[c]
               PROVE  /\ pc[c] = "agree" /\ a.code = "SUCCESS"
                           => Brings(keys', sn', c, Cached(c)'.key, a)
                      /\ SwitchesOff(pc[c], a.code) /\ faults = 0 => Over(keys', c, Cached(c)'.key)
    BY <1>1 DEF AnswerInv
  <2>1. sn \in Nat /\ sn' \in Nat /\ sn <= sn' /\ a.key \in Nat
    BY TableType DEF IInv, TypeOK, Grows, Answer
  <2>2. /\ pc[c] = "agree" /\ a.code = "SUCCESS" => Brings(keys, sn, c, Cached(c).key, a)
        /\ SwitchesOff(pc[c], a.code) /\ faults = 0 => Over(keys, c, Cached(c).key)
    BY DEF IInv, AnswerInv
  <2>3. Brings(keys, sn, c, Cached(c).key, a) => Brings(keys', sn', c, Cached(c).key, a)
    BY <2>1, <1>2 DEF Brings
  <2> QED  BY <2>2, <2>3, <1>2
<1> QED  BY <1>2, <1>3, <1>4, <1>5, <1>6 DEF IInv

\* Switching off, when there is a reason to.
LEMMA SwitchStep ==
  ASSUME IInv, NEW c \in Clients, Switch(c, 0), faults = 0 => Over(keys, c, Cached(c).key)
  PROVE  CacheStep(c)
<1> DEFINE new == shmUpdateStatus(local[c], c, 0)
<1>1. local \in [Clients -> Shm] /\ local' = [local EXCEPT ![c] = new]
  BY DEF IInv, TypeOK, Shm, Switch
<1>2. local[c] \in Shm /\ new \in Shm
  BY <1>1, UpdateStatusType
<1>3. local' \in [Clients -> Shm] /\ local'[c] = new /\ \A d \in Clients \ {c} : local'[d] = local[d]
  BY <1>1, <1>2
<1>4. CASE new = local[c]
  BY <1>1, <1>4 DEF CacheStep
<1>5. CASE shmRead(new, c) = [shmRead(local[c], c) EXCEPT !.status = 0]
  <2>1. Cached(c)' = [Cached(c) EXCEPT !.status = 0]
    BY <1>3, <1>5 DEF Cached
  <2> QED  BY <2>1, <1>3 DEF CacheStep
<1> QED  BY <1>2, <1>4, <1>5, ReadAfterUpdate

\* Writing the key an agreement's answer brings.
LEMMA WriteStep ==
  ASSUME IInv, NEW c \in Clients, NEW a \in inbox[c], AgreementAnswered(c, a)
  PROVE  CacheStep(c)
<1> DEFINE node == [client |-> c, key |-> a.key, mat |-> a.bytes, status |-> 1]
           new  == shmWrite(local[c], node)
<1>1. CASE a.code # "SUCCESS"
  BY <1>1 DEF AgreementAnswered, CacheStep
<1>2. CASE a.code = "SUCCESS"
  <2>1. local \in [Clients -> Shm] /\ local' = [local EXCEPT ![c] = new]
    BY <1>2 DEF IInv, TypeOK, Shm, AgreementAnswered
  <2>2. a.key \in Nat /\ a.bytes \in Nat
    BY DEF IInv, TypeOK, Answer
  <2>3. node \in Node /\ local[c] \in Shm /\ new \in Shm
    BY <2>1, <2>2, WriteType DEF Node
  <2>4. local' \in [Clients -> Shm] /\ local'[c] = new /\ \A d \in Clients \ {c} : local'[d] = local[d]
    BY <2>1, <2>3
  <2>5. Brings(keys, sn, c, Cached(c).key, a)
    BY <1>2 DEF IInv, AnswerInv, AgreementAnswered
  <2>6. CASE new = local[c]
    BY <2>1, <2>6 DEF CacheStep
  <2>7. CASE shmRead(new, c) = node
    <3>1. Cached(c)' = node
      BY <2>4, <2>7 DEF Cached
    <3> QED  BY <3>1, <2>4, <2>5 DEF CacheStep, Brings
  <2>8. shmRead(new, node.client) = node \/ new = local[c]
    BY <2>3, ReadAfterWrite
  <2> QED  BY <2>6, <2>7, <2>8
<1> QED  BY <1>1, <1>2

\* Every answer a client acts on is such a step.
LEMMA AnswerStep ==
  ASSUME IInv, NEW c \in Clients, NEW a \in inbox[c],
         \/ AgreementAnswered(c, a) \/ VerificationAnswered(c, a)
         \/ LogoutAnswered(c, a) \/ SendAnswered(c, a)
  PROVE  CacheStep(c) /\ Return(c) /\ lost' = lost
<1>0. SwitchesOff(pc[c], a.code) => (faults = 0 => Over(keys, c, Cached(c).key))
  BY DEF IInv, AnswerInv
<1>1. CASE AgreementAnswered(c, a)
  BY <1>1, WriteStep DEF AgreementAnswered
<1>2. CASE VerificationAnswered(c, a)
  BY <1>0, <1>2, SwitchStep DEF VerificationAnswered, SwitchesOff, CacheStep
<1>3. CASE LogoutAnswered(c, a)
  BY <1>0, <1>3, SwitchStep DEF LogoutAnswered, SwitchesOff, CacheStep
<1>4. CASE SendAnswered(c, a)
  BY <1>4 DEF SendAnswered, CacheStep
<1> QED  BY <1>1, <1>2, <1>3, <1>4
-----------------------------------------------------------------------------
(* The actions.                                                            *)

LEMMA ClientIInv ==
  ASSUME IInv, NEW c \in Clients, Client(c)
  PROVE  IInv'
<1>0. Cached(c) \in Node /\ Cached(c).key \in Nat /\ Cached(c).mat \in Nat
  BY CachedType DEF IInv, Node
<1>1. CASE keyAgreement(c)
  BY <1>1, AskIInv DEF keyAgreement, Op
<1>2. CASE keyVerification(c)
  BY <1>0, <1>2, AskIInv DEF keyVerification, Op
<1>3. CASE keyLogout(c)
  BY <1>0, <1>3, AskIInv DEF keyLogout, Op
<1>4. ASSUME NEW to \in Clients, sendTextMessage(c, to)
      PROVE  IInv'
  <2>1. Issued(keys, c, Cached(c).key, Cached(c).mat)
    BY <1>4 DEF sendTextMessage, getActiveKey, IInv, CacheInv
  <2> QED  BY <1>0, <1>4, <2>1, AskIInv DEF sendTextMessage, Op
<1>5. ASSUME NEW a \in inbox[c],
             \/ AgreementAnswered(c, a) \/ VerificationAnswered(c, a)
             \/ LogoutAnswered(c, a) \/ SendAnswered(c, a)
      PROVE  IInv'
  <2>1. CacheStep(c) /\ Return(c) /\ lost' = lost
    BY <1>5, AnswerStep
  <2>2. lost \in BOOLEAN
    BY DEF IInv, TypeOK
  <2> QED  BY <2>1, <2>2, ReturnIInv
<1>6. CASE GiveUp(c)
  BY <1>6, ReturnIInv DEF GiveUp, CacheStep
<1> QED  BY <1>1, <1>2, <1>3, <1>4, <1>5, <1>6 DEF Client

LEMMA FaultCount ==
  ASSUME TypeOK, DatabaseFails \/ DatabaseWorks
  PROVE  faults' \in 0 .. MaxFaults /\ (faults' = 0 => faults = 0) /\ (DatabaseFails => faults' # 0)
  BY RequestBound DEF TypeOK, DatabaseFails, DatabaseWorks

LEMMA HandleIInv ==
  ASSUME IInv, NEW r \in wire, Handle(r)
  PROVE  IInv'
<1>0. /\ r.from \in Clients /\ r.id \in Nat /\ r.key \in Nat /\ sn \in Nat
      /\ TypeOK
      /\ {"SUCCESS", "KEY_AGREE_FAILED", "KEY_INVALID", "KEY_LOGOUT_FAILED", "FAILED"} = Code
  BY TableType DEF IInv, TypeOK, Request, Code
<1>1. CASE HandleAgree(r)
  <2>1. r.op = "agree" /\ ~SwitchesOff(r.op, "SUCCESS") /\ ~SwitchesOff(r.op, "KEY_AGREE_FAILED")
    BY <1>1 DEF HandleAgree, SwitchesOff
  <2>2. CASE Server!Agree(r.from, r.id) /\ DatabaseWorks /\ Respond(r, "SUCCESS", sn, r.id)
    <3>1. Grows /\ Issued(keys', r.from, sn, r.id) /\ sn < sn'
      BY <1>0, <2>2, AgreeGrows
    <3> QED  BY <1>0, <2>1, <2>2, <3>1, FaultCount, RespondIInv
  <2>3. CASE /\ Server!Agree(r.from, r.id) \/ UNCHANGED serverVars
             /\ DatabaseFails /\ Respond(r, "KEY_AGREE_FAILED", 0, 0)
    <3>1. Grows
      BY <1>0, <2>3, AgreeGrows, StayGrows
    <3> QED  BY <1>0, <2>1, <2>3, <3>1, FaultCount, RespondIInv
  <2> QED  BY <1>1, <2>2, <2>3 DEF HandleAgree
<1>2. CASE HandleCheck(r)
  <2>1. r.op = "check" /\ Grows /\ UNCHANGED serverVars
    BY <1>0, <1>2, StayGrows DEF HandleCheck
  <2> DEFINE code == IF RowsOf(r) # {} THEN "SUCCESS" ELSE "KEY_INVALID"
  <2>2. CASE DatabaseWorks /\ Respond(r, code, r.key, 0)
    <3>1. ASSUME Cached(r.from).client # NoClient, r.key = Cached(r.from).key, code # "SUCCESS"
          PROVE  Over(keys', r.from, r.key)
      <4>1. PICK k \in keys : k.client = r.from /\ k.key = r.key
        BY <1>0, <3>1 DEF IInv, CacheInv, Issued
      <4>2. ~ActiveRow(k)
        BY <3>1, <4>1 DEF RowsOf
      <4> QED  BY <4>1, <4>2, <2>1 DEF Over, serverVars
    <3>2. SwitchesOff(r.op, code) => code # "SUCCESS"
      BY <2>1 DEF SwitchesOff
    <3>3. code \in Code /\ 0 \in Nat
      BY DEF Code
    <3> HIDE DEF code
    <3> QED  BY <1>0, <2>1, <2>2, <3>1, <3>2, <3>3, FaultCount, RespondIInv
  <2>3. CASE DatabaseFails /\ Respond(r, "KEY_INVALID", r.key, 0)
    BY <1>0, <2>1, <2>3, FaultCount, RespondIInv
  <2> QED  BY <1>2, <2>2, <2>3 DEF HandleCheck
<1>3. CASE HandleLogout(r)
  <2>1. r.op = "logout" /\ ~SwitchesOff(r.op, "KEY_LOGOUT_FAILED")
    BY <1>3 DEF HandleLogout, SwitchesOff
  <2>2. ASSUME NEW k \in RowsOf(r), Server!Revoke(k)
        PROVE  Grows /\ Over(keys', r.from, r.key)
    <3>1. k \in keys /\ k.client = r.from /\ k.key = r.key
      BY DEF RowsOf
    <3>2. Server!End(k, "Revoked")
      BY <2>2 DEF Server!Revoke
    <3> QED  BY <1>0, <3>1, <3>2, EndGrows
  <2>3. CASE /\ \E k \in RowsOf(r) : Server!Revoke(k)
             /\ \/ DatabaseWorks /\ Respond(r, "SUCCESS", r.key, 0)
                \/ DatabaseFails /\ Respond(r, "KEY_LOGOUT_FAILED", r.key, 0)
    <3>1. Grows /\ Over(keys', r.from, r.key)
      BY <2>2, <2>3
    <3>2. CASE DatabaseWorks /\ Respond(r, "SUCCESS", r.key, 0)
      BY <1>0, <2>1, <3>1, <3>2, FaultCount, RespondIInv
    <3>3. CASE DatabaseFails /\ Respond(r, "KEY_LOGOUT_FAILED", r.key, 0)
      BY <1>0, <2>1, <3>1, <3>3, FaultCount, RespondIInv
    <3> QED  BY <2>3, <3>2, <3>3
  <2>4. CASE /\ UNCHANGED serverVars /\ (DatabaseWorks \/ DatabaseFails)
             /\ Respond(r, "KEY_LOGOUT_FAILED", r.key, 0)
    <3>1. Grows
      BY <1>0, <2>4, StayGrows
    <3> QED  BY <1>0, <2>1, <2>4, <3>1, FaultCount, RespondIInv
  <2> QED  BY <1>3, <2>3, <2>4 DEF HandleLogout
<1>4. CASE HandleSend(r)
  <2>1. r.op = "send" /\ Grows /\ DatabaseWorks /\ \A code : ~SwitchesOff(r.op, code)
    BY <1>0, <1>4, StayGrows DEF HandleSend, DatabaseWorks, SwitchesOff
  <2>2. CASE Respond(r, "SUCCESS", r.key, 0)
    BY <1>0, <2>1, <2>2, FaultCount, RespondIInv
  <2>3. CASE Respond(r, "FAILED", r.key, 0)
    BY <1>0, <2>1, <2>3, FaultCount, RespondIInv
  <2> QED  BY <1>4, <2>2, <2>3 DEF HandleSend
<1> QED  BY <1>1, <1>2, <1>3, <1>4 DEF Handle

LEMMA LoseIInv ==
  ASSUME IInv, NEW r \in wire, Lose(r)
  PROVE  IInv'
<1>1. Grows
  BY StayGrows DEF Lose, IInv
<1> QED  BY <1>1, EnvIInv DEF Lose

LEMMA ExpireIInv ==
  ASSUME IInv, Expire
  PROVE  IInv'
<1>1. PICK k \in keys : Server!End(k, "Expired")
  BY DEF Expire, Server!Expire
<1>2. Grows
  BY <1>1, EndGrows DEF IInv
<1> QED  BY <1>2, EnvIInv DEF Expire

LEMMA StutterIInv ==
  ASSUME IInv, UNCHANGED vars
  PROVE  IInv'
<1>1. Grows
  BY StayGrows DEF vars, IInv
<1> QED  BY <1>1, EnvIInv DEF vars

LEMMA NextIInv == IInv /\ [Next]_vars => IInv'
<1> SUFFICES ASSUME IInv, [Next]_vars PROVE IInv'
  OBVIOUS
<1>1. CASE \E c \in Clients : Client(c)
  BY <1>1, ClientIInv
<1>2. CASE \E r \in wire : Handle(r) \/ Lose(r)
  BY <1>2, HandleIInv, LoseIInv
<1>3. CASE Expire
  BY <1>3, ExpireIInv
<1>4. CASE Done \/ UNCHANGED vars
  BY <1>4, StutterIInv DEF Done
<1> QED  BY <1>1, <1>2, <1>3, <1>4 DEF Next

LEMMA Invariance == Spec => []IInv
<1>1. Init => IInv
  BY InitIInv
<1>2. IInv /\ [Next]_vars => IInv'
  BY NextIInv
<1> QED  BY <1>1, <1>2, PTL DEF Spec
-----------------------------------------------------------------------------
(* The theorems.                                                           *)

\* Clients, requests and answers are well typed (ClientOP.cpp and the server's
\* key table), for any number of clients and requests.
THEOREM ClientTypes == Spec => []TypeOK
<1>1. IInv => TypeOK
  BY DEF IInv
<1> QED  BY <1>1, Invariance, PTL

\* Number and bytes in a client's cache, and behind every message on its way,
\* are of one key the server issued to that client (ClientOP.cpp, keyAgreement).
THEOREM ClientKeyIssued == Spec => []LocalKeyIssued
<1>1. IInv => LocalKeyIssued
  BY DEF IInv, CacheInv, WireInv, LocalKeyIssued
<1> QED  BY <1>1, Invariance, PTL

\* While the database works, a client switches off only a key that is over
\* (ClientOP.cpp, keyVerification and keyLogout).
THEOREM ClientOffMeansFinal == Spec => []OffMeansFinal
<1>1. IInv => OffMeansFinal
  BY DEF IInv, CacheInv, OffMeansFinal
<1> QED  BY <1>1, Invariance, PTL

\* A key switched off stays off until an agreement brings a newer number
\* (KeyLifecycle.h, the comment on final states).
THEOREM ClientOffStaysOff == Spec => OffStaysOff
<1>1. IInv /\ [Next]_vars =>
        [\A c \in Clients :
           Cached(c).client # NoClient /\ Cached(c).status = 0
             => \/ Cached(c)' = Cached(c)
                \/ Cached(c)'.key > Cached(c).key]_vars
  <2> SUFFICES ASSUME IInv, Next, NEW c \in Clients,
                      Cached(c).client # NoClient, Cached(c).status = 0
               PROVE  Cached(c)' = Cached(c) \/ Cached(c)'.key > Cached(c).key
    OBVIOUS
  <2>1. CASE local' = local
    BY <2>1 DEF Cached
  <2>2. CASE local' # local
    <3>1. PICK d \in Clients : \E a \in inbox[d] :
            \/ AgreementAnswered(d, a) \/ VerificationAnswered(d, a)
            \/ LogoutAnswered(d, a) \/ SendAnswered(d, a)
      BY <2>2 DEF Next, Client, keyAgreement, keyVerification, keyLogout, sendTextMessage, Ask,
                  GiveUp, Handle, HandleAgree, HandleCheck, HandleLogout, HandleSend, Respond,
                  Lose, Expire, Done, clientVars, vars
    <3>2. CacheStep(d)
      BY <3>1, AnswerStep
    <3>3. CASE d # c
      BY <2>2, <3>2, <3>3 DEF CacheStep, Cached
    <3>4. CASE d = c /\ Cached(c)' = [Cached(c) EXCEPT !.status = 0]
      <4>1. Cached(c) \in Node
        BY CachedType DEF IInv
      <4> QED  BY <4>1, <3>4 DEF Node
    <3>5. CASE d = c /\ Cached(c).key < Cached(c)'.key
      <4>1. Cached(c) \in Node /\ Cached(c)' \in Node
        BY <2>2, <3>2, <3>5, CachedType, ReadType DEF IInv, CacheStep, Cached
      <4> QED  BY <4>1, <3>5 DEF Node
    <3> QED  BY <2>2, <3>2, <3>3, <3>4, <3>5 DEF CacheStep
  <2> QED  BY <2>1, <2>2
<1> QED  BY <1>1, Invariance, PTL DEF Spec, OffStaysOff
-----------------------------------------------------------------------------
(* What a client uses, as long as nobody gives up and the database works.  *)

Usable(table, c, key) ==
  \E k \in table : /\ k.client = c /\ k.key = key
                   /\ k.state \in {"Active", "Expired"}
                   /\ \A l \in table : l.client = c => l.key <= k.key

\* No key has a number that is not given out yet.
Numbered == \A k \in keys : k.key < sn

\* A request under way is the only one of its client, who waits for it and has
\* no answer yet.
Prompt ==
  /\ \A r \in wire : pc[r.from] # "idle" /\ call[r.from] = r.id /\ inbox[r.from] = {}
  /\ \A r, q \in wire : r.from = q.from => r = q
  /\ \A c \in Clients : \A a, b \in inbox[c] : a = b

\* The answers that end the use of the cached key.
Replaces(op, code) == SwitchesOff(op, code) \/ (op = "agree" /\ code = "SUCCESS")

\* A key that is on is usable until the answer is there that replaces it, and so
\* is the key such an answer brings.
Kept ==
  \A c \in Clients :
    /\ Cached(c).status = 1 =>
         \/ Usable(keys, c, Cached(c).key)
         \/ \E a \in inbox[c] : Replaces(pc[c], a.code)
    /\ \A a \in inbox[c] : pc[c] = "agree" /\ a.code = "SUCCESS" => Usable(keys, c, a.key)

UInv == Numbered /\ (~lost /\ faults = 0 => Prompt /\ Kept)

\* An agreement rotates no other client's key, ...
LEMMA AgreeKeepsUsable ==
  ASSUME TypeOK, Numbered, NEW d \in Clients, NEW m \in Nat, Server!Agree(d, m)
  PROVE  /\ Usable(keys', d, sn) /\ Numbered'
         /\ \A c \in Clients \ {d} : \A key : Usable(keys, c, key) => Usable(keys', c, key)
<1> DEFINE new == [client |-> d, key |-> sn, state |-> "Active", mat |-> m]
           old == SetState(keys, ActiveOf(keys, d), "Rotated")
<1>1. /\ keys' = old \cup {new} /\ sn' = sn + 1
      /\ keys \in SUBSET KeyRow /\ sn \in Nat
  BY TableType, ServerOperators DEF Server!Agree
<1>2. ASSUME NEW r \in old
      PROVE  \E q \in keys : q.client = r.client /\ q.key = r.key
  <2>1. \/ r \in keys
        \/ \E q \in ActiveOf(keys, d) : r = [q EXCEPT !.state = "Rotated"]
    BY SetStateRows
  <2> QED  BY <1>1, <2>1 DEF ActiveOf, KeyRow
<1>3. \A r \in old : r.key < sn /\ r.key \in Nat
  BY <1>1, <1>2 DEF Numbered, KeyRow
<1>4. Numbered'
  BY <1>1, <1>3 DEF Numbered
<1>5. Usable(keys', d, sn)
  <2>1. new \in keys' /\ new.client = d /\ new.key = sn /\ new.state = "Active"
    BY <1>1
  <2>2. \A l \in keys' : l.key <= sn
    BY <1>1, <1>3
  <2> QED  BY <2>1, <2>2 DEF Usable
<1>6. \A r \in keys : r.client # d => r \in keys'
  BY <1>1 DEF SetState, ActiveOf
<1>7. ASSUME NEW c \in Clients \ {d}, NEW key, Usable(keys, c, key)
      PROVE  Usable(keys', c, key)
  <2>1. PICK k \in keys : /\ k.client = c /\ k.key = key /\ k.state \in {"Active", "Expired"}
                          /\ \A l \in keys : l.client = c => l.key <= k.key
    BY <1>7 DEF Usable
  <2>2. \A l \in keys' : l.client = c => l.key <= k.key
    BY <1>1, <1>2, <2>1
  <2> QED  BY <1>6, <2>1, <2>2 DEF Usable
<1> QED  BY <1>4, <1>5, <1>7

\* ... a revocation ends no other client's, and a key that expires stays usable.
LEMMA EndKeepsUsable ==
  ASSUME TypeOK, Numbered, NEW k \in keys, NEW s \in State, Server!End(k, s)
  PROVE  /\ Numbered'
         /\ \A c, key : Usable(keys, c, key) /\ (s = "Expired" \/ k.client # c)
                          => Usable(keys', c, key)
<1> DEFINE over == [k EXCEPT !.state = s]
<1>1. keys \in SUBSET KeyRow /\ keys' = (keys \ {k}) \cup {over} /\ sn' = sn
  BY TableType, ServerOperators DEF Server!End, SetState
<1>2. over.client = k.client /\ over.key = k.key /\ over.state = s
  BY <1>1 DEF KeyRow
<1>3. Numbered'
  BY <1>1, <1>2 DEF Numbered
<1>4. ASSUME NEW c, NEW key, Usable(keys, c, key), s = "Expired" \/ k.client # c
      PROVE  Usable(keys', c, key)
  <2>1. PICK r \in keys : /\ r.client = c /\ r.key = key /\ r.state \in {"Active", "Expired"}
                          /\ \A l \in keys : l.client = c => l.key <= r.key
    BY <1>4 DEF Usable
  <2>2. \A l \in keys' : l.client = c => l.key <= r.key
    BY <1>1, <1>2, <2>1
  <2>3. CASE r # k
    BY <1>1, <2>1, <2>2, <2>3 DEF Usable
  <2>4. CASE r = k
    <3>1. over \in keys' /\ over.client = c /\ over.key = key /\ over.state = "Expired"
      BY <1>1, <1>2, <1>4, <2>1, <2>4
    <3> QED  BY <1>2, <2>2, <2>4, <3>1 DEF Usable
  <2> QED  BY <2>3, <2>4
<1> QED  BY <1>3, <1>4

LEMMA AskUInv ==
  ASSUME IInv, Prompt, Kept, NEW c \in Clients, NEW op \in Op, NEW to, NEW key, NEW bytes,
         Ask(c, op, to, key, bytes)
  PROVE  (Prompt /\ Kept)'
<1> DEFINE new == [id |-> seq + 1, op |-> op, from |-> c, to |-> to, key |-> key, bytes |-> bytes]
<1>1. /\ pc[c] = "idle" /\ wire' = wire \cup {new} /\ inbox[c] = {} /\ op # "idle"
      /\ pc' = [pc EXCEPT ![c] = op] /\ call' = [call EXCEPT ![c] = seq + 1]
      /\ UNCHANGED <<keys, local, inbox>>
  BY DEF Ask, serverVars, IInv, WaitInv, Op
<1>2. \A r \in wire : r.from \in Clients /\ r.from # c
  BY <1>1 DEF Prompt, IInv, TypeOK, Request
<1>3. \A d \in Clients \ {c} : pc'[d] = pc[d] /\ call'[d] = call[d]
  BY <1>1 DEF IInv, TypeOK
<1>4. pc'[c] = op /\ call'[c] = seq + 1
  BY <1>1 DEF IInv, TypeOK
<1>5. Prompt'
  <2>1. \A r \in wire' : pc'[r.from] # "idle" /\ call'[r.from] = r.id /\ inbox'[r.from] = {}
    BY <1>1, <1>2, <1>3, <1>4 DEF Prompt
  <2>2. \A r, q \in wire' : r.from = q.from => r = q
    BY <1>1, <1>2 DEF Prompt
  <2> QED  BY <1>1, <2>1, <2>2 DEF Prompt
<1>6. Kept'
  BY <1>1, <1>3 DEF Kept, Cached
<1> QED  BY <1>5, <1>6

\* The server answers: what it does to keys, it tells the client.
LEMMA RespondUInv ==
  ASSUME IInv, Prompt, Kept, NEW r \in wire, NEW code, NEW key, NEW bytes,
         Respond(r, code, key, bytes),
         \A c \in Clients : \A k :
           Usable(keys, c, k) => Usable(keys', c, k) \/ (c = r.from /\ Replaces(r.op, code)),
         r.op = "agree" /\ code = "SUCCESS" => Usable(keys', r.from, key)
  PROVE  (Prompt /\ Kept)'
<1> DEFINE new == [code |-> code, key |-> key, bytes |-> bytes]
<1>1. /\ r.from \in Clients /\ pc[r.from] # "idle" /\ call[r.from] = r.id /\ inbox[r.from] = {}
      /\ pc[r.from] = r.op
  BY DEF Prompt, IInv, WireInv, TypeOK, Request
<1>2. /\ wire' = wire \ {r} /\ UNCHANGED <<local, pc, call>>
      /\ inbox' = [inbox EXCEPT ![r.from] = {new}]
  BY <1>1 DEF Respond, clientVars
<1>3. inbox'[r.from] = {new} /\ \A c \in Clients \ {r.from} : inbox'[c] = inbox[c]
  BY <1>1, <1>2 DEF IInv, TypeOK
<1>4. \A q \in wire' : q \in wire /\ q.from \in Clients /\ q.from # r.from
  BY <1>2 DEF Prompt, IInv, TypeOK, Request
<1>5. Prompt'
  BY <1>2, <1>3, <1>4 DEF Prompt
<1>6. ASSUME NEW c \in Clients
      PROVE  /\ Cached(c)'.status = 1 =>
                  \/ Usable(keys', c, Cached(c)'.key)
                  \/ \E a \in inbox'[c] : Replaces(pc'[c], a.code)
             /\ \A a \in inbox'[c] : pc'[c] = "agree" /\ a.code = "SUCCESS" => Usable(keys', c, a.key)
  <2>1. Cached(c)' = Cached(c) /\ pc'[c] = pc[c]
    BY <1>2 DEF Cached
  <2>2. CASE c # r.from
    <3>1. inbox'[c] = inbox[c] /\ \A k : Usable(keys, c, k) => Usable(keys', c, k)
      BY <1>3, <2>2
    <3> QED  BY <2>1, <3>1 DEF Kept
  <2>3. CASE c = r.from
    <3>1. new.code = code /\ new.key = key /\ new \in inbox'[c] /\ inbox[c] = {}
      BY <1>1, <1>3, <2>3
    <3>2. Cached(c).status = 1 => Usable(keys, c, Cached(c).key)
      BY <3>1 DEF Kept
    <3>3. Cached(c)'.status = 1 =>
             \/ Usable(keys', c, Cached(c)'.key)
             \/ \E a \in inbox'[c] : Replaces(pc'[c], a.code)
      BY <1>1, <2>1, <2>3, <3>1, <3>2
    <3>4. \A a \in inbox'[c] : pc'[c] = "agree" /\ a.code = "SUCCESS" => Usable(keys', c, a.key)
      BY <1>1, <1>3, <2>1, <2>3, <3>1
    <3> QED  BY <3>3, <3>4
  <2> QED  BY <2>2, <2>3
<1> QED  BY <1>5, <1>6 DEF Kept

\* An answer that does not replace the key leaves it usable; one that does
\* brings a usable one, or switches it off.
LEMMA AnswerKeepsUsable ==
  ASSUME IInv, Prompt, Kept, NEW c \in Clients, NEW a \in inbox[c],
         \/ AgreementAnswered(c, a) \/ VerificationAnswered(c, a)
         \/ LogoutAnswered(c, a) \/ SendAnswered(c, a)
  PROVE  Cached(c)'.status = 1 => Usable(keys, c, Cached(c)'.key)
<1> DEFINE node == [client |-> c, key |-> a.key, mat |-> a.bytes, status |-> 1]
<1>1. local \in [Clients -> Shm] /\ local[c] \in Shm /\ a.key \in Nat /\ a.bytes \in Nat
  BY DEF IInv, TypeOK, Shm, Answer
<1>2. CASE ~Replaces(pc[c], a.code) /\ local' = local
  <2>1. Cached(c).status = 1 => Usable(keys, c, Cached(c).key)
    BY <1>2 DEF Kept, Prompt
  <2> QED  BY <1>2, <2>1 DEF Cached
<1>3. CASE Switch(c, 0)
  <2>1. Cached(c)' = shmRead(shmUpdateStatus(local[c], c, 0), c)
    BY <1>1, <1>3 DEF Switch, Cached
  <2> QED  BY <1>1, <2>1, SwitchedOff
<1>4. CASE pc[c] = "agree" /\ a.code = "SUCCESS" /\ local' = [local EXCEPT ![c] = shmWrite(@, node)]
  <2>1. Cached(c)' = shmRead(shmWrite(local[c], node), node.client)
    BY <1>1, <1>4 DEF Cached
  <2>2. node \in Node
    BY <1>1 DEF Node
  <2>3. Cached(c)' = node \/ Cached(c)'.status = 0
    BY <1>1, <2>1, <2>2, WrittenOrOff
  <2>4. Usable(keys, c, node.key)
    BY <1>4 DEF Kept
  <2> QED  BY <2>3, <2>4
<1>5. CASE AgreementAnswered(c, a)
  BY <1>2, <1>4, <1>5 DEF AgreementAnswered, Replaces, SwitchesOff
<1>6. CASE VerificationAnswered(c, a)
  BY <1>2, <1>3, <1>6 DEF VerificationAnswered, Replaces, SwitchesOff
<1>7. CASE LogoutAnswered(c, a)
  BY <1>2, <1>3, <1>7 DEF LogoutAnswered, Replaces, SwitchesOff
<1>8. CASE SendAnswered(c, a)
  BY <1>2, <1>8 DEF SendAnswered, Replaces, SwitchesOff
<1> QED  BY <1>5, <1>6, <1>7, <1>8

LEMMA AnsweredUInv ==
  ASSUME IInv, Prompt, Kept, NEW c \in Clients, NEW a \in inbox[c],
         \/ AgreementAnswered(c, a) \/ VerificationAnswered(c, a)
         \/ LogoutAnswered(c, a) \/ SendAnswered(c, a)
  PROVE  (Prompt /\ Kept)'
<1>1. CacheStep(c) /\ Return(c)
  BY AnswerStep
<1>2. /\ UNCHANGED <<keys, call, wire>>
      /\ pc' = [pc EXCEPT ![c] = "idle"] /\ inbox' = [inbox EXCEPT ![c] = {}]
  BY <1>1 DEF Return, serverVars
<1>3. /\ inbox'[c] = {}
      /\ \A d \in Clients \ {c} : pc'[d] = pc[d] /\ inbox'[d] = inbox[d] /\ Cached(d)' = Cached(d)
  BY <1>1, <1>2 DEF IInv, TypeOK, CacheStep, Cached
<1>4. \A r \in wire : r.from \in Clients \ {c}
  BY DEF Prompt, IInv, TypeOK, Request
<1>5. Prompt'
  BY <1>2, <1>3, <1>4 DEF Prompt
<1>6. Kept'
  BY <1>2, <1>3, AnswerKeepsUsable DEF Kept
<1> QED  BY <1>5, <1>6

\* Numbers stay below the next one, whoever takes the step.
LEMMA NumberedStays == ASSUME IInv, Numbered, Next PROVE Numbered'
<1>1. TypeOK
  BY DEF IInv
<1>2. ASSUME NEW r \in wire, Handle(r), ~UNCHANGED serverVars PROVE Numbered'
  <2>1. r.from \in Clients /\ r.id \in Nat
    BY DEF IInv, TypeOK, Request
  <2>2. \/ Server!Agree(r.from, r.id)
        \/ \E k \in keys : Server!End(k, "Revoked")
    BY <1>2 DEF Handle, HandleAgree, HandleCheck, HandleLogout, HandleSend, RowsOf, Server!Revoke
  <2> QED  BY <1>1, <2>1, <2>2, AgreeKeepsUsable, EndKeepsUsable DEF State
<1>3. CASE Expire
  BY <1>1, <1>3, EndKeepsUsable DEF Expire, Server!Expire, State
<1>4. CASE UNCHANGED serverVars
  BY <1>4 DEF Numbered, serverVars
<1>5. ASSUME NEW c \in Clients, Client(c) PROVE UNCHANGED serverVars
  BY <1>5, AnswerStep DEF Client, keyAgreement, keyVerification, keyLogout, sendTextMessage, Ask,
                          GiveUp, Return
<1>6. ASSUME NEW r \in wire, Lose(r) PROVE UNCHANGED serverVars
  BY <1>6 DEF Lose
<1>7. Done => UNCHANGED serverVars
  BY DEF Done, vars
<1> QED  BY <1>2, <1>3, <1>4, <1>5, <1>6, <1>7 DEF Next

LEMMA ClientUInv ==
  ASSUME IInv, UInv, NEW c \in Clients, Client(c)
  PROVE  ~lost' /\ faults' = 0 => (Prompt /\ Kept)'
<1> SUFFICES ASSUME ~lost', faults' = 0 PROVE (Prompt /\ Kept)'
  OBVIOUS
<1>1. ~GiveUp(c)
  BY DEF GiveUp
<1>2. ASSUME NEW a \in inbox[c],
             \/ AgreementAnswered(c, a) \/ VerificationAnswered(c, a)
             \/ LogoutAnswered(c, a) \/ SendAnswered(c, a)
      PROVE  (Prompt /\ Kept)'
  <2>1. lost' = lost /\ faults' = faults
    BY <1>2, AnswerStep DEF Return
  <2> QED  BY <1>2, <2>1, AnsweredUInv DEF UInv
<1>3. ASSUME NEW op \in Op, NEW to, NEW key, NEW bytes, Ask(c, op, to, key, bytes)
      PROVE  (Prompt /\ Kept)'
  BY <1>3, AskUInv DEF UInv, Ask
<1> QED  BY <1>1, <1>2, <1>3 DEF Client, keyAgreement, keyVerification, keyLogout,
                                 sendTextMessage, Op

LEMMA HandleUInv ==
  ASSUME IInv, UInv, NEW r \in wire, Handle(r)
  PROVE  ~lost' /\ faults' = 0 => (Prompt /\ Kept)'
<1> SUFFICES ASSUME ~lost', faults' = 0 PROVE (Prompt /\ Kept)'
  OBVIOUS
<1>0. TypeOK /\ Numbered /\ r.from \in Clients /\ r.id \in Nat /\ faults' \in 0 .. MaxFaults
  BY FaultCount DEF IInv, UInv, TypeOK, Request, Handle, HandleAgree, HandleCheck, HandleLogout,
                    HandleSend, DatabaseWorks
<1>1. DatabaseWorks /\ ~DatabaseFails
  BY <1>0, FaultCount DEF Handle, HandleAgree, HandleCheck, HandleLogout, HandleSend, DatabaseWorks
<1>2. Prompt /\ Kept
  <2>1. lost' = lost /\ faults' = faults
    BY <1>1 DEF DatabaseWorks, Handle, HandleAgree, HandleCheck, HandleLogout, HandleSend, Respond
  <2> QED  BY <2>1 DEF UInv
<1>3. CASE HandleAgree(r)
  <2>1. r.op = "agree" /\ Server!Agree(r.from, r.id) /\ Respond(r, "SUCCESS", sn, r.id)
    BY <1>1, <1>3 DEF HandleAgree
  <2>2. /\ Usable(keys', r.from, sn)
        /\ \A c \in Clients \ {r.from} : \A k : Usable(keys, c, k) => Usable(keys', c, k)
    BY <1>0, <2>1, AgreeKeepsUsable
  <2>3. Replaces(r.op, "SUCCESS")
    BY <2>1 DEF Replaces
  <2> QED  BY <1>2, <2>1, <2>2, <2>3, RespondUInv
<1>4. ASSUME r.op # "agree", UNCHANGED keys, NEW code, Respond(r, code, r.key, 0)
      PROVE  (Prompt /\ Kept)'
  BY <1>2, <1>4, RespondUInv
<1>5. CASE HandleCheck(r)
  BY <1>1, <1>4, <1>5 DEF HandleCheck, serverVars
<1>6. CASE HandleSend(r)
  BY <1>4, <1>6 DEF HandleSend, serverVars
<1>7. CASE HandleLogout(r)
  <2>1. CASE UNCHANGED serverVars
    BY <1>1, <1>4, <1>7, <2>1 DEF HandleLogout, serverVars
  <2>2. ASSUME NEW k \in RowsOf(r), Server!Revoke(k), Respond(r, "SUCCESS", r.key, 0)
        PROVE  (Prompt /\ Kept)'
    <3>1. k \in keys /\ k.client = r.from /\ Server!End(k, "Revoked") /\ "Revoked" \in State
      BY <2>2 DEF RowsOf, Server!Revoke, State
    <3>2. \A c : c # r.from => \A key : Usable(keys, c, key) => Usable(keys', c, key)
      BY <1>0, <3>1, EndKeepsUsable
    <3>3. r.op = "logout" /\ Replaces(r.op, "SUCCESS")
      BY <1>7 DEF HandleLogout, Replaces, SwitchesOff
    <3> QED  BY <1>2, <2>2, <3>2, <3>3, RespondUInv
  <2> QED  BY <1>1, <1>7, <2>1, <2>2 DEF HandleLogout
<1> QED  BY <1>3, <1>5, <1>6, <1>7 DEF Handle

\* A request is lost, a key expires, or nothing happens.
LEMMA EnvUInv ==
  ASSUME IInv, UInv, wire' \subseteq wire, UNCHANGED <<clientVars, inbox, faults, lost>>,
         \A c, key : Usable(keys, c, key) => Usable(keys', c, key)
  PROVE  ~lost' /\ faults' = 0 => (Prompt /\ Kept)'
<1>1. UNCHANGED <<local, pc, call>>
  BY DEF clientVars
<1>2. \A c \in Clients : Cached(c)' = Cached(c)
  BY <1>1 DEF Cached
<1> QED  BY <1>1, <1>2 DEF UInv, Prompt, Kept

LEMMA NextUInv == IInv /\ UInv /\ [Next]_vars => UInv'
<1> SUFFICES ASSUME IInv, UInv, [Next]_vars PROVE UInv'
  OBVIOUS
<1> DEFINE Goal == ~lost' /\ faults' = 0 => (Prompt /\ Kept)'
<1>1. ASSUME \E c \in Clients : Client(c) PROVE Goal
  BY <1>1, ClientUInv
<1>2. ASSUME \E r \in wire : Handle(r) PROVE Goal
  BY <1>2, HandleUInv
<1>3. ASSUME \E r \in wire : Lose(r) PROVE Goal
  BY <1>3, EnvUInv DEF Lose, serverVars
<1>4. ASSUME Expire PROVE Goal
  <2>1. PICK k \in keys : Server!End(k, "Expired")
    BY <1>4 DEF Expire, Server!Expire
  <2>2. TypeOK /\ Numbered /\ "Expired" \in State
    BY DEF IInv, UInv, State
  <2>3. \A c, key : Usable(keys, c, key) => Usable(keys', c, key)
    BY <2>1, <2>2, EndKeepsUsable
  <2> QED  BY <1>4, <2>3, EnvUInv DEF Expire
<1>5. ASSUME Done \/ UNCHANGED vars PROVE Goal
  BY <1>5, EnvUInv DEF Done, vars, serverVars
<1>6. Numbered'
  BY NumberedStays DEF UInv, Numbered, vars, serverVars
<1> QED  BY <1>1, <1>2, <1>3, <1>4, <1>5, <1>6 DEF Next, UInv

\* As long as no request is given up and the database works, the key that a
\* client at rest would use is its latest one on the server, Active or expired,
\* for any number of clients and requests (ClientOP.cpp, keyAgreement,
\* keyVerification and keyLogout).
THEOREM ClientOnMeansUsable == Spec => []OnMeansUsable
<1>1. Init => UInv
  <2> SUFFICES ASSUME Init PROVE Prompt /\ Kept
    BY DEF UInv, Numbered, Init, Server!Init
  <2>1. \A c \in Clients : Cached(c).status = 0
    <3>1. \A c \in Clients : EmptyShm \in Shm /\ SlotsOf(EmptyShm, c) = {}
      BY EmptyShmType, NoClientAssumption DEF SlotsOf, EmptyShm, EmptyNode
    <3> QED  BY <3>1 DEF Init, Cached, shmRead, EmptyNode
  <2> QED  BY <2>1 DEF Init, Prompt, Kept
<1>2. IInv /\ UInv => OnMeansUsable
  <2> SUFFICES ASSUME IInv, UInv, ~lost, faults = 0, NEW c \in Clients,
                      pc[c] = "idle", Cached(c).status = 1
               PROVE  Usable(keys, c, Cached(c).key)
    BY DEF OnMeansUsable, Usable
  <2>1. inbox[c] = {}
    BY DEF IInv, WaitInv
  <2> QED  BY <2>1 DEF UInv, Kept
<1> QED  BY <1>1, <1>2, NextUInv, Invariance, PTL DEF Spec
=============================================================================
