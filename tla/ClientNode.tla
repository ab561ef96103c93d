----------------------------- MODULE ClientNode -----------------------------
(***************************************************************************)
(* The clients (ClientOP, MessageClient) and the server they talk to.      *)
(*                                                                         *)
(* A client runs one menu operation at a time: it reads its own key cache, *)
(* sends one request on a connection of its own, and waits for the answer, *)
(* at most ten seconds.  Its cache has room for one node and holds the key *)
(* shared with the server.                                                 *)
(*                                                                         *)
(* The server is KeyLifecycle, which KeyServer implements: it handles a    *)
(* request in one step, at any time after it was sent, also when the       *)
(* client has given up on it.  A request can get lost, and so can the      *)
(* answer; a failing database makes the server answer with an error, with  *)
(* the operation done or not.                                              *)
(***************************************************************************)
EXTENDS SecKeyShm

CONSTANTS
  MaxReq,      \* bound: requests clients send
  MaxFaults    \* bound: operations the server's database fails

ASSUME RequestBound == MaxReq \in Nat /\ MaxFaults \in Nat

VARIABLES
  sn, keys,    \* the server's key table, as in KeyLifecycle
  local,       \* each client's key cache
  pc,          \* the operation a client is waiting in, or "idle"
  call,        \* its request's id
  wire,        \* requests on the way
  inbox,       \* the answer on a client's connection
  seq,         \* requests sent so far
  faults,      \* database failures so far
  lost         \* history: some client gave up on a request

Server == INSTANCE KeyLifecycle WITH KeyBytes <- 1 .. MaxReq

serverVars == <<sn, keys>>
clientVars == <<local, pc, call>>
vars == <<serverVars, clientVars, wire, inbox, seq, faults, lost>>

Op == {"agree", "check", "logout", "send"}

\* bytes is what a message is encrypted under; an agreement and a check have none.
Request == [id : Nat, op : Op, from : Clients, to : Clients, key : Nat, bytes : Nat]

Code == {"SUCCESS", "KEY_AGREE_FAILED", "KEY_INVALID", "KEY_LOGOUT_FAILED", "FAILED"}

Answer == [code : Code, key : Nat, bytes : Nat]

Init ==
  /\ Server!Init
  /\ local = [c \in Clients |-> EmptyShm]
  /\ pc = [c \in Clients |-> "idle"]
  /\ call = [c \in Clients |-> 0]
  /\ wire = {}
  /\ inbox = [c \in Clients |-> {}]
  /\ seq = 0
  /\ faults = 0
  /\ lost = FALSE

TypeOK ==
  /\ Server!TypeOK
  /\ local \in [Clients -> [Slots -> Node]]
  /\ pc \in [Clients -> {"idle"} \cup Op]
  /\ call \in [Clients -> 0 .. MaxReq]
  /\ wire \subseteq Request
  /\ inbox \in [Clients -> SUBSET Answer]
  /\ seq \in 0 .. MaxReq
  /\ faults \in 0 .. MaxFaults
  /\ lost \in BOOLEAN

\* The node a client finds in its cache.
Cached(c) == shmRead(local[c], c)

ActiveRow(r) == r.state = "Active"
-----------------------------------------------------------------------------
(* A client begins an operation.                                           *)

\* Connected and sent; the answer is awaited.
Ask(c, op, to, key, bytes) ==
  /\ pc[c] = "idle"
  /\ seq < MaxReq
  /\ seq' = seq + 1
  /\ wire' = wire \cup {[id |-> seq + 1, op |-> op, from |-> c, to |-> to,
                         key |-> key, bytes |-> bytes]}
  /\ pc' = [pc EXCEPT ![c] = op]
  /\ call' = [call EXCEPT ![c] = seq + 1]
  /\ UNCHANGED <<serverVars, local, inbox, faults, lost>>

keyAgreement(c) == Ask(c, "agree", c, 0, 0)

keyVerification(c) ==
  /\ Cached(c).client # NoClient
  /\ Cached(c).status # 0
  /\ Ask(c, "check", c, Cached(c).key, 0)

keyLogout(c) ==
  /\ Cached(c).status = 1
  /\ Ask(c, "logout", c, Cached(c).key, 0)

getActiveKey(c) == Cached(c).client # NoClient /\ Cached(c).status = 1

\* Encrypted with the bytes of the very node whose number is named.
sendTextMessage(c, to) ==
  /\ getActiveKey(c)
  /\ Ask(c, "send", to, Cached(c).key, Cached(c).mat)
-----------------------------------------------------------------------------
(* The server handles a request, whether or not its client still waits.    *)

\* Mutant: the answer reaches whatever the client is waiting for by then.
RespondLate(r, code, key, bytes) ==
  /\ wire' = wire \ {r}
  /\ inbox' = IF pc[r.from] # "idle"
              THEN [inbox EXCEPT ![r.from] = {[code |-> code, key |-> key, bytes |-> bytes]}]
              ELSE inbox
  /\ UNCHANGED <<clientVars, seq, lost>>

\* The answer goes onto the request's own connection, if that is still open.
Respond(r, code, key, bytes) ==
  /\ wire' = wire \ {r}
  /\ inbox' = IF pc[r.from] # "idle" /\ call[r.from] = r.id
              THEN [inbox EXCEPT ![r.from] = {[code |-> code, key |-> key, bytes |-> bytes]}]
              ELSE inbox
  /\ UNCHANGED <<clientVars, seq, lost>>

DatabaseFails == faults < MaxFaults /\ faults' = faults + 1

DatabaseWorks == UNCHANGED faults

RowsOf(r) == {k \in keys : k.client = r.from /\ k.key = r.key /\ ActiveRow(k)}

\* The request's id stands for the key bytes generated for it.
HandleAgree(r) ==
  /\ r.op = "agree"
  /\ \/ /\ Server!Agree(r.from, r.id) /\ DatabaseWorks
        /\ Respond(r, "SUCCESS", sn, r.id)
     \/ /\ Server!Agree(r.from, r.id) \/ UNCHANGED serverVars
        /\ DatabaseFails
        /\ Respond(r, "KEY_AGREE_FAILED", 0, 0)

HandleCheck(r) ==
  /\ r.op = "check"
  /\ UNCHANGED serverVars
  /\ \/ /\ DatabaseWorks
        /\ Respond(r, IF RowsOf(r) # {} THEN "SUCCESS" ELSE "KEY_INVALID", r.key, 0)
     \/ /\ DatabaseFails
        /\ Respond(r, "KEY_INVALID", r.key, 0)

HandleLogout(r) ==
  /\ r.op = "logout"
  /\ \/ /\ \E k \in RowsOf(r) : Server!Revoke(k)
        /\ \/ DatabaseWorks /\ Respond(r, "SUCCESS", r.key, 0)
           \/ DatabaseFails /\ Respond(r, "KEY_LOGOUT_FAILED", r.key, 0)
     \/ /\ UNCHANGED serverVars
        /\ \/ RowsOf(r) = {} /\ DatabaseWorks
           \/ DatabaseFails
        /\ Respond(r, "KEY_LOGOUT_FAILED", r.key, 0)

\* A message is taken only when sender and receiver have keys and it can be
\* decrypted.  The server refuses any other, and one whose keys its cache has
\* switched off or has no room for.
HandleSend(r) ==
  /\ r.op = "send"
  /\ UNCHANGED <<serverVars, faults>>
  /\ \/ /\ \E k \in RowsOf(r) : k.mat = r.bytes
        /\ ActiveOf(keys, r.to) # {}
        /\ Respond(r, "SUCCESS", r.key, 0)
     \/ Respond(r, "FAILED", r.key, 0)

\* A key's 24 hours are over.
Expire == \E k \in keys : Server!Expire(k) /\ UNCHANGED <<clientVars, wire, inbox, seq, faults, lost>>
-----------------------------------------------------------------------------
(* The client gets its answer, or gives up.                                *)

Return(c) ==
  /\ pc' = [pc EXCEPT ![c] = "idle"]
  /\ inbox' = [inbox EXCEPT ![c] = {}]
  /\ UNCHANGED <<serverVars, call, wire, seq, faults>>

\* Mutant: the server's number for Revoked is written as the status.
SwitchToState(c, status) == local' = [local EXCEPT ![c] = shmUpdateStatus(@, c, 2)]

Switch(c, status) == local' = [local EXCEPT ![c] = shmUpdateStatus(@, c, status)]

\* Mutant: the answer's code is not looked at.
AgreementUnchecked(c, a) ==
  /\ pc[c] = "agree"
  /\ local' = [local EXCEPT ![c] = shmWrite(@, [client |-> c, key |-> a.key,
                                                mat |-> a.bytes, status |-> 1])]
  /\ Return(c) /\ UNCHANGED lost

\* The new key replaces the old one, which is gone.
AgreementAnswered(c, a) ==
  /\ pc[c] = "agree"
  /\ local' = IF a.code = "SUCCESS"
              THEN [local EXCEPT ![c] = shmWrite(@, [client |-> c, key |-> a.key,
                                                     mat |-> a.bytes, status |-> 1])]
              ELSE local
  /\ Return(c) /\ UNCHANGED lost

\* What the server does not call valid is switched off.
VerificationAnswered(c, a) ==
  /\ pc[c] = "check"
  /\ IF a.code = "SUCCESS" THEN UNCHANGED local ELSE Switch(c, 0)
  /\ Return(c) /\ UNCHANGED lost

\* Mutant: a logout that worked is only reported.
LogoutReported(c, a) ==
  /\ pc[c] = "logout"
  /\ UNCHANGED local
  /\ Return(c) /\ UNCHANGED lost

LogoutAnswered(c, a) ==
  /\ pc[c] = "logout"
  /\ IF a.code = "SUCCESS" THEN Switch(c, 0) ELSE UNCHANGED local
  /\ Return(c) /\ UNCHANGED lost

\* Whatever the answer, the key is left as it is.
SendAnswered(c, a) ==
  /\ pc[c] = "send"
  /\ UNCHANGED local
  /\ Return(c) /\ UNCHANGED lost

\* Mutant: a check without an answer is taken for a negative one.
GiveUpOff(c) ==
  /\ pc[c] # "idle"
  /\ IF pc[c] = "check" THEN Switch(c, 0) ELSE UNCHANGED local
  /\ Return(c) /\ lost' = TRUE

\* No answer in time, the connection broken, or the client stopped and started
\* again: its cache survives it.
GiveUp(c) ==
  /\ pc[c] # "idle"
  /\ UNCHANGED local
  /\ Return(c) /\ lost' = TRUE

\* A request never reaches the server.
Lose(r) == wire' = wire \ {r} /\ UNCHANGED <<serverVars, clientVars, inbox, seq, faults, lost>>

\* All requests of the bounded behaviour are done.
Done ==
  /\ seq = MaxReq
  /\ wire = {}
  /\ \A c \in Clients : pc[c] = "idle"
  /\ UNCHANGED vars

Client(c) ==
  \/ keyAgreement(c) \/ keyVerification(c) \/ keyLogout(c)
  \/ \E to \in Clients : sendTextMessage(c, to)
  \/ \E a \in inbox[c] :
       \/ AgreementAnswered(c, a) \/ VerificationAnswered(c, a)
       \/ LogoutAnswered(c, a) \/ SendAnswered(c, a)
  \/ GiveUp(c)

Handle(r) == HandleAgree(r) \/ HandleCheck(r) \/ HandleLogout(r) \/ HandleSend(r)

Next ==
  \/ \E c \in Clients : Client(c)
  \/ \E r \in wire : Handle(r) \/ Lose(r)
  \/ Expire
  \/ Done

Spec == Init /\ [][Next]_vars
-----------------------------------------------------------------------------
(* Properties.                                                             *)

\* A table has a key of c with this number and these bytes; one that is over.
Issued(table, c, key, bytes) ==
  \E k \in table : k.client = c /\ k.key = key /\ k.mat = bytes
Over(table, c, key) ==
  \E k \in table : k.client = c /\ k.key = key /\ ~ActiveRow(k)

\* ClientOP.cpp, keyAgreement: number and bytes in a client's cache are those of
\* one key the server issued to it, and what it sends is encrypted under the
\* bytes of the number it names, whichever answers were lost or came late.
LocalKeyIssued ==
  /\ \A c \in Clients :
       Cached(c).client # NoClient => Issued(keys, c, Cached(c).key, Cached(c).mat)
  /\ \A r \in wire : r.op = "send" => Issued(keys, r.from, r.key, r.bytes)

\* ClientOP.cpp, keyVerification and keyLogout: while the server's database works,
\* a client switches off only a key that is in a final state on the server.
OffMeansFinal ==
  faults = 0 =>
    \A c \in Clients : Cached(c).client # NoClient /\ Cached(c).status = 0 =>
      Over(keys, c, Cached(c).key)

\* As long as every request was answered in time, the key a client at rest would
\* use is its latest one on the server, Active or past its 24 hours.
OnMeansUsable ==
  ~lost /\ faults = 0 =>
    \A c \in Clients : pc[c] = "idle" /\ Cached(c).status = 1 =>
      \E k \in keys : /\ k.client = c /\ k.key = Cached(c).key
                      /\ k.state \in {"Active", "Expired"}
                      /\ \A l \in keys : l.client = c => l.key <= k.key

\* KeyLifecycle.h: once a client has switched a key off, only a new agreement
\* makes it ready to send again; the old number never comes back.
OffStaysOff ==
  [][\A c \in Clients :
       Cached(c).client # NoClient /\ Cached(c).status = 0
         => \/ Cached(c)' = Cached(c)
            \/ Cached(c)'.key > Cached(c).key]_vars
=============================================================================
