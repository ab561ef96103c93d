----------------------------- MODULE SecKeyShm -----------------------------
(***************************************************************************)
(* The key cache: a System V shared-memory segment holding MaxNode slots   *)
(* of NodeSHMInfo (SecKeyShm.cpp).  Each operation maps the segment, scans *)
(* the slots from the first one on, and unmaps it; here it is an operator  *)
(* from slot arrays to slot arrays, and the modules that use it decide     *)
(* when a thread applies it.                                               *)
(*                                                                         *)
(* A node is looked up by (clientID, serverID).  One server owns the       *)
(* segment, so serverID is the same in every node and is left out.  The    *)
(* AES key itself (seckey) is an opaque number, mat.                       *)
(***************************************************************************)
EXTENDS KeyStates, FiniteSetsExt

CONSTANTS
  NoClient,   \* the empty clientID of a zeroed slot
  MaxNode     \* ShmMaxNode of the server's configuration

ASSUME NoClientAssumption == NoClient \notin Clients
ASSUME MaxNodeAssumption  == MaxNode \in Nat \ {0}

Slots == 1 .. MaxNode

Node == [client : Clients \cup {NoClient}, key : Nat, mat : Nat, status : {0, 1}]

\* What NodeSHMInfo() builds and what a slot never written holds: all bytes zero.
EmptyNode == [client |-> NoClient, key |-> 0, mat |-> 0, status |-> 0]

\* The segment as shmget(IPC_CREAT) first creates it.
EmptyShm == [i \in Slots |-> EmptyNode]

\* The slots whose (clientID, serverID) is c's, and those that are still all zero.
SlotsOf(shm, c) == {i \in Slots : shm[i].client = c}
FreeSlots(shm)  == {i \in Slots : shm[i] = EmptyNode}

\* Mutant: when all slots are taken the last one is overwritten.
shmWriteEvicts(shm, node) ==
  LET mine == SlotsOf(shm, node.client)
      free == FreeSlots(shm)
  IN  CASE mine # {}              -> [shm EXCEPT ![Min(mine)] = node]
        [] mine = {} /\ free # {} -> [shm EXCEPT ![Min(free)] = node]
        [] mine = {} /\ free = {} -> [shm EXCEPT ![MaxNode] = node]

\* Overwrite the client's slot, else take the first free one, else return -1
\* and leave the segment alone.
shmWrite(shm, node) ==
  LET mine == SlotsOf(shm, node.client)
      free == FreeSlots(shm)
  IN  CASE mine # {}              -> [shm EXCEPT ![Min(mine)] = node]
        [] mine = {} /\ free # {} -> [shm EXCEPT ![Min(free)] = node]
        [] mine = {} /\ free = {} -> shm

\* The client's node, or a zero node when there is none.
shmRead(shm, c) ==
  IF SlotsOf(shm, c) = {} THEN EmptyNode ELSE shm[Min(SlotsOf(shm, c))]

\* Status only: key number and key bytes stay in the slot.
shmUpdateStatus(shm, c, status) ==
  IF SlotsOf(shm, c) = {} THEN shm
  ELSE [shm EXCEPT ![Min(SlotsOf(shm, c))].status = status]
=============================================================================
