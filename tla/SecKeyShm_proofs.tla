-------------------------- MODULE SecKeyShm_proofs --------------------------
(***************************************************************************)
(* Facts about tables of keys and about the cache operations, for any      *)
(* number of clients, keys and slots.                                      *)
(***************************************************************************)
EXTENDS SecKeyShm, WellFoundedInduction, TLAPS

(* Tables of keys.                                                         *)

\* What an UPDATE of the state does to the rows: each result is an old row, or
\* a selected row in the new state.
LEMMA SetStateRows ==
  ASSUME NEW table, NEW rows, NEW s, NEW r \in SetState(table, rows, s)
  PROVE  \/ r \in table /\ r \notin rows
         \/ \E q \in rows : r = [q EXCEPT !.state = s]
  BY DEF SetState

\* Moving Active rows to a final state advances the table.
LEMMA SetStateAdvances ==
  ASSUME NEW table \in SUBSET KeyRow, NEW rows \in SUBSET table, NEW s \in State,
         \A r \in rows : r.state = "Active"
  PROVE  Advances(table, SetState(table, rows, s))
<1> SUFFICES ASSUME NEW r \in table
             PROVE  \E q \in SetState(table, rows, s) :
                      q = [r EXCEPT !.state = q.state] /\ (r.state # "Active" => q.state = r.state)
  BY DEF Advances
<1>1. CASE r \in rows
  <2> DEFINE q == [r EXCEPT !.state = s]
  <2>1. q \in SetState(table, rows, s)
    BY <1>1 DEF SetState
  <2>2. q = [r EXCEPT !.state = q.state] /\ r.state = "Active"
    BY <1>1 DEF KeyRow
  <2> QED  BY <2>1, <2>2
<1>2. CASE r \notin rows
  <2>1. r \in SetState(table, rows, s)
    BY <1>2 DEF SetState
  <2>2. r = [r EXCEPT !.state = r.state]
    BY DEF KeyRow
  <2> QED  BY <2>1, <2>2
<1> QED  BY <1>1, <1>2

\* An UPDATE of the state keeps the type of the table.
LEMMA SetStateType ==
  ASSUME NEW table \in SUBSET KeyRow, NEW rows \in SUBSET table, NEW s \in State
  PROVE  SetState(table, rows, s) \in SUBSET KeyRow
  BY DEF SetState, KeyRow

\* A new row advances the table.
LEMMA InsertAdvances ==
  ASSUME NEW table \in SUBSET KeyRow, NEW row
  PROVE  Advances(table, table \cup {row})
  BY DEF Advances, KeyRow

\* To stay is to advance, and to advance twice is to advance.
LEMMA AdvancesReflexive ==
  ASSUME NEW table \in SUBSET KeyRow
  PROVE  Advances(table, table)
  BY DEF Advances, KeyRow

LEMMA AdvancesTransitive ==
  ASSUME NEW one \in SUBSET KeyRow, NEW two \in SUBSET KeyRow, NEW three \in SUBSET KeyRow,
         Advances(one, two), Advances(two, three)
  PROVE  Advances(one, three)
<1> SUFFICES ASSUME NEW r \in one
             PROVE  \E t \in three :
                      t = [r EXCEPT !.state = t.state] /\ (r.state # "Active" => t.state = r.state)
  BY DEF Advances
<1>1. PICK s \in two : s = [r EXCEPT !.state = s.state] /\ (r.state # "Active" => s.state = r.state)
  BY DEF Advances
<1>2. PICK t \in three : t = [s EXCEPT !.state = t.state] /\ (s.state # "Active" => t.state = s.state)
  BY DEF Advances
<1>3. t = [r EXCEPT !.state = t.state]
  BY <1>1, <1>2 DEF KeyRow
<1> QED  BY <1>1, <1>2, <1>3
-----------------------------------------------------------------------------
(* The cache.                                                              *)

Shm == [Slots -> Node]

LEMMA LeastNumber ==
  ASSUME NEW S \in SUBSET Nat, S # {}
  PROVE  Min(S) \in S /\ \A i \in S : Min(S) <= i
<1>1. PICK m \in S : \A i \in S : <<i, m>> \notin OpToRel(<, Nat)
  BY WFMin, NatLessThanWellFounded, Zenon
<1>2. \A i \in S : i \in Nat /\ m \in Nat
  OBVIOUS
<1>3. \A i \in S : ~(i < m)
  BY <1>1, <1>2, Zenon DEF OpToRel
<1>4. \A i \in S : m <= i
  BY <1>2, <1>3
<1> QED  BY <1>4 DEF Min

\* The scan of the slots stops at the first one that fits.
LEMMA FirstSlot ==
  ASSUME NEW S \in SUBSET Slots, S # {}
  PROVE  Min(S) \in S /\ \A i \in S : Min(S) <= i
  BY LeastNumber, MaxNodeAssumption DEF Slots

LEMMA SlotsOfSubset ==
  ASSUME NEW shm, NEW c
  PROVE  SlotsOf(shm, c) \in SUBSET Slots /\ FreeSlots(shm) \in SUBSET Slots
  BY DEF SlotsOf, FreeSlots

\* Every operation keeps the type of the segment.
LEMMA EmptyShmType == EmptyShm \in Shm
  BY DEF EmptyShm, Shm, EmptyNode, Node

LEMMA WriteType ==
  ASSUME NEW shm \in Shm, NEW node \in Node
  PROVE  shmWrite(shm, node) \in Shm
  BY FirstSlot, SlotsOfSubset DEF shmWrite, Shm

LEMMA ReadType ==
  ASSUME NEW shm \in Shm, NEW c
  PROVE  shmRead(shm, c) \in Node
  BY FirstSlot, SlotsOfSubset DEF shmRead, Shm, EmptyNode, Node

LEMMA UpdateStatusType ==
  ASSUME NEW shm \in Shm, NEW c, NEW s \in {0, 1}
  PROVE  shmUpdateStatus(shm, c, s) \in Shm
<1>1. CASE SlotsOf(shm, c) = {}
  BY <1>1 DEF shmUpdateStatus
<1>2. CASE SlotsOf(shm, c) # {}
  <2>1. Min(SlotsOf(shm, c)) \in Slots
    BY <1>2, FirstSlot, SlotsOfSubset
  <2> QED  BY <1>2, <2>1 DEF shmUpdateStatus, Shm, Node
<1> QED  BY <1>1, <1>2

\* A client reads back the node written for it, unless there was no room for it.
LEMMA ReadAfterWrite ==
  ASSUME NEW shm \in Shm, NEW node \in Node
  PROVE  \/ shmRead(shmWrite(shm, node), node.client) = node
         \/ shmWrite(shm, node) = shm
<1> DEFINE mine == SlotsOf(shm, node.client)
           new  == shmWrite(shm, node)
<1>1. CASE mine # {}
  <2>1. Min(mine) \in Slots /\ new = [shm EXCEPT ![Min(mine)] = node]
    BY <1>1, FirstSlot, SlotsOfSubset DEF shmWrite
  <2>2. SlotsOf(new, node.client) = mine
    BY <2>1, <1>1, FirstSlot, SlotsOfSubset DEF SlotsOf, Shm
  <2> QED  BY <1>1, <2>1, <2>2 DEF shmRead, Shm
<1>2. CASE mine = {} /\ FreeSlots(shm) # {}
  <2> DEFINE i == Min(FreeSlots(shm))
  <2>1. i \in Slots /\ new = [shm EXCEPT ![i] = node]
    BY <1>2, FirstSlot, SlotsOfSubset DEF shmWrite
  <2>2. SlotsOf(new, node.client) = {i}
    BY <2>1, <1>2 DEF SlotsOf, Shm
  <2>3. Min({i}) = i
    BY <2>1, FirstSlot
  <2> QED  BY <2>1, <2>2, <2>3 DEF shmRead, Shm
<1>3. CASE mine = {} /\ FreeSlots(shm) = {}
  BY <1>3 DEF shmWrite
<1> QED  BY <1>1, <1>2, <1>3

\* Switching a client's node changes its status and nothing else of it.
LEMMA ReadAfterUpdate ==
  ASSUME NEW shm \in Shm, NEW c, NEW s \in {0, 1}
  PROVE  \/ shmRead(shmUpdateStatus(shm, c, s), c) = [shmRead(shm, c) EXCEPT !.status = s]
         \/ shmUpdateStatus(shm, c, s) = shm
<1> DEFINE mine == SlotsOf(shm, c)
           i    == Min(mine)
           new  == shmUpdateStatus(shm, c, s)
<1>1. CASE mine # {}
  <2>1. i \in mine /\ i \in Slots /\ new = [shm EXCEPT ![i] = [@ EXCEPT !.status = s]]
    BY <1>1, FirstSlot, SlotsOfSubset DEF shmUpdateStatus
  <2>2. new[i] = [shm[i] EXCEPT !.status = s] /\ \A j \in Slots : j # i => new[j] = shm[j]
    BY <2>1 DEF Shm
  <2>3. shm[i] \in Node /\ new[i].client = shm[i].client
    BY <2>1, <2>2 DEF Shm, Node
  <2>4. SlotsOf(new, c) = mine
    BY <2>1, <2>2, <2>3 DEF SlotsOf
  <2> QED  BY <1>1, <2>2, <2>4 DEF shmRead
<1>2. CASE mine = {}
  BY <1>2 DEF shmUpdateStatus
<1> QED  BY <1>1, <1>2

\* Whatever was there, a client reads back the node written or one that is off,
LEMMA WrittenOrOff ==
  ASSUME NEW shm \in Shm, NEW node \in Node
  PROVE  \/ shmRead(shmWrite(shm, node), node.client) = node
         \/ shmRead(shmWrite(shm, node), node.client).status = 0
<1>1. CASE SlotsOf(shm, node.client) # {}
  <2> DEFINE i == Min(SlotsOf(shm, node.client))
  <2>1. /\ i \in Slots /\ i \in SlotsOf(shm, node.client)
        /\ shmWrite(shm, node) = [shm EXCEPT ![i] = node]
    BY <1>1, FirstSlot, SlotsOfSubset DEF shmWrite
  <2>2. SlotsOf(shmWrite(shm, node), node.client) = SlotsOf(shm, node.client)
    BY <2>1 DEF SlotsOf, Shm
  <2> QED  BY <1>1, <2>1, <2>2 DEF shmRead, Shm
<1>2. CASE SlotsOf(shm, node.client) = {}
  <2>1. shmRead(shm, node.client).status = 0
    BY <1>2 DEF shmRead, EmptyNode
  <2> QED  BY <2>1, ReadAfterWrite
<1> QED  BY <1>1, <1>2

\* ... and after switching it off finds nothing that is on.
LEMMA SwitchedOff ==
  ASSUME NEW shm \in Shm, NEW c
  PROVE  shmRead(shmUpdateStatus(shm, c, 0), c).status = 0
<1> DEFINE new == shmUpdateStatus(shm, c, 0)
           i   == Min(SlotsOf(shm, c))
<1>1. CASE SlotsOf(shm, c) = {}
  BY <1>1 DEF shmUpdateStatus, shmRead, EmptyNode
<1>2. CASE SlotsOf(shm, c) # {}
  <2>1. i \in SlotsOf(shm, c) /\ i \in Slots /\ new = [shm EXCEPT ![i] = [@ EXCEPT !.status = 0]]
    BY <1>2, FirstSlot, SlotsOfSubset DEF shmUpdateStatus
  <2>2. /\ shm[i] \in Node /\ new[i] = [shm[i] EXCEPT !.status = 0]
        /\ \A j \in Slots : j # i => new[j] = shm[j]
    BY <2>1 DEF Shm
  <2>3. new[i].client = shm[i].client /\ new[i].status = 0
    BY <2>2 DEF Node
  <2>4. SlotsOf(new, c) = SlotsOf(shm, c)
    BY <2>1, <2>2, <2>3 DEF SlotsOf
  <2> QED  BY <1>2, <2>3, <2>4 DEF shmRead
<1> QED  BY <1>1, <1>2

\* A node found is the client's own, or the zero node.
LEMMA ReadOwn ==
  ASSUME NEW shm \in Shm, NEW c \in Clients
  PROVE  shmRead(shm, c).client = c \/ shmRead(shm, c) = EmptyNode
<1>1. CASE SlotsOf(shm, c) = {}
  BY <1>1 DEF shmRead
<1>2. CASE SlotsOf(shm, c) # {}
  <2>1. Min(SlotsOf(shm, c)) \in SlotsOf(shm, c)
    BY <1>2, FirstSlot, SlotsOfSubset
  <2> QED  BY <1>2, <2>1 DEF shmRead, SlotsOf
<1> QED  BY <1>1, <1>2

\* What an operation leaves in a slot: the slot as it was, or what was written.
LEMMA WriteSlots ==
  ASSUME NEW shm \in Shm, NEW node
  PROVE  \A i \in Slots : shmWrite(shm, node)[i] \in {shm[i], node}
  BY FirstSlot, SlotsOfSubset DEF shmWrite, Shm

\* ... and a status that is switched, only in a slot of the client.
LEMMA UpdateStatusSlots ==
  ASSUME NEW shm \in Shm, NEW c \in Clients, NEW s \in {0, 1}
  PROVE  \A i \in Slots :
           \/ shmUpdateStatus(shm, c, s)[i] = shm[i]
           \/ /\ shm[i] # EmptyNode
              /\ shmUpdateStatus(shm, c, s)[i] = [shm[i] EXCEPT !.status = s]
<1>1. CASE SlotsOf(shm, c) = {}
  BY <1>1 DEF shmUpdateStatus
<1>2. CASE SlotsOf(shm, c) # {}
  <2>1. Min(SlotsOf(shm, c)) \in SlotsOf(shm, c) /\ Min(SlotsOf(shm, c)) \in Slots
    BY <1>2, FirstSlot, SlotsOfSubset
  <2>2. shm[Min(SlotsOf(shm, c))] # EmptyNode
    BY <2>1, NoClientAssumption DEF SlotsOf, EmptyNode
  <2> QED  BY <1>2, <2>1, <2>2 DEF shmUpdateStatus, Shm
<1> QED  BY <1>1, <1>2

\* Whoever has a slot after its node was written reads that node; ...
LEMMA WriteServes ==
  ASSUME NEW shm \in Shm, NEW node \in Node,
         SlotsOf(shmWrite(shm, node), node.client) # {}
  PROVE  shmRead(shmWrite(shm, node), node.client) = node
<1> DEFINE mine == SlotsOf(shm, node.client)
           new  == shmWrite(shm, node)
<1>1. CASE mine # {}
  <2>1. Min(mine) \in mine /\ Min(mine) \in Slots /\ new = [shm EXCEPT ![Min(mine)] = node]
    BY <1>1, FirstSlot, SlotsOfSubset DEF shmWrite
  <2>2. SlotsOf(new, node.client) = mine
    BY <2>1 DEF SlotsOf, Shm
  <2> QED  BY <1>1, <2>1, <2>2 DEF shmRead, Shm
<1>2. CASE mine = {} /\ new = shm
  BY <1>2
<1>3. CASE mine = {} /\ new # shm
  BY <1>3, ReadAfterWrite
<1> QED  BY <1>1, <1>2, <1>3

\* ... the slots of the others, and what they read, stay.
LEMMA WriteOthers ==
  ASSUME NEW shm \in Shm, NEW node \in Node, NEW c \in Clients, c # node.client
  PROVE  /\ SlotsOf(shmWrite(shm, node), c) = SlotsOf(shm, c)
         /\ shmRead(shmWrite(shm, node), c) = shmRead(shm, c)
<1> DEFINE new == shmWrite(shm, node)
<1>1. \A i \in Slots : new[i] = shm[i] \/ (new[i].client # c /\ shm[i].client # c)
  <2>1. \A i \in Slots : i \in SlotsOf(shm, node.client) \cup FreeSlots(shm) => shm[i].client # c
    BY NoClientAssumption DEF SlotsOf, FreeSlots, EmptyNode
  <2> QED  BY <2>1, FirstSlot, SlotsOfSubset DEF shmWrite, Shm
<1>2. SlotsOf(new, c) = SlotsOf(shm, c)
  BY <1>1 DEF SlotsOf
<1>3. CASE SlotsOf(shm, c) # {}
  <2>1. Min(SlotsOf(shm, c)) \in SlotsOf(shm, c)
    BY <1>3, FirstSlot, SlotsOfSubset
  <2> QED  BY <1>1, <1>2, <1>3, <2>1 DEF shmRead, SlotsOf
<1> QED  BY <1>2, <1>3 DEF shmRead

LEMMA UpdateStatusOthers ==
  ASSUME NEW shm \in Shm, NEW c, NEW d, NEW s \in {0, 1}
  PROVE  /\ SlotsOf(shmUpdateStatus(shm, c, s), d) = SlotsOf(shm, d)
         /\ d # c => shmRead(shmUpdateStatus(shm, c, s), d) = shmRead(shm, d)
<1> DEFINE new == shmUpdateStatus(shm, c, s)
<1>1. \A i \in Slots : /\ new[i].client = shm[i].client
                       /\ new[i] = shm[i] \/ shm[i].client = c
  <2>1. CASE SlotsOf(shm, c) = {}
    BY <2>1 DEF shmUpdateStatus
  <2>2. CASE SlotsOf(shm, c) # {}
    <3>1. Min(SlotsOf(shm, c)) \in SlotsOf(shm, c)
      BY <2>2, FirstSlot, SlotsOfSubset
    <3> QED  BY <2>2, <3>1 DEF shmUpdateStatus, SlotsOf, Shm, Node
  <2> QED  BY <2>1, <2>2
<1>2. SlotsOf(new, d) = SlotsOf(shm, d)
  BY <1>1 DEF SlotsOf
<1>3. CASE SlotsOf(shm, d) # {}
  <2>1. Min(SlotsOf(shm, d)) \in SlotsOf(shm, d)
    BY <1>3, FirstSlot, SlotsOfSubset
  <2> QED  BY <1>1, <1>2, <1>3, <2>1 DEF shmRead, SlotsOf
<1> QED  BY <1>2, <1>3 DEF shmRead
=============================================================================
