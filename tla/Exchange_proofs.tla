--------------------------- MODULE Exchange_proofs --------------------------
(***************************************************************************)
(* Framing for payloads of any content, any buffer and any way of cutting  *)
(* them up: what recvMsg returns is what sendMsg was given, and the two    *)
(* ends of a connection together keep the promise of RequestReply.  Then   *)
(* the client's and the server's operations on top of it.                  *)
(*                                                                         *)
(* What holds of the frames at every step is that read, under way and      *)
(* still to write are together the frame.  A reader that has as much as    *)
(* the length says has then read all of it, because the length is the      *)
(* frame's own.                                                            *)
(*                                                                         *)
(* What holds of the operations is said of what an end has given to send,  *)
(* read as its peer would read it: a request reads as the operation's      *)
(* packet or as a header alone, a response that reports success is to the  *)
(* operation's packet and says only what the tables hold.  By the frames   *)
(* this is then true of what the peer has taken.  That a packet is read as *)
(* it was written is proved of every class of MessageV2.                   *)
(***************************************************************************)
EXTENDS Exchange, SequenceTheorems, FiniteSetTheorems, TLAPS

\* What a frame is made of: digits and units.
Cell == Units \cup Nat

Types ==
  /\ pc \in [Conns -> [End -> Point]]
  /\ out \in [Conns -> [End -> Payload \cup {NoPayload}]]
  /\ took \in [Conns -> [End -> Payload \cup {NoPayload}]]
  /\ left \in [Conns -> [End -> Seq(Cell)]]
  /\ flow \in [Conns -> [End -> Seq(Cell)]]
  /\ got \in [Conns -> [End -> Seq(Cell)]]
  /\ broken \subseteq Conns /\ cut \subseteq Conns
  /\ faults \in 0 .. MaxFaults

\* From end p of c to the other.
Unsent(c, p) ==
  out[c][p] = NoPayload =>
    /\ left[c][p] = <<>> /\ flow[c][Peer(p)] = <<>> /\ got[c][Peer(p)] = <<>>
    /\ took[c][Peer(p)] = NoPayload

Whole(c, p) ==
  out[c][p] # NoPayload /\ pc[c][Peer(p)] # "closed" =>
    (got[c][Peer(p)] \o flow[c][Peer(p)]) \o left[c][p] = Frame(out[c][p])

Received(c, p) == took[c][Peer(p)] \in {NoPayload, out[c][p]}

\* What a point of an end says about what it has got and been given.
Progress(c) ==
  /\ pc[c]["client"] = "idle" => out[c]["client"] = NoPayload
  /\ pc[c]["client"] \notin {"have", "closed"} => took[c]["client"] = NoPayload
  /\ pc[c]["server"] \in {"idle", "open", "read", "have"} => out[c]["server"] = NoPayload
  /\ pc[c]["server"] \in {"idle", "open", "read"} => took[c]["server"] = NoPayload
  /\ \A e \in End : pc[c][e] = "have" => took[c][e] # NoPayload
  /\ pc[c]["client"] \in {"idle", "connect"} => pc[c]["server"] = "idle"
  /\ pc[c]["server"] = "idle" =>
       /\ pc[c]["client"] \in {"idle", "connect", "closed"}
       /\ flow[c]["server"] = <<>> /\ got[c]["server"] = <<>>

Link(c) ==
  /\ \A p \in End : Unsent(c, p) /\ Whole(c, p) /\ Received(c, p)
  /\ Progress(c)

IInv == Types /\ \A c \in Conns : Link(c)
-----------------------------------------------------------------------------
(* Frames.                                                                 *)

LEMMA Ends == /\ \A e \in End : Peer(e) \in End /\ Peer(e) # e /\ Peer(Peer(e)) = e
              /\ End = {"client", "server"} /\ Peer("client") = "server"
              /\ Peer("server") = "client"
  BY DEF End, Peer

LEMMA DigitsType ==
  ASSUME NEW n \in Nat
  PROVE  /\ n \div Base \in Nat /\ n % Base \in Nat
         /\ (n \div Base) * Base + (n % Base) = n
<1>1. Base \in Nat \ {0}
  BY SizeAssumption
<1> QED  BY <1>1

LEMMA PayloadType ==
  ASSUME NEW p \in Payload
  PROVE  p \in Seq(Cell) /\ p \in Seq(Units) /\ p # NoPayload /\ Len(p) \in Nat
<1>1. p \in Seq(Units) /\ Len(p) \in Nat
  BY LenProperties DEF Payload
<1>2. p \in Seq(Cell)
  BY <1>1, SeqMonotonic DEF Cell
<1> QED  BY <1>1, <1>2, PayloadAssumption

\* What comes after a sequence of two.
LEMMA AfterTwo ==
  ASSUME NEW S, NEW d \in Seq(S), NEW p \in Seq(S), Len(d) = 2,
         NEW n \in Nat, n = 2 + Len(p)
  PROVE  /\ d \o p \in Seq(S) /\ Len(d \o p) = n
         /\ (d \o p)[1] = d[1] /\ (d \o p)[2] = d[2]
         /\ SubSeq(d \o p, 3, n) = p
<1>1. Len(p) \in Nat /\ Len(d) \in Nat
  BY LenProperties
<1>2. /\ d \o p \in Seq(S) /\ Len(d \o p) = n
      /\ (d \o p)[1] = d[1] /\ (d \o p)[2] = d[2]
  <2>1. /\ d \o p \in Seq(S) /\ Len(d \o p) = Len(d) + Len(p)
        /\ \A i \in 1 .. Len(d) + Len(p) :
             (d \o p)[i] = IF i <= Len(d) THEN d[i] ELSE p[i - Len(d)]
    BY ConcatProperties, Zenon
  <2>2. 1 \in 1 .. Len(d) + Len(p) /\ 2 \in 1 .. Len(d) + Len(p)
    BY <1>1
  <2> QED  BY <1>1, <2>1, <2>2
<1>3. CASE Len(p) = 0
  <2>1. p = <<>>
    BY <1>3, EmptySeq
  <2>2. SubSeq(d \o p, 3, n) = <<>>
    BY <1>3, SubSeqEmpty
  <2> QED  BY <1>2, <2>1, <2>2
<1>4. CASE Len(p) > 0
  <2>1. 3 \in Len(d) + 1 .. Len(d) + Len(p) /\ n \in Len(d) + 1 .. Len(d) + Len(p)
    BY <1>1, <1>4
  <2>2. SubSeq(d \o p, 3, n) = SubSeq(p, 3 - Len(d), n - Len(d))
    BY <2>1, SubSeqOfConcat2, Zenon
  <2>3. SubSeq(p, 3 - Len(d), n - Len(d)) = SubSeq(p, 1, Len(p))
    <3>1. 3 - Len(d) = 1 /\ n - Len(d) = Len(p)
      BY <1>1
    <3> QED  BY <3>1
  <2>4. SubSeq(p, 1, Len(p)) = p
    BY SubSeqFull
  <2>5. SubSeq(d \o p, 3, n) = p
    BY <2>2, <2>3, <2>4, Zenon
  <2> QED  BY <1>2, <2>5, Zenon
<1> QED  BY <1>1, <1>3, <1>4

\* A frame is the two digits of the payload's length, and the payload.
LEMMA FrameProperties ==
  ASSUME NEW p \in Payload
  PROVE  /\ Frame(p) \in Seq(Cell)
         /\ Len(Frame(p)) = HeadLen + Len(p)
         /\ Frame(p)[1] = Len(p) \div Base
         /\ Frame(p)[2] = Len(p) % Base
         /\ SubSeq(Frame(p), HeadLen + 1, Len(Frame(p))) = p
<1>1. p \in Seq(Cell) /\ Len(p) \in Nat
  BY PayloadType
<1>2. PICK d \in Seq(Cell) : d = Digits(Len(p))
  <2>1. Len(p) \div Base \in Cell /\ Len(p) % Base \in Cell
    BY <1>1, DigitsType DEF Cell
  <2>2. <<Len(p) \div Base, Len(p) % Base>> \in Seq(Cell)
    BY <2>1
  <2> QED  BY <2>2 DEF Digits
<1>3. Len(d) = 2 /\ d[1] = Len(p) \div Base /\ d[2] = Len(p) % Base
  BY <1>2 DEF Digits
<1>4. Frame(p) = d \o p
  BY <1>2 DEF Frame
<1> QED  BY <1>1, <1>3, <1>4, AfterTwo DEF HeadLen

\* Whatever part of a frame was read, if it is as long as it says it is the frame.
LEMMA CompleteIsWhole ==
  ASSUME NEW p \in Payload, NEW g \in Seq(Cell), NEW rest \in Seq(Cell),
         g \o rest = Frame(p), Complete(g)
  PROVE  Body(g) = p
<1>1. /\ Len(g) \in Nat /\ Len(rest) \in Nat /\ Len(g) >= 2
      /\ Len(g \o rest) = Len(g) + Len(rest)
      /\ \A i \in 1 .. Len(g) : (g \o rest)[i] = g[i]
  BY ConcatProperties, LenProperties DEF Complete, HeadLen
<1>2. g[1] = Len(p) \div Base /\ g[2] = Len(p) % Base
  <2>1. 1 \in 1 .. Len(g) /\ 2 \in 1 .. Len(g)
    BY <1>1
  <2> QED  BY <2>1, <1>1, FrameProperties
<1>3. Len(p) \in Nat
  BY PayloadType
<1>4. Length(g) = Len(p)
  BY <1>2, <1>3, DigitsType DEF Length
<1>5. Len(g) = 2 + Len(p)
  BY <1>1, <1>3, <1>4 DEF Complete, Missing, HeadLen
<1>6. Len(rest) = 0
  BY <1>1, <1>3, <1>5, FrameProperties DEF HeadLen
<1>7. g = Frame(p)
  BY <1>6, EmptySeq, ConcatEmptySeq
<1> QED  BY <1>7, FrameProperties DEF Body
-----------------------------------------------------------------------------
(* Steps.                                                                  *)

\* The connection d is as it was.
Same(d) ==
  /\ pc'[d] = pc[d] /\ out'[d] = out[d] /\ took'[d] = took[d]
  /\ left'[d] = left[d] /\ flow'[d] = flow[d] /\ got'[d] = got[d]

\* A step of one connection says nothing of the others.
LEMMA OneConnection ==
  ASSUME IInv, NEW c \in Conns, Types', \A d \in Conns \ {c} : Same(d), Link(c)'
  PROVE  IInv'
<1>1. ASSUME NEW d \in Conns \ {c}  PROVE Link(d)'
  <2>1. Link(d) /\ Same(d)
    BY <1>1 DEF IInv
  <2>2. ASSUME NEW p \in End  PROVE (Unsent(d, p) /\ Whole(d, p) /\ Received(d, p))'
    BY <2>1, <2>2 DEF Link, Same, Unsent, Whole, Received
  <2>3. Progress(d)'
    BY <2>1 DEF Link, Same, Progress
  <2> QED  BY <2>2, <2>3 DEF Link
<1> QED  BY <1>1 DEF IInv

LEMMA InitInv == FramingInit => IInv
<1> SUFFICES ASSUME FramingInit  PROVE IInv
  OBVIOUS
<1>1. Types
  <2>1. <<>> \in Seq(Cell)
    BY EmptySeq
  <2> QED  BY <2>1, SizeAssumption DEF FramingInit, Types, Per, Point
<1>2. ASSUME NEW c \in Conns  PROVE Link(c)
  BY <1>2, Ends DEF FramingInit, Per, Link, Unsent, Whole, Received, Progress
<1> QED  BY <1>1, <1>2 DEF IInv

\* Closing an end that was in use.
LEMMA CloseInv ==
  ASSUME IInv, NEW c \in Conns, NEW e \in End, Close(c, e), pc[c][e] # "idle",
         faults' \in 0 .. MaxFaults
  PROVE  IInv'
<1>1. Types /\ Link(c)
  BY DEF IInv
<1>2. Types'
  <2>1. <<>> \in Seq(Cell) /\ "closed" \in Point
    BY EmptySeq DEF Point
  <2> QED  BY <1>1, <2>1 DEF Types, Close, Goto
<1>3. \A d \in Conns \ {c} : Same(d)
  BY <1>1 DEF Types, Close, Goto, Same
<1>4. /\ pc'[c] = [pc[c] EXCEPT ![e] = "closed"] /\ got'[c] = [got[c] EXCEPT ![e] = <<>>]
      /\ flow'[c] = [flow[c] EXCEPT ![e] = <<>>]
      /\ out' = out /\ left' = left /\ took' = took
  BY <1>1 DEF Types, Close, Goto
<1>5. ASSUME NEW p \in End  PROVE (Unsent(c, p) /\ Whole(c, p) /\ Received(c, p))'
  BY <1>1, <1>4, <1>5, Ends DEF Types, Link, Unsent, Whole, Received
<1>6. Progress(c)'
  BY <1>1, <1>4, Ends DEF Types, Link, Progress
<1> QED  BY <1>2, <1>3, <1>5, <1>6, OneConnection DEF Link

LEMMA ServerGoneInv ==
  ASSUME IInv, ServerGone, faults' \in 0 .. MaxFaults
  PROVE  IInv'
<1>1. Types'
  <2>1. <<>> \in Seq(Cell) /\ "closed" \in Point
    BY EmptySeq DEF Point
  <2> QED  BY <2>1 DEF IInv, Types, ServerGone, End
<1>2. ASSUME NEW c \in Conns  PROVE Link(c)'
  <2>1. Types /\ Link(c)
    BY DEF IInv
  <2>2. /\ pc'[c] = [pc[c] EXCEPT !["server"] = IF @ = "idle" THEN @ ELSE "closed"]
        /\ got'[c] = [got[c] EXCEPT !["server"] = <<>>]
        /\ flow'[c] = [flow[c] EXCEPT !["server"] = <<>>]
        /\ out' = out /\ left' = left /\ took' = took
    BY DEF ServerGone
  <2>3. /\ pc'[c]["client"] = pc[c]["client"] /\ got'[c]["client"] = got[c]["client"]
        /\ flow'[c]["client"] = flow[c]["client"]
        /\ pc'[c]["server"] = IF pc[c]["server"] = "idle" THEN "idle" ELSE "closed"
        /\ got'[c]["server"] = <<>> /\ flow'[c]["server"] = <<>>
    BY <2>1, <2>2, Ends DEF Types
  <2>4. (Unsent(c, "server") /\ Whole(c, "server") /\ Received(c, "server"))'
    BY <2>1, <2>2, <2>3, Ends DEF Link, Unsent, Whole, Received
  <2>5. (Unsent(c, "client") /\ Whole(c, "client") /\ Received(c, "client"))'
    <3>1. pc[c]["server"] = "idle" => flow[c]["server"] = <<>> /\ got[c]["server"] = <<>>
      BY <2>1 DEF Link, Progress
    <3>2. Unsent(c, "client") /\ Whole(c, "client") /\ Received(c, "client")
      BY <2>1, Ends DEF Link
    <3>3. CASE pc[c]["server"] = "idle"
      <4>1. /\ pc'[c]["server"] = pc[c]["server"] /\ got'[c]["server"] = got[c]["server"]
            /\ flow'[c]["server"] = flow[c]["server"]
        BY <2>3, <3>1, <3>3
      <4> QED  BY <2>2, <4>1, <3>2, Ends DEF Unsent, Whole, Received
    <3>4. CASE pc[c]["server"] # "idle"
      BY <2>2, <2>3, <3>2, <3>4, Ends DEF Unsent, Whole, Received
    <3> QED  BY <3>3, <3>4
  <2>6. Progress(c)'
    BY <2>1, <2>2, <2>3 DEF Link, Progress
  <2> QED  BY <2>4, <2>5, <2>6, Ends DEF Link
<1> QED  BY <1>1, <1>2 DEF IInv

\* A step that only moves an end to another point.
LEMMA MoveInv ==
  ASSUME IInv, NEW c \in Conns, NEW r \in [End -> Point],
         pc' = [pc EXCEPT ![c] = r],
         UNCHANGED <<out, left, flow, got, took, broken, cut, faults>>,
         \A e \in End : pc[c][e] = "closed" => r[e] = "closed",
         Progress(c)'
  PROVE  IInv'
<1>1. Types /\ Link(c)
  BY DEF IInv
<1>2. Types' /\ pc'[c] = r
  BY <1>1 DEF Types
<1>3. \A d \in Conns \ {c} : Same(d)
  BY <1>1 DEF Types, Same
<1>4. ASSUME NEW p \in End  PROVE (Unsent(c, p) /\ Whole(c, p) /\ Received(c, p))'
  BY <1>1, <1>2, <1>4, Ends DEF Link, Unsent, Whole, Received
<1> QED  BY <1>2, <1>3, <1>4, OneConnection DEF Link

\* A payload is handed to an end: its frame is what it has to write.
LEMMA HandInv ==
  ASSUME IInv, NEW c \in Conns, NEW e \in End, NEW p \in Payload, NEW to \in Point,
         out[c][e] = NoPayload,
         out' = [out EXCEPT ![c][e] = p],
         left' = [left EXCEPT ![c][e] = Frame(p)],
         pc' = [pc EXCEPT ![c][e] = to],
         UNCHANGED <<flow, got, took, broken, cut>>, faults' \in 0 .. MaxFaults,
         pc[c][e] # "closed", Progress(c)'
  PROVE  IInv'
<1>1. Types /\ Link(c)
  BY DEF IInv
<1>2. p # NoPayload /\ Frame(p) \in Seq(Cell)
  BY PayloadType, FrameProperties
<1>3. Types'
  BY <1>1, <1>2 DEF Types
<1>4. \A d \in Conns \ {c} : Same(d)
  BY <1>1 DEF Types, Same
<1>5. /\ pc'[c] = [pc[c] EXCEPT ![e] = to] /\ out'[c] = [out[c] EXCEPT ![e] = p]
      /\ left'[c] = [left[c] EXCEPT ![e] = Frame(p)]
      /\ flow' = flow /\ got' = got /\ took' = took
  BY <1>1 DEF Types
<1>6. (Unsent(c, e) /\ Whole(c, e) /\ Received(c, e))'
  <2>1. flow[c][Peer(e)] = <<>> /\ got[c][Peer(e)] = <<>> /\ took[c][Peer(e)] = NoPayload
    BY <1>1 DEF Link, Unsent
  <2>2. (<<>> \o <<>>) \o Frame(p) = Frame(p)
    <3>1. <<>> \o <<>> = <<>> /\ <<>> \o Frame(p) = Frame(p)
      BY <1>2, ConcatEmptySeq, EmptySeq
    <3> QED  BY <3>1
  <2>3. out'[c][e] = p /\ left'[c][e] = Frame(p)
    BY <1>1, <1>5 DEF Types
  <2> QED  BY <1>2, <1>5, <2>1, <2>2, <2>3 DEF Unsent, Whole, Received
<1>7. (Unsent(c, Peer(e)) /\ Whole(c, Peer(e)) /\ Received(c, Peer(e)))'
  BY <1>1, <1>5, Ends DEF Types, Link, Unsent, Whole, Received
<1>8. \A q \in End : q = e \/ q = Peer(e)
  BY Ends
<1> QED  BY <1>3, <1>4, <1>6, <1>7, <1>8, OneConnection DEF Link

LEMMA CellSeqs ==
  /\ \A s, t \in Seq(Cell) : s \o t \in Seq(Cell)
  /\ \A s, t, u \in Seq(Cell) : (s \o t) \o u = s \o (t \o u)
<1>1. \A s, t \in Seq(Cell) : s \o t \in Seq(Cell)
  BY ConcatProperties
<1>2. ASSUME NEW s \in Seq(Cell), NEW t \in Seq(Cell), NEW u \in Seq(Cell)
      PROVE  (s \o t) \o u = s \o (t \o u)
  BY ConcatAssociative
<1> QED  BY <1>1, <1>2

LEMMA Cut ==
  ASSUME NEW f \in Seq(Cell), NEW k \in 1 .. Len(f)
  PROVE  /\ SubSeq(f, 1, k) \in Seq(Cell) /\ SubSeq(f, k + 1, Len(f)) \in Seq(Cell)
         /\ SubSeq(f, 1, k) \o SubSeq(f, k + 1, Len(f)) = f
<1>1. Len(f) \in Nat /\ 1 \in 1 .. Len(f) + 1 /\ k \in 1 - 1 .. Len(f)
  BY LenProperties
<1>2. \A i \in 1 .. k : f[i] \in Cell
  BY <1>1, ElementOfSeq
<1>3. \A i \in k + 1 .. Len(f) : f[i] \in Cell
  BY <1>1, ElementOfSeq
<1>4. SubSeq(f, 1, k) \in Seq(Cell)
  BY <1>1, <1>2, SubSeqProperties
<1>5. SubSeq(f, k + 1, Len(f)) \in Seq(Cell)
  BY <1>1, <1>3, SubSeqProperties
<1>6. SubSeq(f, 1, k) \o SubSeq(f, k + 1, Len(f)) = SubSeq(f, 1, Len(f))
  BY <1>1, ConcatAdjacentSubSeq
<1>7. SubSeq(f, 1, Len(f)) = f
  BY SubSeqFull
<1> QED  BY <1>4, <1>5, <1>6, <1>7

LEMMA writenInv ==
  ASSUME IInv, NEW c \in Conns, NEW e \in End, writen(c, e)
  PROVE  IInv'
<1> DEFINE d == Peer(e)
<1>1. Types /\ Link(c) /\ d \in End /\ d # e /\ Peer(d) = e
  BY Ends DEF IInv
<1>2. PICK k \in 1 .. Len(left[c][e]) :
        /\ left' = [left EXCEPT ![c][e] = SubSeq(@, k + 1, Len(left[c][e]))]
        /\ IF k = Len(left[c][e]) THEN Goto(c, e, "sent") ELSE UNCHANGED pc
        /\ \/ /\ ~Closed(c, d)
              /\ flow' = [flow EXCEPT ![c][d] = @ \o SubSeq(left[c][e], 1, k)]
              /\ broken' = broken
           \/ /\ Closed(c, d)
              /\ broken' \in {broken, broken \cup {c}}
              /\ flow' = flow
  BY DEF writen
<1>3. /\ pc[c][e] = "write"
      /\ out' = out /\ got' = got /\ took' = took /\ cut' = cut /\ faults' = faults
  BY DEF writen
<1>4. /\ left[c][e] \in Seq(Cell) /\ flow[c][d] \in Seq(Cell) /\ got[c][d] \in Seq(Cell)
  BY <1>1 DEF Types
<1>4a. PICK a \in Seq(Cell), b \in Seq(Cell) :
        /\ a = SubSeq(left[c][e], 1, k) /\ b = SubSeq(left[c][e], k + 1, Len(left[c][e]))
        /\ a \o b = left[c][e]
  BY <1>4, Cut
<1>5. out[c][e] # NoPayload
  <2>1. left[c][e] # <<>>
    BY <1>2, <1>4
  <2> QED  BY <2>1, <1>1 DEF Link, Unsent
<1>6. /\ flow[c][d] \o a \in Seq(Cell)
      /\ (got[c][d] \o (flow[c][d] \o a)) \o b = (got[c][d] \o flow[c][d]) \o left[c][e]
  <2>1. PICK g \in Seq(Cell), f \in Seq(Cell), l \in Seq(Cell) :
          g = got[c][d] /\ f = flow[c][d] /\ l = left[c][e]
    BY <1>4
  <2>2. a \o b = l
    BY <1>4a, <2>1
  <2>3. f \o a \in Seq(Cell) /\ (g \o (f \o a)) \o b = (g \o f) \o l
    <3>1. g \o f \in Seq(Cell) /\ f \o a \in Seq(Cell) /\ (g \o f) \o a = g \o (f \o a)
      BY CellSeqs
    <3>2. ((g \o f) \o a) \o b = (g \o f) \o (a \o b)
      BY <3>1, CellSeqs
    <3> QED  BY <2>2, <3>1, <3>2
  <2> QED  BY <2>1, <2>3
<1>7. left' = [left EXCEPT ![c][e] = b] /\ (flow' = [flow EXCEPT ![c][d] = flow[c][d] \o a]
      \/ flow' = flow)
  BY <1>1, <1>2, <1>4a DEF Types
<1> HIDE DEF d
<1>8. Types'
  <2>1. pc' \in [Conns -> [End -> Point]]
    <3>1. pc' = pc \/ pc' = [pc EXCEPT ![c][e] = "sent"]
      BY <1>2 DEF Goto
    <3>2. pc \in [Conns -> [End -> Point]] /\ "sent" \in Point
      BY <1>1 DEF Types, Point
    <3> QED  BY <3>1, <3>2
  <2>2. left' \in [Conns -> [End -> Seq(Cell)]]
    BY <1>1, <1>4, <1>7 DEF Types
  <2>3. flow' \in [Conns -> [End -> Seq(Cell)]]
    <3>1. flow \in [Conns -> [End -> Seq(Cell)]] /\ d \in End
      BY <1>1 DEF Types
    <3>2. CASE flow' = flow
      BY <3>1, <3>2
    <3>3. CASE flow' = [flow EXCEPT ![c][d] = flow[c][d] \o a]
      BY <1>6, <3>1, <3>3
    <3> QED  BY <1>7, <3>2, <3>3
  <2>4. broken' \subseteq Conns
    BY <1>1, <1>2 DEF Types
  <2> QED  BY <1>1, <1>3, <2>1, <2>2, <2>3, <2>4 DEF Types
<1>9. \A x \in Conns \ {c} : Same(x)
  BY <1>1, <1>2, <1>3, <1>7 DEF Types, Same, Goto
<1>10. /\ left'[c] = [left[c] EXCEPT ![e] = b]
       /\ pc'[c] \in {pc[c], [pc[c] EXCEPT ![e] = "sent"]}
       /\ \/ ~Closed(c, d) /\ flow'[c] = [flow[c] EXCEPT ![d] = flow[c][d] \o a]
          \/ Closed(c, d) /\ flow'[c] = flow[c]
  BY <1>1, <1>2, <1>7, <1>4a DEF Types, Goto, d
<1>11. (Unsent(c, e) /\ Whole(c, e) /\ Received(c, e))'
  <2>1. Whole(c, e) /\ Received(c, e) /\ d = Peer(e)
    BY <1>1 DEF Link, d
  <2>2. Whole(c, e)'
    <3>1. CASE ~Closed(c, d) /\ flow'[c] = [flow[c] EXCEPT ![d] = flow[c][d] \o a]
      <4>1. flow'[c][d] = flow[c][d] \o a /\ left'[c][e] = b
        BY <1>1, <1>10, <3>1 DEF Types
      <4> QED  BY <1>3, <1>5, <1>6, <2>1, <3>1, <4>1 DEF Whole, Closed
    <3>2. CASE Closed(c, d)
      BY <1>1, <1>10, <2>1, <3>2 DEF Whole, Closed, Types
    <3> QED  BY <1>10, <3>1, <3>2
  <2> QED  BY <1>3, <1>5, <2>1, <2>2 DEF Unsent, Received
<1>12. (Unsent(c, d) /\ Whole(c, d) /\ Received(c, d))'
  <2>1. Unsent(c, d) /\ Whole(c, d) /\ Received(c, d)
    BY <1>1 DEF Link
  <2>2. left'[c][d] = left[c][d] /\ flow'[c][e] = flow[c][e] /\ (pc'[c][e] # "closed")
    BY <1>1, <1>3, <1>10 DEF Types
  <2> QED  BY <1>1, <1>3, <2>1, <2>2 DEF Unsent, Whole, Received
<1>13. Progress(c)'
  <2>1. Progress(c)
    BY <1>1 DEF Link
  <2>2. CASE e = "client"
    BY <1>1, <1>3, <1>10, <2>1, <2>2, Ends DEF Types, Progress, d
  <2>3. CASE e = "server"
    BY <1>1, <1>3, <1>10, <2>1, <2>3, Ends DEF Types, Progress, d
  <2> QED  BY <2>2, <2>3, Ends
<1>14. \A p \in End : p = e \/ p = d
  BY Ends DEF d
<1> QED  BY <1>8, <1>9, <1>11, <1>12, <1>13, <1>14, OneConnection DEF Link

LEMMA readnInv ==
  ASSUME IInv, NEW c \in Conns, NEW e \in End, readn(c, e)
  PROVE  /\ IInv'
         /\ \/ took' = took
            \/ /\ out[c][Peer(e)] # NoPayload
               /\ took' = [took EXCEPT ![c][e] = out[c][Peer(e)]]
<1> DEFINE d == Peer(e)
           f == flow[c][e]
<1>1. Types /\ Link(c) /\ d \in End /\ d # e /\ Peer(d) = e
  BY Ends DEF IInv
<1>2. PICK k \in 1 .. Len(f) :
        LET g == got[c][e] \o SubSeq(f, 1, k)
        IN  /\ flow' = [flow EXCEPT ![c][e] = SubSeq(@, k + 1, Len(@))]
            /\ got' = [got EXCEPT ![c][e] = g]
            /\ IF Complete(g)
               THEN /\ took' = [took EXCEPT ![c][e] = Body(g)]
                    /\ Goto(c, e, "have")
               ELSE UNCHANGED <<pc, took>>
  BY DEF readn
<1>3. /\ pc[c][e] = "read"
      /\ out' = out /\ left' = left /\ broken' = broken /\ cut' = cut /\ faults' = faults
  BY DEF readn
<1>4. /\ f \in Seq(Cell) /\ got[c][e] \in Seq(Cell) /\ left[c][d] \in Seq(Cell)
  BY <1>1 DEF Types
<1>5. PICK a \in Seq(Cell), b \in Seq(Cell) :
        a = SubSeq(f, 1, k) /\ b = SubSeq(f, k + 1, Len(f)) /\ a \o b = f
  BY <1>4, Cut
<1>6. PICK g \in Seq(Cell) : g = got[c][e] \o a
  BY <1>4, CellSeqs
<1>7. /\ flow' = [flow EXCEPT ![c][e] = b] /\ got' = [got EXCEPT ![c][e] = g]
      /\ IF Complete(g)
         THEN /\ took' = [took EXCEPT ![c][e] = Body(g)]
              /\ Goto(c, e, "have")
         ELSE pc' = pc /\ took' = took
  BY <1>1, <1>2, <1>5, <1>6 DEF Types
<1>8. out[c][d] # NoPayload /\ out[c][d] \in Payload
  <2>1. f # <<>>
    BY <1>2, <1>4
  <2> QED  BY <2>1, <1>1 DEF Link, Unsent, Types
<1>9. /\ (g \o b) \o left[c][d] = Frame(out[c][d])
      /\ g \o (b \o left[c][d]) = Frame(out[c][d]) /\ b \o left[c][d] \in Seq(Cell)
  <2>1. PICK h \in Seq(Cell), l \in Seq(Cell) : h = got[c][e] /\ l = left[c][d]
    BY <1>4
  <2>2. (h \o f) \o l = Frame(out[c][d])
    BY <1>1, <1>3, <1>8, <2>1 DEF Link, Whole
  <2>3. g \o b = h \o (a \o b)
    <3>1. (h \o a) \o b = h \o (a \o b)
      BY CellSeqs
    <3> QED  BY <1>6, <2>1, <3>1
  <2>4. (g \o b) \o l = Frame(out[c][d])
    BY <1>5, <2>2, <2>3
  <2>5. (g \o b) \o l = g \o (b \o l) /\ b \o l \in Seq(Cell)
    BY CellSeqs
  <2> QED  BY <2>1, <2>4, <2>5
<1>10. Complete(g) => Body(g) = out[c][d]
  BY <1>8, <1>9, CompleteIsWhole
<1>11. /\ \/ /\ took' = [took EXCEPT ![c][e] = out[c][d]]
             /\ pc' = [pc EXCEPT ![c][e] = "have"]
          \/ pc' = pc /\ took' = took
  BY <1>7, <1>10 DEF Goto
<1> HIDE DEF d, f
<1>12. Types'
  <2>1. pc' \in [Conns -> [End -> Point]] /\ took' \in [Conns -> [End -> Payload \cup {NoPayload}]]
    <3>1. "have" \in Point /\ pc \in [Conns -> [End -> Point]]
          /\ took \in [Conns -> [End -> Payload \cup {NoPayload}]]
      BY <1>1 DEF Types, Point
    <3>2. CASE pc' = pc /\ took' = took
      BY <3>1, <3>2
    <3>3. CASE /\ took' = [took EXCEPT ![c][e] = out[c][d]]
               /\ pc' = [pc EXCEPT ![c][e] = "have"]
      BY <1>8, <3>1, <3>3
    <3> QED  BY <1>11, <3>2, <3>3
  <2>2. flow' \in [Conns -> [End -> Seq(Cell)]] /\ got' \in [Conns -> [End -> Seq(Cell)]]
    BY <1>1, <1>7 DEF Types
  <2> QED  BY <1>1, <1>3, <2>1, <2>2 DEF Types
<1>13. \A x \in Conns \ {c} : Same(x)
  BY <1>1, <1>3, <1>7, <1>11 DEF Types, Same
<1>14. /\ flow'[c] = [flow[c] EXCEPT ![e] = b] /\ got'[c] = [got[c] EXCEPT ![e] = g]
       /\ \/ /\ took'[c] = [took[c] EXCEPT ![e] = out[c][d]]
             /\ pc'[c] = [pc[c] EXCEPT ![e] = "have"]
          \/ pc'[c] = pc[c] /\ took'[c] = took[c]
  BY <1>1, <1>7, <1>11 DEF Types
<1>15. (Unsent(c, d) /\ Whole(c, d) /\ Received(c, d))'
  <2>1. Received(c, d)
    BY <1>1 DEF Link
  <2>2. flow'[c][e] = b /\ got'[c][e] = g /\ took'[c][e] \in {out[c][d], took[c][e]}
    BY <1>1, <1>14 DEF Types
  <2> QED  BY <1>1, <1>3, <1>8, <1>9, <2>1, <2>2 DEF Unsent, Whole, Received
<1>16. (Unsent(c, e) /\ Whole(c, e) /\ Received(c, e))'
  <2>1. Unsent(c, e) /\ Whole(c, e) /\ Received(c, e) /\ Peer(e) = d
    BY <1>1 DEF Link, d
  <2>2. /\ flow'[c][d] = flow[c][d] /\ got'[c][d] = got[c][d] /\ took'[c][d] = took[c][d]
        /\ pc'[c][d] = pc[c][d]
    BY <1>1, <1>14 DEF Types
  <2> QED  BY <1>3, <2>1, <2>2 DEF Unsent, Whole, Received
<1>17. Progress(c)'
  <2>1. Progress(c)
    BY <1>1 DEF Link
  <2>2. CASE e = "client"
    BY <1>1, <1>3, <1>8, <1>14, <2>1, <2>2, Ends DEF Types, Progress, d
  <2>3. CASE e = "server"
    BY <1>1, <1>3, <1>8, <1>14, <2>1, <2>3, Ends DEF Types, Progress, d
  <2> QED  BY <2>2, <2>3, Ends
<1>18. \A p \in End : p = e \/ p = d
  BY Ends DEF d
<1>19. IInv'
  BY <1>12, <1>13, <1>15, <1>16, <1>17, <1>18, OneConnection DEF Link
<1> QED  BY <1>8, <1>11, <1>19 DEF d

LEMMA NextInv == IInv /\ [FramingNext]_framingVars => IInv'
<1> SUFFICES ASSUME IInv, [FramingNext]_framingVars  PROVE IInv'
  OBVIOUS
<1>0. Types /\ (\A c \in Conns : Link(c) /\ Progress(c)) /\ faults \in 0 .. MaxFaults
  BY DEF IInv, Link, Types
<1>0a. UNCHANGED faults \/ Fault => faults' \in 0 .. MaxFaults
  BY <1>0, SizeAssumption DEF Fault
<1>1. ASSUME NEW c \in Conns, NEW p \in Payload, Ask(c, p)  PROVE IInv'
  <2>1. pc[c]["client"] = "idle" /\ out[c]["client"] = NoPayload /\ "connect" \in Point
    BY <1>0, <1>1 DEF Ask, Progress, Point
  <2>2. Progress(c)'
    BY <1>0, <1>1, <2>1, Ends DEF Ask, Goto, Progress, Types
  <2> QED  BY <1>0a, <1>1, <2>1, <2>2, Ends, HandInv DEF Ask, Goto
<1>2. ASSUME NEW c \in Conns, NEW p \in Payload, Reply(c, p), UNCHANGED faults \/ Fault
      PROVE  IInv'
  <2>1. pc[c]["server"] = "have" /\ out[c]["server"] = NoPayload /\ "write" \in Point
    BY <1>0, <1>2 DEF Reply, Progress, Point
  <2>2. Progress(c)'
    BY <1>0, <1>2, <2>1, Ends DEF Reply, Goto, Progress, Types
  <2> QED  BY <1>0a, <1>2, <2>1, <2>2, Ends, HandInv DEF Reply, Goto
<1>3. ASSUME NEW c \in Conns, Connected(c)  PROVE IInv'
  <2> DEFINE r == [pc[c] EXCEPT !["client"] = "write", !["server"] = "open"]
  <2>1. pc' = [pc EXCEPT ![c] = r] /\ r \in [End -> Point]
    BY <1>0, <1>3, Ends DEF Connected, Types, Point
  <2>2. \A e \in End : pc[c][e] = "closed" => r[e] = "closed"
    BY <1>0, <1>3, Ends DEF Connected, Progress, Types
  <2>3. Progress(c)'
    BY <1>0, <1>3, Ends DEF Connected, Progress, Types
  <2> HIDE DEF r
  <2> QED  BY <1>3, <2>1, <2>2, <2>3, MoveInv DEF Connected
<1>4. ASSUME NEW c \in Conns, ConnectFails(c)  PROVE IInv'
  <2>1. PICK r \in [End -> Point] : pc' = [pc EXCEPT ![c] = r]
                                  /\ r["client"] = "closed" /\ r["server"] \in {pc[c]["server"],
                                         "open"}
    BY <1>0, <1>4, Ends DEF ConnectFails, Goto, Types, Point
  <2>2. \A e \in End : pc[c][e] = "closed" => r[e] = "closed"
    BY <1>0, <1>4, <2>1, Ends DEF ConnectFails, Progress, Types
  <2>3. Progress(c)'
    BY <1>0, <1>4, <2>1, Ends DEF ConnectFails, Progress, Types
  <2> QED  BY <1>4, <2>1, <2>2, <2>3, MoveInv DEF ConnectFails
<1>5. ASSUME NEW c \in Conns, Await(c)  PROVE IInv'
  <2> DEFINE r == [pc[c] EXCEPT !["client"] = "read"]
  <2>1. pc' = [pc EXCEPT ![c] = r] /\ r \in [End -> Point]
    BY <1>0, <1>5, Ends DEF Await, Goto, Types, Point
  <2>2. \A e \in End : pc[c][e] = "closed" => r[e] = "closed"
    BY <1>0, <1>5, Ends DEF Await, Types
  <2>3. Progress(c)'
    BY <1>0, <1>5, Ends DEF Await, Goto, Progress, Types
  <2> HIDE DEF r
  <2> QED  BY <1>5, <2>1, <2>2, <2>3, MoveInv DEF Await
<1>6. ASSUME NEW c \in Conns, Begin(c)  PROVE IInv'
  <2> DEFINE r == [pc[c] EXCEPT !["server"] = "read"]
  <2>1. pc' = [pc EXCEPT ![c] = r] /\ r \in [End -> Point]
    BY <1>0, <1>6, Ends DEF Begin, Goto, Types, Point
  <2>2. \A e \in End : pc[c][e] = "closed" => r[e] = "closed"
    BY <1>0, <1>6, Ends DEF Begin, Types
  <2>3. Progress(c)'
    BY <1>0, <1>6, Ends DEF Begin, Goto, Progress, Types
  <2> HIDE DEF r
  <2> QED  BY <1>6, <2>1, <2>2, <2>3, MoveInv DEF Begin
<1>7. ASSUME NEW c \in Conns, NEW e \in End, Transfer(c, e) \/ Disconnect(c, e)  PROVE IInv'
  <2>1. CASE writen(c, e)
    BY <2>1, writenInv
  <2>2. CASE readn(c, e)
    BY <2>2, readnInv
  <2>3. CASE writenFails(c, e) \/ readnFails(c, e) \/ Disconnect(c, e)
    BY <1>0, <2>3, CloseInv DEF writenFails, readnFails, Disconnect
  <2> QED  BY <1>7, <2>1, <2>2, <2>3 DEF Transfer
<1>8. ASSUME NEW c \in Conns, Timeout(c)  PROVE IInv'
  BY <1>0, <1>8, Ends, CloseInv DEF Timeout
<1>10. ASSUME NEW c \in Conns, ClientDies(c)  PROVE IInv'
  BY <1>0a, <1>10, Ends, CloseInv DEF ClientDies
<1>11. CASE ServerDies
  BY <1>0a, <1>11, ServerGoneInv DEF ServerDies
<1>12. ASSUME NEW c \in Conns, BrokenPipe(c) \/ HandlerCrashes(c)  PROVE IInv'
  BY <1>0, <1>12, ServerGoneInv DEF BrokenPipe, HandlerCrashes
<1>13. ASSUME UNCHANGED <<pc, out, left, flow, got, took>>, Types'  PROVE IInv'
  <2>1. \A c \in Conns : Same(c)
    BY <1>13 DEF Same
  <2>2. ASSUME NEW c \in Conns  PROVE IInv'
    <3>1. Link(c)
      BY DEF IInv
    <3>2. Link(c)'
      BY <1>13, <3>1 DEF Link, Unsent, Whole, Received, Progress
    <3> QED  BY <1>13, <2>1, <3>2, OneConnection
  <2> QED  BY <1>13, <2>2 DEF IInv
<1>14. ASSUME NEW c \in Conns, GoSilent(c)  PROVE IInv'
  <2>1. Types'
    BY <1>0, <1>0a, <1>14 DEF GoSilent, Types
  <2> QED  BY <1>13, <1>14, <2>1 DEF GoSilent
<1>15. CASE UNCHANGED framingVars
  <2>1. Types'
    BY <1>0, <1>15 DEF framingVars, Types
  <2> QED  BY <1>13, <1>15, <2>1 DEF framingVars
<1> QED
  BY <1>1, <1>2, <1>3, <1>4, <1>5, <1>6, <1>7, <1>8, <1>10, <1>11, <1>12, <1>14, <1>15
  DEF FramingNext, Failure

\* TcpSocket.cpp: at every step of a connection, what was read, is under way and is left
\* to write are together the frame of what was given to send.
THEOREM FramingSpec_IInv == FramingSpec => []IInv
  BY InitInv, NextInv, PTL DEF FramingSpec

LEMMA IntactFrames == IInv => FrameIntact
<1> SUFFICES ASSUME IInv, NEW c \in Conns, NEW e \in End
             PROVE  took[c][e] \in {NoPayload, out[c][Peer(e)]}
  BY DEF FrameIntact
<1>1. Peer(e) \in End /\ Peer(Peer(e)) = e
  BY Ends
<1>2. Received(c, Peer(e))
  BY <1>1 DEF IInv, Link
<1> QED  BY <1>1, <1>2 DEF Received

\* TcpSocket.cpp, sendMsg and recvMsg: for payloads of any content and length, any
\* buffer and any way of cutting them up, recvMsg returns what sendMsg was given or
\* nothing.
THEOREM FramingSpec_FrameIntact == FramingSpec => []FrameIntact
  BY IntactFrames, FramingSpec_IInv, PTL
-----------------------------------------------------------------------------
(* The exchange.                                                           *)

AbsAsked == [c \in Conns |-> out[c]["client"]]
AbsSeen == [c \in Conns |-> took[c]["server"]]
AbsAnswered == [c \in Conns |-> out[c]["server"]]
AbsTold == [c \in Conns |-> took[c]["client"]]

\* A connection's end is handed its payload.
LEMMA HandStep ==
  ASSUME Types, NEW c \in Conns, NEW e \in End, NEW p \in Payload,
         out[c][e] = NoPayload, out' = [out EXCEPT ![c][e] = p], took' = took
  PROVE  /\ e = "client" => Abstract!Ask(c)
         /\ e = "server" /\ took[c]["server"] # NoPayload => Abstract!Answer(c)
<1>1. p # NoPayload
  BY PayloadType
<1>2. CASE e = "client"
  <2>1. /\ AbsAsked[c] = NoPayload /\ AbsAsked'[c] = p /\ AbsAsked' = [AbsAsked EXCEPT ![c] = p]
        /\ AbsSeen' = AbsSeen /\ AbsAnswered' = AbsAnswered /\ AbsTold' = AbsTold
    BY <1>2, Ends DEF Types, AbsAsked, AbsSeen, AbsAnswered, AbsTold
  <2> QED  BY <1>1, <1>2, <2>1 DEF Abstract!Ask, Abstract!Set, AbsAsked, AbsSeen, AbsAnswered,
      AbsTold
<1>3. CASE e = "server"
  <2>1. /\ AbsAnswered[c] = NoPayload /\ AbsAnswered'[c] = p
               /\ AbsAnswered' = [AbsAnswered EXCEPT ![c] = p]
        /\ AbsSeen' = AbsSeen /\ AbsAsked' = AbsAsked /\ AbsTold' = AbsTold
               /\ AbsSeen[c] = took[c]["server"]
    BY <1>3, Ends DEF Types, AbsAsked, AbsSeen, AbsAnswered, AbsTold
  <2> QED
    BY <1>1, <1>3, <2>1 DEF Abstract!Answer, Abstract!Set, AbsAsked, AbsSeen, AbsAnswered, AbsTold
<1> QED  BY <1>2, <1>3, Ends

\* It takes its peer's.
LEMMA TakeStep ==
  ASSUME Types, NEW c \in Conns, NEW e \in End, out[c][Peer(e)] # NoPayload,
         took[c][e] = NoPayload, took' = [took EXCEPT ![c][e] = out[c][Peer(e)]], out' = out
  PROVE  Abstract!See(c) \/ Abstract!Tell(c)
<1>1. CASE e = "server"
  <2>1. /\ AbsSeen[c] = NoPayload /\ AbsSeen'[c] = AbsAsked[c] /\ AbsAsked[c] # NoPayload
        /\ AbsSeen' = [AbsSeen EXCEPT ![c] = AbsAsked[c]]
        /\ AbsAsked' = AbsAsked /\ AbsAnswered' = AbsAnswered /\ AbsTold' = AbsTold
    BY <1>1, Ends DEF Types, AbsAsked, AbsSeen, AbsAnswered, AbsTold
  <2> QED  BY <2>1 DEF Abstract!See, Abstract!Set, AbsAsked, AbsSeen, AbsAnswered, AbsTold
<1>2. CASE e = "client"
  <2>1. /\ AbsTold[c] = NoPayload /\ AbsTold'[c] = AbsAnswered[c] /\ AbsAnswered[c] # NoPayload
        /\ AbsTold' = [AbsTold EXCEPT ![c] = AbsAnswered[c]]
        /\ AbsAsked' = AbsAsked /\ AbsAnswered' = AbsAnswered /\ AbsSeen' = AbsSeen
    BY <1>2, Ends DEF Types, AbsAsked, AbsSeen, AbsAnswered, AbsTold
  <2> QED  BY <2>1 DEF Abstract!Tell, Abstract!Set, AbsAsked, AbsSeen, AbsAnswered, AbsTold
<1> QED  BY <1>1, <1>2, Ends

\* Every step of the connections is a step of the exchange, or none.
LEMMA NextExchange == IInv /\ [FramingNext]_framingVars => [Abstract!Next]_(Abstract!vars)
<1> SUFFICES ASSUME IInv, [FramingNext]_framingVars
             PROVE  Abstract!Next \/ UNCHANGED Abstract!vars
  OBVIOUS
<1>0. Types /\ \A c \in Conns : Progress(c)
  BY DEF IInv, Link
<1>1. ASSUME out' = out, took' = took  PROVE UNCHANGED Abstract!vars
  BY <1>1 DEF Abstract!vars
<1>2. ASSUME NEW c \in Conns, NEW p \in Payload, Ask(c, p)  PROVE Abstract!Next
  <2>1. out[c]["client"] = NoPayload
    BY <1>0, <1>2 DEF Ask, Progress
  <2>2. Abstract!Ask(c)
    BY <1>0, <1>2, <2>1, Ends, HandStep DEF Ask
  <2> QED  BY <2>2 DEF Abstract!Next
<1>3. ASSUME NEW c \in Conns, NEW p \in Payload, Reply(c, p)  PROVE Abstract!Next
  <2>1. out[c]["server"] = NoPayload /\ took[c]["server"] # NoPayload
    BY <1>0, <1>3, Ends DEF Reply, Progress
  <2>2. Abstract!Answer(c)
    BY <1>0, <1>3, <2>1, Ends, HandStep DEF Reply
  <2> QED  BY <2>2 DEF Abstract!Next
<1>4. ASSUME NEW c \in Conns, NEW e \in End, readn(c, e)
      PROVE  Abstract!Next \/ UNCHANGED Abstract!vars
  <2>1. out' = out /\ took[c][e] = NoPayload
    BY <1>0, <1>4, Ends DEF readn, Progress
  <2>2. CASE took' = took
    BY <1>1, <2>1, <2>2
  <2>3. CASE /\ out[c][Peer(e)] # NoPayload
             /\ took' = [took EXCEPT ![c][e] = out[c][Peer(e)]]
    BY <1>0, <2>1, <2>3, TakeStep DEF Abstract!Next
  <2> QED  BY <1>4, <2>2, <2>3, readnInv
<1>5. ASSUME NEW c \in Conns,
             \/ Connected(c) \/ ConnectFails(c) \/ Await(c) \/ Timeout(c) \/ Begin(c)
             \/ \E e \in End : \/ writen(c, e) \/ writenFails(c, e) \/ readnFails(c, e)
                              \/ Disconnect(c, e)
      PROVE  out' = out /\ took' = took
  BY <1>5 DEF Connected, ConnectFails, Await, Timeout, Begin, writen, writenFails, readnFails,
              Disconnect, Close
<1>6. ASSUME Failure  PROVE out' = out /\ took' = took
  BY <1>6 DEF Failure, ServerDies, ClientDies, BrokenPipe, HandlerCrashes, GoSilent,
              ServerGone, Close
<1>7. CASE UNCHANGED framingVars
  BY <1>1, <1>7 DEF framingVars
<1> QED
  BY <1>1, <1>2, <1>3, <1>4, <1>5, <1>6, <1>7 DEF FramingNext, Transfer

\* ServerOP.cpp, handleClientFd: whatever the network does to a connection, the server
\* sees the client's request once and as it was asked, and the client is told the
\* response to its own request or nothing.
THEOREM FramingSpec_RequestReply == FramingSpec => ImplementsRequestReply
<1>1. FramingInit => Abstract!Init
  BY Ends DEF FramingInit, Per, Abstract!Init
<1> QED
  BY <1>1, NextExchange, FramingSpec_IInv, PTL
  DEF ImplementsRequestReply, Abstract!Spec, FramingSpec
-----------------------------------------------------------------------------
(* How a written message is read back.                                     *)

\* A description of fields: no two have one name.
Fields(fields) ==
  /\ Len(fields) \in Nat /\ DOMAIN fields = 1 .. Len(fields)
  /\ \A i \in 1 .. Len(fields) :
       /\ fields[i].name \in Name
       /\ fields[i] \in {Text(fields[i].name), Number(fields[i].name)}
  /\ \A i, j \in 1 .. Len(fields) : fields[i].name = fields[j].name => i = j

\* The text fields up to the k-th are UTF-8.
Utf8To(fields, m, k) == \A j \in 1 .. k : fields[j].text => IsUtf8(m[fields[j].name])

Plain(fields, m) == Utf8To(fields, m, Len(fields))

\* s has the fields of m, and after them what is in other fields.
Starts(s, fields, m) ==
  /\ Len(s) \in Nat /\ Len(fields) <= Len(s)
  /\ \A i \in 1 .. Len(fields) :
       s[i] = IF m[fields[i].name] = Default(fields[i]) THEN <<>>
              ELSE <<fields[i].name, m[fields[i].name]>>
  /\ \A i \in Len(fields) + 1 .. Len(s) : s[i] # <<>> /\ s[i][1] \notin Names(fields)

\* A message has the fields, with their types.
Typed(fields, m) ==
  /\ m = [n \in Names(fields) |-> m[n]]
  /\ \A i \in 1 .. Len(fields) :
       IF fields[i].text THEN m[fields[i].name] \in Texts ELSE m[fields[i].name] \in Nat

LEMMA MaxOfOne == ASSUME NEW i \in Int  PROVE Max({i}) = i
  BY DEF Max

LEMMA FieldsFacts ==
  ASSUME NEW fields, Fields(fields)
  PROVE  /\ Len(fields) \in Nat /\ DOMAIN fields = 1 .. Len(fields)
         /\ \A i \in 1 .. Len(fields) :
              /\ fields[i].name \in Names(fields) /\ fields[i].name \in Name
              /\ fields[i].text <=> Text(fields[i].name) \in ToSet(fields)
              /\ fields[i] = IF fields[i].text THEN Text(fields[i].name) ELSE Number(fields[i].name)
         /\ \A x : Text(x) \in ToSet(fields) => x \in Names(fields)
<1>1. Len(fields) \in Nat /\ DOMAIN fields = 1 .. Len(fields)
  BY DEF Fields
<1>2. ASSUME NEW x, Text(x) \in ToSet(fields)  PROVE x \in Names(fields)
  <2>1. PICK j \in 1 .. Len(fields) : fields[j] = Text(x)
    BY <1>1, <1>2 DEF ToSet
  <2>2. fields[j].name = x
    BY <2>1 DEF Text
  <2> QED  BY <2>2 DEF Names
<1>3. ASSUME NEW i \in 1 .. Len(fields)
      PROVE  fields[i] = IF fields[i].text THEN Text(fields[i].name) ELSE Number(fields[i].name)
  <2>1. CASE fields[i] = Text(fields[i].name)
    <3>1. fields[i].text = TRUE
      BY <2>1 DEF Text
    <3> QED  BY <2>1, <3>1
  <2>2. CASE fields[i] = Number(fields[i].name)
    <3>1. fields[i].text = FALSE
      BY <2>2 DEF Number
    <3> QED  BY <2>2, <3>1
  <2> QED  BY <1>3, <2>1, <2>2 DEF Fields
<1>4. ASSUME NEW i \in 1 .. Len(fields)
      PROVE  fields[i].text <=> Text(fields[i].name) \in ToSet(fields)
  <2>1. fields[i].text => Text(fields[i].name) \in ToSet(fields)
    BY <1>1, <1>3, <1>4 DEF ToSet
  <2>2. ASSUME Text(fields[i].name) \in ToSet(fields)  PROVE fields[i].text
    <3>1. PICK j \in 1 .. Len(fields) : fields[j] = Text(fields[i].name)
      BY <1>1, <2>2 DEF ToSet
    <3>2. fields[j].name = fields[i].name /\ fields[j].text
      BY <3>1 DEF Text
    <3> QED  BY <1>4, <3>1, <3>2 DEF Fields
  <2> QED  BY <2>1, <2>2
<1> QED  BY <1>1, <1>2, <1>3, <1>4 DEF Names, Fields

LEMMA PieceParts == ASSUME NEW a, NEW b, NEW p, p = <<a, b>>
                    PROVE  p # <<>> /\ p[1] = a /\ p[2] = b
  OBVIOUS

LEMMA EmitStarts ==
  ASSUME NEW fields, Fields(fields), NEW m
  PROVE  Starts(Emit(fields, m), fields, m) /\ Len(Emit(fields, m)) = Len(fields)
<1>1. Len(fields) \in Nat
  BY FieldsFacts
<1>2. Len(Emit(fields, m)) = Len(fields) /\ DOMAIN Emit(fields, m) = 1 .. Len(fields)
  BY <1>1 DEF Emit
<1>3. ASSUME NEW i \in 1 .. Len(fields)
      PROVE  Emit(fields, m)[i] = IF m[fields[i].name] = Default(fields[i]) THEN <<>>
                                  ELSE <<fields[i].name, m[fields[i].name]>>
  BY <1>3 DEF Emit
<1> QED  BY <1>1, <1>2, <1>3 DEF Starts

\* A piece that is there has the field's name and value.
LEMMA PieceOf ==
  ASSUME NEW fields, Fields(fields), NEW m, NEW s, Starts(s, fields, m),
         NEW i \in 1 .. Len(fields)
  PROVE  /\ s[i] # <<>> <=> m[fields[i].name] # Default(fields[i])
         /\ s[i] # <<>> => s[i][1] = fields[i].name /\ s[i][2] = m[fields[i].name]
<1>1. CASE m[fields[i].name] = Default(fields[i])
  BY <1>1 DEF Starts
<1>2. CASE m[fields[i].name] # Default(fields[i])
  <2>1. PICK a, b : a = fields[i].name /\ b = m[fields[i].name]
    OBVIOUS
  <2>2. s[i] = <<a, b>>
    BY <1>2, <2>1 DEF Starts
  <2> QED  BY <1>2, <2>1, <2>2, PieceParts
<1> QED  BY <1>1, <1>2

\* A field is read as it was written when the texts before it are UTF-8, and is else
\* read so or not at all.
LEMMA ScanValue ==
  ASSUME NEW fields, Fields(fields), NEW m, NEW s, Starts(s, fields, m),
         NEW k \in 1 .. Len(fields)
  PROVE  LET n == fields[k].name
             v == Scan(fields, s).msg[n]
         IN  /\ v \in {m[n], Default(fields[k])}
             /\ Utf8To(fields, m, k - 1) => v = m[n]
<1> DEFINE n == fields[k].name
           isText(x) == Text(x) \in ToSet(fields)
           good(f) == f # <<>> /\ isText(f[1]) => IsUtf8(f[2])
           read == {i \in 1 .. Len(s) : \A j \in 1 .. i - 1 : good(s[j])}
           at == {i \in read : s[i] # <<>> /\ s[i][1] = n}
<1>1. Len(fields) \in Nat /\ Len(s) \in Nat /\ Len(fields) <= Len(s) /\ n \in Names(fields)
  BY FieldsFacts DEF Starts
<1>2. /\ Scan(fields, s).msg[n] = IF at # {} THEN s[Max(at)][2]
                                  ELSE Default(IF isText(n) THEN Text(n) ELSE Number(n))
  BY <1>1 DEF Scan, Result, Reach
<1>3. Default(IF isText(n) THEN Text(n) ELSE Number(n)) = Default(fields[k])
  BY FieldsFacts
<1>8. at \subseteq {k} /\ (at # {} => m[n] # Default(fields[k]))
  <2> SUFFICES ASSUME NEW i \in at  PROVE i = k /\ m[n] # Default(fields[k])
    OBVIOUS
  <2>1. i \in 1 .. Len(s) /\ s[i] # <<>> /\ s[i][1] = n
    OBVIOUS
  <2>2. i \in 1 .. Len(fields)
    BY <1>1, <2>1 DEF Starts
  <2>3. m[fields[i].name] # Default(fields[i]) /\ fields[i].name = n
    BY <2>1, <2>2, PieceOf
  <2> QED  BY <2>2, <2>3 DEF Fields
<1>9. at # {} => Scan(fields, s).msg[n] = m[n]
  <2> SUFFICES ASSUME at # {}  PROVE s[Max(at)][2] = m[n]
    BY <1>2
  <2>1. at = {k}
    BY <1>8
  <2>2. Max(at) = k
    <3>1. Max({k}) = k
      BY <1>1, MaxOfOne
    <3> QED  BY <2>1, <3>1
  <2> QED  BY <1>8, <2>2, PieceOf
<1>10. at = {} => Scan(fields, s).msg[n] = Default(fields[k])
  BY <1>2, <1>3
<1>11. ASSUME Utf8To(fields, m, k - 1), m[n] # Default(fields[k])  PROVE k \in at
  <2>1. ASSUME NEW j \in 1 .. k - 1  PROVE good(s[j])
    <3>1. j \in 1 .. Len(fields)
      BY <1>1
    <3>2. CASE s[j] = <<>>
      BY <3>2
    <3>3. CASE s[j] # <<>>
      <4>1. s[j][1] = fields[j].name /\ s[j][2] = m[fields[j].name]
        BY <3>1, <3>3, PieceOf
      <4> QED  BY <1>11, <3>1, <4>1, FieldsFacts DEF Utf8To
    <3> QED  BY <3>2, <3>3
  <2>2. k \in read
    BY <1>1, <2>1
  <2> QED  BY <1>11, <2>2, PieceOf
<1> QED  BY <1>9, <1>10, <1>11

\* Reading gets to the end exactly when every text is UTF-8.
LEMMA ScanOk ==
  ASSUME NEW fields, Fields(fields), NEW m, NEW s, Starts(s, fields, m)
  PROVE  Scan(fields, s).ok <=> Plain(fields, m)
<1> DEFINE isText(x) == Text(x) \in ToSet(fields)
           good(f) == f # <<>> /\ isText(f[1]) => IsUtf8(f[2])
<1>1. Len(fields) \in Nat /\ Len(s) \in Nat /\ Len(fields) <= Len(s)
  BY FieldsFacts DEF Starts
<1>2. Scan(fields, s).ok <=> \A i \in 1 .. Len(s) : good(s[i])
  BY DEF Scan, Result, All
<1>3. ASSUME NEW i \in Len(fields) + 1 .. Len(s)  PROVE good(s[i])
  BY <1>3, FieldsFacts DEF Starts
<1>4. ASSUME NEW i \in 1 .. Len(fields)
      PROVE  good(s[i]) <=> (fields[i].text => IsUtf8(m[fields[i].name]))
  <2>1. CASE s[i] # <<>>
    BY <2>1, PieceOf, FieldsFacts
  <2>2. CASE s[i] = <<>>
    <3>1. m[fields[i].name] = Default(fields[i])
      BY <2>2, PieceOf
    <3>2. fields[i].text => IsUtf8(m[fields[i].name])
      <4>1. IsUtf8(<<>>)
        BY DEF IsUtf8
      <4> QED  BY <3>1, <4>1 DEF Default
    <3> QED  BY <2>2, <3>2
  <2> QED  BY <2>1, <2>2
<1>5. 1 .. Len(s) = (1 .. Len(fields)) \cup (Len(fields) + 1 .. Len(s))
  BY <1>1
<1> QED  BY <1>2, <1>3, <1>4, <1>5 DEF Plain, Utf8To

LEMMA ScanNames ==
  ASSUME NEW fields, NEW s
  PROVE  LET v == Scan(fields, s).msg IN v = [n \in Names(fields) |-> v[n]]
  BY DEF Scan, Result

\* What was written is read back, when all texts but perhaps the last field are UTF-8.
LEMMA RoundTrip ==
  ASSUME NEW fields, Fields(fields), NEW m, m = [n \in Names(fields) |-> m[n]],
         NEW s, Starts(s, fields, m), Utf8To(fields, m, Len(fields) - 1)
  PROVE  Scan(fields, s).msg = m
<1> DEFINE v == Scan(fields, s).msg
<1>1. ASSUME NEW n \in Names(fields)  PROVE v[n] = m[n]
  <2>1. PICK k \in 1 .. Len(fields) : fields[k].name = n
    BY <1>1 DEF Names
  <2>2. Utf8To(fields, m, k - 1)
    BY FieldsFacts DEF Utf8To
  <2> QED  BY <2>1, <2>2, ScanValue
<1>2. v = [n \in Names(fields) |-> v[n]]
  BY ScanNames
<1> HIDE DEF v
<1>3. v = m
  BY <1>1, <1>2
<1> QED  BY <1>3 DEF v

LEMMA PlainRoundTrip ==
  ASSUME NEW fields, Fields(fields), NEW m, m = [n \in Names(fields) |-> m[n]],
         NEW s, Starts(s, fields, m), Plain(fields, m)
  PROVE  Scan(fields, s).msg = m /\ Scan(fields, s).ok
<1>1. Utf8To(fields, m, Len(fields) - 1)
  BY FieldsFacts DEF Plain, Utf8To
<1> QED  BY <1>1, RoundTrip, ScanOk

\* Whatever part is read, it is a message of the class.
LEMMA ReadTyped ==
  ASSUME NEW fields, Fields(fields), NEW m, Typed(fields, m), NEW s, Starts(s, fields, m)
  PROVE  Typed(fields, Scan(fields, s).msg)
<1> DEFINE v == Scan(fields, s).msg
<1>1. v = [n \in Names(fields) |-> v[n]]
  BY ScanNames
<1>2. ASSUME NEW i \in 1 .. Len(fields)
      PROVE  IF fields[i].text THEN v[fields[i].name] \in Texts ELSE v[fields[i].name] \in Nat
  <2>1. v[fields[i].name] \in {m[fields[i].name], Default(fields[i])}
    BY ScanValue
  <2>2. <<>> \in Texts /\ 0 \in Nat
    BY EmptySeq DEF Texts
  <2> QED  BY <2>1, <2>2 DEF Typed, Default
<1> QED  BY <1>1, <1>2 DEF Typed

LEMMA TypedHas ==
  ASSUME NEW fields, NEW m, Typed(fields, m)
  PROVE  Has(fields, m)
<1>1. DOMAIN m = Names(fields)
  BY DEF Typed
<1>2. \A t \in Texts : Len(t) \in Nat
  BY LenProperties DEF Texts
<1> QED  BY <1>1, <1>2 DEF Typed, Has

\* Written, it is made of pieces without submessages.
LEMMA EmitLine ==
  ASSUME NEW fields, Fields(fields), NEW m, Typed(fields, m)
  PROVE  Emit(fields, m) \in Seq(SimplePiece)
<1>1. Len(fields) \in Nat
  BY FieldsFacts
<1>2. ASSUME NEW i \in 1 .. Len(fields)
      PROVE  (IF m[fields[i].name] = Default(fields[i]) THEN <<>>
              ELSE <<fields[i].name, m[fields[i].name]>>) \in SimplePiece
  <2>1. fields[i].name \in Name /\ m[fields[i].name] \in Texts \cup Nat
    BY FieldsFacts DEF Typed
  <2> QED  BY <2>1 DEF SimplePiece
<1> QED  BY <1>1, <1>2 DEF Emit
-----------------------------------------------------------------------------
(* The fields of each class.                                               *)

LEMMA HeaderDescribed ==
  /\ Fields(HeaderFields) /\ Len(HeaderFields) = 5
  /\ Names(HeaderFields) = {"message_id", "command", "sender_id", "receiver_id", "timestamp"}
  /\ HeaderFields[1].name = "message_id" /\ HeaderFields[1].text
  /\ HeaderFields[2].name = "command" /\ ~HeaderFields[2].text
  /\ HeaderFields[3].name = "sender_id" /\ HeaderFields[3].text
  /\ HeaderFields[4].name = "receiver_id" /\ HeaderFields[4].text
  /\ HeaderFields[5].name = "timestamp" /\ ~HeaderFields[5].text
<1>1. /\ Len(HeaderFields) = 5 /\ DOMAIN HeaderFields = 1 .. 5
      /\ HeaderFields[1] = Text("message_id")
      /\ HeaderFields[2] = Number("command")
      /\ HeaderFields[3] = Text("sender_id")
      /\ HeaderFields[4] = Text("receiver_id")
      /\ HeaderFields[5] = Number("timestamp")
  BY DEF HeaderFields
<1>2. /\ HeaderFields[1].name = "message_id" /\ HeaderFields[1].text
      /\ HeaderFields[2].name = "command" /\ ~HeaderFields[2].text
      /\ HeaderFields[3].name = "sender_id" /\ HeaderFields[3].text
      /\ HeaderFields[4].name = "receiver_id" /\ HeaderFields[4].text
      /\ HeaderFields[5].name = "timestamp" /\ ~HeaderFields[5].text
  BY <1>1 DEF Text, Number
<1>3. \A i \in 1 .. 5 : i = 1 \/ i = 2 \/ i = 3 \/ i = 4 \/ i = 5
  OBVIOUS
<1>4. Names(HeaderFields) = {"message_id", "command", "sender_id", "receiver_id", "timestamp"}
  BY <1>1, <1>2, <1>3 DEF Names
<1>5. Names(HeaderFields) \subseteq Name
  BY DEF Name
<1>6. \A i, j \in 1 .. 5 :
        HeaderFields[i].name = HeaderFields[j].name => i = j
  BY <1>1, <1>2, <1>3
<1>7. \A i \in 1 .. 5 : LET f == HeaderFields[i] IN f \in {Text(f.name), Number(f.name)}
  BY <1>1, <1>2, <1>3
<1>8. \A i \in 1 .. 5 : HeaderFields[i].name \in Name
  BY <1>2, <1>3, <1>4, <1>5
<1> QED  BY <1>1, <1>2, <1>4, <1>6, <1>7, <1>8 DEF Fields

LEMMA HeaderTyped ==
  ASSUME NEW a, NEW b, NEW c, NEW d, NEW e
  PROVE  LET m == [message_id |-> a, command |-> b, sender_id |-> c, receiver_id |-> d,
                   timestamp |-> e]
         IN  /\ m = [n \in Names(HeaderFields) |-> m[n]]
             /\ a \in Texts /\ b \in Nat /\ c \in Texts /\ d \in Texts /\ e \in Nat
                    <=> Typed(HeaderFields, m)
             /\ IsUtf8(a) /\ IsUtf8(c) /\ IsUtf8(d) <=> Plain(HeaderFields, m)
<1> DEFINE m == [message_id |-> a, command |-> b, sender_id |-> c, receiver_id |-> d,
                 timestamp |-> e]
<1>1. m = [n \in Names(HeaderFields) |-> m[n]]
  BY HeaderDescribed
<1>2. \A i \in 1 .. 5 : i = 1 \/ i = 2 \/ i = 3 \/ i = 4 \/ i = 5
  OBVIOUS
<1>3. m.message_id = a /\ m.command = b /\ m.sender_id = c /\ m.receiver_id = d /\ m.timestamp = e
  OBVIOUS
<1> HIDE DEF m
<1>4. a \in Texts /\ b \in Nat /\ c \in Texts /\ d \in Texts /\ e \in Nat <=> Typed(HeaderFields, m)
  BY <1>1, <1>2, <1>3, HeaderDescribed DEF Typed
<1>5. IsUtf8(a) /\ IsUtf8(c) /\ IsUtf8(d) <=> Plain(HeaderFields, m)
  BY <1>2, <1>3, HeaderDescribed DEF Plain, Utf8To
<1> QED  BY <1>1, <1>4, <1>5 DEF m

LEMMA EncryptedMessageDescribed ==
  /\ Fields(EncryptedMessageFields) /\ Len(EncryptedMessageFields) = 6
  /\ Names(EncryptedMessageFields) = {"key_id", "msg_type", "ciphertext", "nonce", "tag",
         "algorithm"}
  /\ EncryptedMessageFields[1].name = "key_id" /\ ~EncryptedMessageFields[1].text
  /\ EncryptedMessageFields[2].name = "msg_type" /\ ~EncryptedMessageFields[2].text
  /\ EncryptedMessageFields[3].name = "ciphertext" /\ EncryptedMessageFields[3].text
  /\ EncryptedMessageFields[4].name = "nonce" /\ EncryptedMessageFields[4].text
  /\ EncryptedMessageFields[5].name = "tag" /\ EncryptedMessageFields[5].text
  /\ EncryptedMessageFields[6].name = "algorithm" /\ EncryptedMessageFields[6].text
<1>1. /\ Len(EncryptedMessageFields) = 6 /\ DOMAIN EncryptedMessageFields = 1 .. 6
      /\ EncryptedMessageFields[1] = Number("key_id")
      /\ EncryptedMessageFields[2] = Number("msg_type")
      /\ EncryptedMessageFields[3] = Text("ciphertext")
      /\ EncryptedMessageFields[4] = Text("nonce")
      /\ EncryptedMessageFields[5] = Text("tag")
      /\ EncryptedMessageFields[6] = Text("algorithm")
  BY DEF EncryptedMessageFields
<1>2. /\ EncryptedMessageFields[1].name = "key_id" /\ ~EncryptedMessageFields[1].text
      /\ EncryptedMessageFields[2].name = "msg_type" /\ ~EncryptedMessageFields[2].text
      /\ EncryptedMessageFields[3].name = "ciphertext" /\ EncryptedMessageFields[3].text
      /\ EncryptedMessageFields[4].name = "nonce" /\ EncryptedMessageFields[4].text
      /\ EncryptedMessageFields[5].name = "tag" /\ EncryptedMessageFields[5].text
      /\ EncryptedMessageFields[6].name = "algorithm" /\ EncryptedMessageFields[6].text
  BY <1>1 DEF Text, Number
<1>3. \A i \in 1 .. 6 : i = 1 \/ i = 2 \/ i = 3 \/ i = 4 \/ i = 5 \/ i = 6
  OBVIOUS
<1>4. Names(EncryptedMessageFields) = {"key_id", "msg_type", "ciphertext", "nonce", "tag",
      "algorithm"}
  BY <1>1, <1>2, <1>3 DEF Names
<1>5. Names(EncryptedMessageFields) \subseteq Name
  BY DEF Name
<1>6. \A i, j \in 1 .. 6 :
        EncryptedMessageFields[i].name = EncryptedMessageFields[j].name => i = j
  BY <1>1, <1>2, <1>3
<1>7. \A i \in 1 .. 6 : LET f == EncryptedMessageFields[i] IN f \in {Text(f.name), Number(f.name)}
  BY <1>1, <1>2, <1>3
<1>8. \A i \in 1 .. 6 : EncryptedMessageFields[i].name \in Name
  BY <1>2, <1>3, <1>4, <1>5
<1> QED  BY <1>1, <1>2, <1>4, <1>6, <1>7, <1>8 DEF Fields

LEMMA EncryptedMessageTyped ==
  ASSUME NEW a, NEW b, NEW c, NEW d, NEW e, NEW f
  PROVE  LET m == [key_id |-> a, msg_type |-> b, ciphertext |-> c, nonce |-> d, tag |-> e,
                   algorithm |-> f]
         IN  /\ m = [n \in Names(EncryptedMessageFields) |-> m[n]]
             /\ a \in Nat /\ b \in Nat /\ c \in Texts /\ d \in Texts /\ e \in Texts
                    /\ f \in Texts <=> Typed(EncryptedMessageFields, m)
             /\ IsUtf8(c) /\ IsUtf8(d) /\ IsUtf8(e) /\ IsUtf8(f)
                    <=> Plain(EncryptedMessageFields, m)
<1> DEFINE m == [key_id |-> a, msg_type |-> b, ciphertext |-> c, nonce |-> d, tag |-> e,
                 algorithm |-> f]
<1>1. m = [n \in Names(EncryptedMessageFields) |-> m[n]]
  BY EncryptedMessageDescribed
<1>2. \A i \in 1 .. 6 : i = 1 \/ i = 2 \/ i = 3 \/ i = 4 \/ i = 5 \/ i = 6
  OBVIOUS
<1>3. m.key_id = a /\ m.msg_type = b /\ m.ciphertext = c /\ m.nonce = d /\ m.tag = e
      /\ m.algorithm = f
  OBVIOUS
<1> HIDE DEF m
<1>4. a \in Nat /\ b \in Nat /\ c \in Texts /\ d \in Texts /\ e \in Texts /\ f \in Texts
      <=> Typed(EncryptedMessageFields, m)
  BY <1>1, <1>2, <1>3, EncryptedMessageDescribed DEF Typed
<1>5. IsUtf8(c) /\ IsUtf8(d) /\ IsUtf8(e) /\ IsUtf8(f) <=> Plain(EncryptedMessageFields, m)
  BY <1>2, <1>3, EncryptedMessageDescribed DEF Plain, Utf8To
<1> QED  BY <1>1, <1>4, <1>5 DEF m

LEMMA QueryMessageRequestDescribed ==
  /\ Fields(QueryMessageRequestFields) /\ Len(QueryMessageRequestFields) = 1
  /\ Names(QueryMessageRequestFields) = {"server_message_id"}
  /\ QueryMessageRequestFields[1].name = "server_message_id" /\ QueryMessageRequestFields[1].text
<1>1. /\ Len(QueryMessageRequestFields) = 1 /\ DOMAIN QueryMessageRequestFields = 1 .. 1
      /\ QueryMessageRequestFields[1] = Text("server_message_id")
  BY DEF QueryMessageRequestFields
<1>2. /\ QueryMessageRequestFields[1].name = "server_message_id"
             /\ QueryMessageRequestFields[1].text
  BY <1>1 DEF Text, Number
<1>3. \A i \in 1 .. 1 : i = 1
  OBVIOUS
<1>4. Names(QueryMessageRequestFields) = {"server_message_id"}
  BY <1>1, <1>2, <1>3 DEF Names
<1>5. Names(QueryMessageRequestFields) \subseteq Name
  BY DEF Name
<1>6. \A i, j \in 1 .. 1 :
        QueryMessageRequestFields[i].name = QueryMessageRequestFields[j].name => i = j
  BY <1>1, <1>2, <1>3
<1>7. \A i \in 1 .. 1 : LET f == QueryMessageRequestFields[i] IN f \in {Text(f.name),
      Number(f.name)}
  BY <1>1, <1>2, <1>3
<1>8. \A i \in 1 .. 1 : QueryMessageRequestFields[i].name \in Name
  BY <1>2, <1>3, <1>4, <1>5
<1> QED  BY <1>1, <1>2, <1>4, <1>6, <1>7, <1>8 DEF Fields

LEMMA QueryMessageRequestTyped ==
  ASSUME NEW a
  PROVE  LET m == [server_message_id |-> a]
         IN  /\ m = [n \in Names(QueryMessageRequestFields) |-> m[n]]
             /\ a \in Texts <=> Typed(QueryMessageRequestFields, m)
             /\ IsUtf8(a) <=> Plain(QueryMessageRequestFields, m)
<1> DEFINE m == [server_message_id |-> a]
<1>1. m = [n \in Names(QueryMessageRequestFields) |-> m[n]]
  BY QueryMessageRequestDescribed
<1>2. \A i \in 1 .. 1 : i = 1
  OBVIOUS
<1>3. m.server_message_id = a
  OBVIOUS
<1> HIDE DEF m
<1>4. a \in Texts <=> Typed(QueryMessageRequestFields, m)
  BY <1>1, <1>2, <1>3, QueryMessageRequestDescribed DEF Typed
<1>5. IsUtf8(a) <=> Plain(QueryMessageRequestFields, m)
  BY <1>2, <1>3, QueryMessageRequestDescribed DEF Plain, Utf8To
<1> QED  BY <1>1, <1>4, <1>5 DEF m

LEMMA QueryMessageListRequestDescribed ==
  /\ Fields(QueryMessageListRequestFields) /\ Len(QueryMessageListRequestFields) = 2
  /\ Names(QueryMessageListRequestFields) = {"sender_id", "limit"}
  /\ QueryMessageListRequestFields[1].name = "sender_id" /\ QueryMessageListRequestFields[1].text
  /\ QueryMessageListRequestFields[2].name = "limit" /\ ~QueryMessageListRequestFields[2].text
<1>1. /\ Len(QueryMessageListRequestFields) = 2 /\ DOMAIN QueryMessageListRequestFields = 1 .. 2
      /\ QueryMessageListRequestFields[1] = Text("sender_id")
      /\ QueryMessageListRequestFields[2] = Number("limit")
  BY DEF QueryMessageListRequestFields
<1>2. /\ QueryMessageListRequestFields[1].name = "sender_id"
             /\ QueryMessageListRequestFields[1].text
      /\ QueryMessageListRequestFields[2].name = "limit" /\ ~QueryMessageListRequestFields[2].text
  BY <1>1 DEF Text, Number
<1>3. \A i \in 1 .. 2 : i = 1 \/ i = 2
  OBVIOUS
<1>4. Names(QueryMessageListRequestFields) = {"sender_id", "limit"}
  BY <1>1, <1>2, <1>3 DEF Names
<1>5. Names(QueryMessageListRequestFields) \subseteq Name
  BY DEF Name
<1>6. \A i, j \in 1 .. 2 :
        QueryMessageListRequestFields[i].name = QueryMessageListRequestFields[j].name => i = j
  BY <1>1, <1>2, <1>3
<1>7. \A i \in 1 .. 2 : LET f == QueryMessageListRequestFields[i] IN f \in {Text(f.name),
      Number(f.name)}
  BY <1>1, <1>2, <1>3
<1>8. \A i \in 1 .. 2 : QueryMessageListRequestFields[i].name \in Name
  BY <1>2, <1>3, <1>4, <1>5
<1> QED  BY <1>1, <1>2, <1>4, <1>6, <1>7, <1>8 DEF Fields

LEMMA QueryMessageListRequestTyped ==
  ASSUME NEW a, NEW b
  PROVE  LET m == [sender_id |-> a, limit |-> b]
         IN  /\ m = [n \in Names(QueryMessageListRequestFields) |-> m[n]]
             /\ a \in Texts /\ b \in Nat <=> Typed(QueryMessageListRequestFields, m)
             /\ IsUtf8(a) <=> Plain(QueryMessageListRequestFields, m)
<1> DEFINE m == [sender_id |-> a, limit |-> b]
<1>1. m = [n \in Names(QueryMessageListRequestFields) |-> m[n]]
  BY QueryMessageListRequestDescribed
<1>2. \A i \in 1 .. 2 : i = 1 \/ i = 2
  OBVIOUS
<1>3. m.sender_id = a /\ m.limit = b
  OBVIOUS
<1> HIDE DEF m
<1>4. a \in Texts /\ b \in Nat <=> Typed(QueryMessageListRequestFields, m)
  BY <1>1, <1>2, <1>3, QueryMessageListRequestDescribed DEF Typed
<1>5. IsUtf8(a) <=> Plain(QueryMessageListRequestFields, m)
  BY <1>2, <1>3, QueryMessageListRequestDescribed DEF Plain, Utf8To
<1> QED  BY <1>1, <1>4, <1>5 DEF m

LEMMA KeyAgreementRequestDescribed ==
  /\ Fields(KeyAgreementRequestFields) /\ Len(KeyAgreementRequestFields) = 2
  /\ Names(KeyAgreementRequestFields) = {"public_key", "sign"}
  /\ KeyAgreementRequestFields[1].name = "public_key" /\ KeyAgreementRequestFields[1].text
  /\ KeyAgreementRequestFields[2].name = "sign" /\ KeyAgreementRequestFields[2].text
<1>1. /\ Len(KeyAgreementRequestFields) = 2 /\ DOMAIN KeyAgreementRequestFields = 1 .. 2
      /\ KeyAgreementRequestFields[1] = Text("public_key")
      /\ KeyAgreementRequestFields[2] = Text("sign")
  BY DEF KeyAgreementRequestFields
<1>2. /\ KeyAgreementRequestFields[1].name = "public_key" /\ KeyAgreementRequestFields[1].text
      /\ KeyAgreementRequestFields[2].name = "sign" /\ KeyAgreementRequestFields[2].text
  BY <1>1 DEF Text, Number
<1>3. \A i \in 1 .. 2 : i = 1 \/ i = 2
  OBVIOUS
<1>4. Names(KeyAgreementRequestFields) = {"public_key", "sign"}
  BY <1>1, <1>2, <1>3 DEF Names
<1>5. Names(KeyAgreementRequestFields) \subseteq Name
  BY DEF Name
<1>6. \A i, j \in 1 .. 2 :
        KeyAgreementRequestFields[i].name = KeyAgreementRequestFields[j].name => i = j
  BY <1>1, <1>2, <1>3
<1>7. \A i \in 1 .. 2 : LET f == KeyAgreementRequestFields[i] IN f \in {Text(f.name),
      Number(f.name)}
  BY <1>1, <1>2, <1>3
<1>8. \A i \in 1 .. 2 : KeyAgreementRequestFields[i].name \in Name
  BY <1>2, <1>3, <1>4, <1>5
<1> QED  BY <1>1, <1>2, <1>4, <1>6, <1>7, <1>8 DEF Fields

LEMMA KeyAgreementRequestTyped ==
  ASSUME NEW a, NEW b
  PROVE  LET m == [public_key |-> a, sign |-> b]
         IN  /\ m = [n \in Names(KeyAgreementRequestFields) |-> m[n]]
             /\ a \in Texts /\ b \in Texts <=> Typed(KeyAgreementRequestFields, m)
             /\ IsUtf8(a) /\ IsUtf8(b) <=> Plain(KeyAgreementRequestFields, m)
<1> DEFINE m == [public_key |-> a, sign |-> b]
<1>1. m = [n \in Names(KeyAgreementRequestFields) |-> m[n]]
  BY KeyAgreementRequestDescribed
<1>2. \A i \in 1 .. 2 : i = 1 \/ i = 2
  OBVIOUS
<1>3. m.public_key = a /\ m.sign = b
  OBVIOUS
<1> HIDE DEF m
<1>4. a \in Texts /\ b \in Texts <=> Typed(KeyAgreementRequestFields, m)
  BY <1>1, <1>2, <1>3, KeyAgreementRequestDescribed DEF Typed
<1>5. IsUtf8(a) /\ IsUtf8(b) <=> Plain(KeyAgreementRequestFields, m)
  BY <1>2, <1>3, KeyAgreementRequestDescribed DEF Plain, Utf8To
<1> QED  BY <1>1, <1>4, <1>5 DEF m

LEMMA KeyCheckRequestDescribed ==
  /\ Fields(KeyCheckRequestFields) /\ Len(KeyCheckRequestFields) = 1
  /\ Names(KeyCheckRequestFields) = {"key_id"}
  /\ KeyCheckRequestFields[1].name = "key_id" /\ ~KeyCheckRequestFields[1].text
<1>1. /\ Len(KeyCheckRequestFields) = 1 /\ DOMAIN KeyCheckRequestFields = 1 .. 1
      /\ KeyCheckRequestFields[1] = Number("key_id")
  BY DEF KeyCheckRequestFields
<1>2. /\ KeyCheckRequestFields[1].name = "key_id" /\ ~KeyCheckRequestFields[1].text
  BY <1>1 DEF Text, Number
<1>3. \A i \in 1 .. 1 : i = 1
  OBVIOUS
<1>4. Names(KeyCheckRequestFields) = {"key_id"}
  BY <1>1, <1>2, <1>3 DEF Names
<1>5. Names(KeyCheckRequestFields) \subseteq Name
  BY DEF Name
<1>6. \A i, j \in 1 .. 1 :
        KeyCheckRequestFields[i].name = KeyCheckRequestFields[j].name => i = j
  BY <1>1, <1>2, <1>3
<1>7. \A i \in 1 .. 1 : LET f == KeyCheckRequestFields[i] IN f \in {Text(f.name), Number(f.name)}
  BY <1>1, <1>2, <1>3
<1>8. \A i \in 1 .. 1 : KeyCheckRequestFields[i].name \in Name
  BY <1>2, <1>3, <1>4, <1>5
<1> QED  BY <1>1, <1>2, <1>4, <1>6, <1>7, <1>8 DEF Fields

LEMMA KeyCheckRequestTyped ==
  ASSUME NEW a
  PROVE  LET m == [key_id |-> a]
         IN  /\ m = [n \in Names(KeyCheckRequestFields) |-> m[n]]
             /\ a \in Nat <=> Typed(KeyCheckRequestFields, m)
             /\ TRUE <=> Plain(KeyCheckRequestFields, m)
<1> DEFINE m == [key_id |-> a]
<1>1. m = [n \in Names(KeyCheckRequestFields) |-> m[n]]
  BY KeyCheckRequestDescribed
<1>2. \A i \in 1 .. 1 : i = 1
  OBVIOUS
<1>3. m.key_id = a
  OBVIOUS
<1> HIDE DEF m
<1>4. a \in Nat <=> Typed(KeyCheckRequestFields, m)
  BY <1>1, <1>2, <1>3, KeyCheckRequestDescribed DEF Typed
<1>5. TRUE <=> Plain(KeyCheckRequestFields, m)
  BY <1>2, <1>3, KeyCheckRequestDescribed DEF Plain, Utf8To
<1> QED  BY <1>1, <1>4, <1>5 DEF m

LEMMA KeyLogoutRequestDescribed ==
  /\ Fields(KeyLogoutRequestFields) /\ Len(KeyLogoutRequestFields) = 1
  /\ Names(KeyLogoutRequestFields) = {"key_id"}
  /\ KeyLogoutRequestFields[1].name = "key_id" /\ ~KeyLogoutRequestFields[1].text
<1>1. /\ Len(KeyLogoutRequestFields) = 1 /\ DOMAIN KeyLogoutRequestFields = 1 .. 1
      /\ KeyLogoutRequestFields[1] = Number("key_id")
  BY DEF KeyLogoutRequestFields
<1>2. /\ KeyLogoutRequestFields[1].name = "key_id" /\ ~KeyLogoutRequestFields[1].text
  BY <1>1 DEF Text, Number
<1>3. \A i \in 1 .. 1 : i = 1
  OBVIOUS
<1>4. Names(KeyLogoutRequestFields) = {"key_id"}
  BY <1>1, <1>2, <1>3 DEF Names
<1>5. Names(KeyLogoutRequestFields) \subseteq Name
  BY DEF Name
<1>6. \A i, j \in 1 .. 1 :
        KeyLogoutRequestFields[i].name = KeyLogoutRequestFields[j].name => i = j
  BY <1>1, <1>2, <1>3
<1>7. \A i \in 1 .. 1 : LET f == KeyLogoutRequestFields[i] IN f \in {Text(f.name), Number(f.name)}
  BY <1>1, <1>2, <1>3
<1>8. \A i \in 1 .. 1 : KeyLogoutRequestFields[i].name \in Name
  BY <1>2, <1>3, <1>4, <1>5
<1> QED  BY <1>1, <1>2, <1>4, <1>6, <1>7, <1>8 DEF Fields

LEMMA KeyLogoutRequestTyped ==
  ASSUME NEW a
  PROVE  LET m == [key_id |-> a]
         IN  /\ m = [n \in Names(KeyLogoutRequestFields) |-> m[n]]
             /\ a \in Nat <=> Typed(KeyLogoutRequestFields, m)
             /\ TRUE <=> Plain(KeyLogoutRequestFields, m)
<1> DEFINE m == [key_id |-> a]
<1>1. m = [n \in Names(KeyLogoutRequestFields) |-> m[n]]
  BY KeyLogoutRequestDescribed
<1>2. \A i \in 1 .. 1 : i = 1
  OBVIOUS
<1>3. m.key_id = a
  OBVIOUS
<1> HIDE DEF m
<1>4. a \in Nat <=> Typed(KeyLogoutRequestFields, m)
  BY <1>1, <1>2, <1>3, KeyLogoutRequestDescribed DEF Typed
<1>5. TRUE <=> Plain(KeyLogoutRequestFields, m)
  BY <1>2, <1>3, KeyLogoutRequestDescribed DEF Plain, Utf8To
<1> QED  BY <1>1, <1>4, <1>5 DEF m

LEMMA SendMessageResponseDescribed ==
  /\ Fields(SendMessageResponseFields) /\ Len(SendMessageResponseFields) = 5
  /\ Names(SendMessageResponseFields) = {"code", "message", "server_message_id", "server_time",
         "delivery_status"}
  /\ SendMessageResponseFields[1].name = "code" /\ ~SendMessageResponseFields[1].text
  /\ SendMessageResponseFields[2].name = "message" /\ SendMessageResponseFields[2].text
  /\ SendMessageResponseFields[3].name = "server_message_id" /\ SendMessageResponseFields[3].text
  /\ SendMessageResponseFields[4].name = "server_time" /\ ~SendMessageResponseFields[4].text
  /\ SendMessageResponseFields[5].name = "delivery_status" /\ ~SendMessageResponseFields[5].text
<1>1. /\ Len(SendMessageResponseFields) = 5 /\ DOMAIN SendMessageResponseFields = 1 .. 5
      /\ SendMessageResponseFields[1] = Number("code")
      /\ SendMessageResponseFields[2] = Text("message")
      /\ SendMessageResponseFields[3] = Text("server_message_id")
      /\ SendMessageResponseFields[4] = Number("server_time")
      /\ SendMessageResponseFields[5] = Number("delivery_status")
  BY DEF SendMessageResponseFields
<1>2. /\ SendMessageResponseFields[1].name = "code" /\ ~SendMessageResponseFields[1].text
      /\ SendMessageResponseFields[2].name = "message" /\ SendMessageResponseFields[2].text
      /\ SendMessageResponseFields[3].name = "server_message_id"
             /\ SendMessageResponseFields[3].text
      /\ SendMessageResponseFields[4].name = "server_time" /\ ~SendMessageResponseFields[4].text
      /\ SendMessageResponseFields[5].name = "delivery_status" /\ ~SendMessageResponseFields[5].text
  BY <1>1 DEF Text, Number
<1>3. \A i \in 1 .. 5 : i = 1 \/ i = 2 \/ i = 3 \/ i = 4 \/ i = 5
  OBVIOUS
<1>4. Names(SendMessageResponseFields) = {"code", "message", "server_message_id", "server_time",
      "delivery_status"}
  BY <1>1, <1>2, <1>3 DEF Names
<1>5. Names(SendMessageResponseFields) \subseteq Name
  BY DEF Name
<1>6. \A i, j \in 1 .. 5 :
        SendMessageResponseFields[i].name = SendMessageResponseFields[j].name => i = j
  BY <1>1, <1>2, <1>3
<1>7. \A i \in 1 .. 5 : LET f == SendMessageResponseFields[i] IN f \in {Text(f.name),
      Number(f.name)}
  BY <1>1, <1>2, <1>3
<1>8. \A i \in 1 .. 5 : SendMessageResponseFields[i].name \in Name
  BY <1>2, <1>3, <1>4, <1>5
<1> QED  BY <1>1, <1>2, <1>4, <1>6, <1>7, <1>8 DEF Fields

LEMMA SendMessageResponseTyped ==
  ASSUME NEW a, NEW b, NEW c, NEW d, NEW e
  PROVE  LET m == [code |-> a, message |-> b, server_message_id |-> c, server_time |-> d,
                   delivery_status |-> e]
         IN  /\ m = [n \in Names(SendMessageResponseFields) |-> m[n]]
             /\ a \in Nat /\ b \in Texts /\ c \in Texts /\ d \in Nat /\ e \in Nat
                    <=> Typed(SendMessageResponseFields, m)
             /\ IsUtf8(b) /\ IsUtf8(c) <=> Plain(SendMessageResponseFields, m)
<1> DEFINE m == [code |-> a, message |-> b, server_message_id |-> c, server_time |-> d,
                 delivery_status |-> e]
<1>1. m = [n \in Names(SendMessageResponseFields) |-> m[n]]
  BY SendMessageResponseDescribed
<1>2. \A i \in 1 .. 5 : i = 1 \/ i = 2 \/ i = 3 \/ i = 4 \/ i = 5
  OBVIOUS
<1>3. m.code = a /\ m.message = b /\ m.server_message_id = c /\ m.server_time = d
      /\ m.delivery_status = e
  OBVIOUS
<1> HIDE DEF m
<1>4. a \in Nat /\ b \in Texts /\ c \in Texts /\ d \in Nat /\ e \in Nat
      <=> Typed(SendMessageResponseFields, m)
  BY <1>1, <1>2, <1>3, SendMessageResponseDescribed DEF Typed
<1>5. IsUtf8(b) /\ IsUtf8(c) <=> Plain(SendMessageResponseFields, m)
  BY <1>2, <1>3, SendMessageResponseDescribed DEF Plain, Utf8To
<1> QED  BY <1>1, <1>4, <1>5 DEF m

LEMMA QueryMessageResponseDescribed ==
  /\ Fields(QueryMessageResponseFields) /\ Len(QueryMessageResponseFields) = 9
  /\ Names(QueryMessageResponseFields) = {"code", "message", "server_message_id", "sender_id",
         "receiver_id", "key_id", "msg_type", "send_time", "status"}
  /\ QueryMessageResponseFields[1].name = "code" /\ ~QueryMessageResponseFields[1].text
  /\ QueryMessageResponseFields[2].name = "message" /\ QueryMessageResponseFields[2].text
  /\ QueryMessageResponseFields[3].name = "server_message_id" /\ QueryMessageResponseFields[3].text
  /\ QueryMessageResponseFields[4].name = "sender_id" /\ QueryMessageResponseFields[4].text
  /\ QueryMessageResponseFields[5].name = "receiver_id" /\ QueryMessageResponseFields[5].text
  /\ QueryMessageResponseFields[6].name = "key_id" /\ ~QueryMessageResponseFields[6].text
  /\ QueryMessageResponseFields[7].name = "msg_type" /\ QueryMessageResponseFields[7].text
  /\ QueryMessageResponseFields[8].name = "send_time" /\ ~QueryMessageResponseFields[8].text
  /\ QueryMessageResponseFields[9].name = "status" /\ ~QueryMessageResponseFields[9].text
<1>1. /\ Len(QueryMessageResponseFields) = 9 /\ DOMAIN QueryMessageResponseFields = 1 .. 9
      /\ QueryMessageResponseFields[1] = Number("code")
      /\ QueryMessageResponseFields[2] = Text("message")
      /\ QueryMessageResponseFields[3] = Text("server_message_id")
      /\ QueryMessageResponseFields[4] = Text("sender_id")
      /\ QueryMessageResponseFields[5] = Text("receiver_id")
      /\ QueryMessageResponseFields[6] = Number("key_id")
      /\ QueryMessageResponseFields[7] = Text("msg_type")
      /\ QueryMessageResponseFields[8] = Number("send_time")
      /\ QueryMessageResponseFields[9] = Number("status")
  BY DEF QueryMessageResponseFields
<1>2. /\ QueryMessageResponseFields[1].name = "code" /\ ~QueryMessageResponseFields[1].text
      /\ QueryMessageResponseFields[2].name = "message" /\ QueryMessageResponseFields[2].text
      /\ QueryMessageResponseFields[3].name = "server_message_id"
             /\ QueryMessageResponseFields[3].text
      /\ QueryMessageResponseFields[4].name = "sender_id" /\ QueryMessageResponseFields[4].text
      /\ QueryMessageResponseFields[5].name = "receiver_id" /\ QueryMessageResponseFields[5].text
      /\ QueryMessageResponseFields[6].name = "key_id" /\ ~QueryMessageResponseFields[6].text
      /\ QueryMessageResponseFields[7].name = "msg_type" /\ QueryMessageResponseFields[7].text
      /\ QueryMessageResponseFields[8].name = "send_time" /\ ~QueryMessageResponseFields[8].text
      /\ QueryMessageResponseFields[9].name = "status" /\ ~QueryMessageResponseFields[9].text
  BY <1>1 DEF Text, Number
<1>3. \A i \in 1 .. 9 : i = 1 \/ i = 2 \/ i = 3 \/ i = 4 \/ i = 5 \/ i = 6 \/ i = 7 \/ i = 8
      \/ i = 9
  OBVIOUS
<1>4. Names(QueryMessageResponseFields) = {"code", "message", "server_message_id", "sender_id",
      "receiver_id", "key_id", "msg_type", "send_time", "status"}
  BY <1>1, <1>2, <1>3 DEF Names
<1>5. Names(QueryMessageResponseFields) \subseteq Name
  BY DEF Name
<1>6. \A i, j \in 1 .. 9 :
        QueryMessageResponseFields[i].name = QueryMessageResponseFields[j].name => i = j
  BY <1>1, <1>2, <1>3
<1>7. \A i \in 1 .. 9 : LET f == QueryMessageResponseFields[i] IN f \in {Text(f.name),
      Number(f.name)}
  BY <1>1, <1>2, <1>3
<1>8. \A i \in 1 .. 9 : QueryMessageResponseFields[i].name \in Name
  BY <1>2, <1>3, <1>4, <1>5
<1> QED  BY <1>1, <1>2, <1>4, <1>6, <1>7, <1>8 DEF Fields

LEMMA QueryMessageResponseTyped ==
  ASSUME NEW a, NEW b, NEW c, NEW d, NEW e, NEW f, NEW g, NEW h, NEW i
  PROVE  LET m == [code |-> a, message |-> b, server_message_id |-> c, sender_id |-> d,
                   receiver_id |-> e, key_id |-> f, msg_type |-> g, send_time |-> h, status |-> i]
         IN  /\ m = [n \in Names(QueryMessageResponseFields) |-> m[n]]
             /\ a \in Nat /\ b \in Texts /\ c \in Texts /\ d \in Texts /\ e \in Texts
                    /\ f \in Nat /\ g \in Texts /\ h \in Nat /\ i \in Nat
                    <=> Typed(QueryMessageResponseFields, m)
             /\ IsUtf8(b) /\ IsUtf8(c) /\ IsUtf8(d) /\ IsUtf8(e) /\ IsUtf8(g)
                    <=> Plain(QueryMessageResponseFields, m)
<1> DEFINE m == [code |-> a, message |-> b, server_message_id |-> c, sender_id |-> d,
                 receiver_id |-> e, key_id |-> f, msg_type |-> g, send_time |-> h, status |-> i]
<1>1. m = [n \in Names(QueryMessageResponseFields) |-> m[n]]
  BY QueryMessageResponseDescribed
<1>2. \A x \in 1 .. 9 : x = 1 \/ x = 2 \/ x = 3 \/ x = 4 \/ x = 5 \/ x = 6 \/ x = 7 \/ x = 8
      \/ x = 9
  OBVIOUS
<1>3. m.code = a /\ m.message = b /\ m.server_message_id = c /\ m.sender_id = d
      /\ m.receiver_id = e /\ m.key_id = f /\ m.msg_type = g /\ m.send_time = h /\ m.status = i
  OBVIOUS
<1> HIDE DEF m
<1>4. a \in Nat /\ b \in Texts /\ c \in Texts /\ d \in Texts /\ e \in Texts /\ f \in Nat
      /\ g \in Texts /\ h \in Nat /\ i \in Nat <=> Typed(QueryMessageResponseFields, m)
  BY <1>1, <1>2, <1>3, QueryMessageResponseDescribed DEF Typed
<1>5. IsUtf8(b) /\ IsUtf8(c) /\ IsUtf8(d) /\ IsUtf8(e) /\ IsUtf8(g)
      <=> Plain(QueryMessageResponseFields, m)
  BY <1>2, <1>3, QueryMessageResponseDescribed DEF Plain, Utf8To
<1> QED  BY <1>1, <1>4, <1>5 DEF m

LEMMA MessageSummaryDescribed ==
  /\ Fields(MessageSummaryFields) /\ Len(MessageSummaryFields) = 7
  /\ Names(MessageSummaryFields) = {"server_message_id", "sender_id", "receiver_id", "key_id",
         "msg_type", "send_time", "status"}
  /\ MessageSummaryFields[1].name = "server_message_id" /\ MessageSummaryFields[1].text
  /\ MessageSummaryFields[2].name = "sender_id" /\ MessageSummaryFields[2].text
  /\ MessageSummaryFields[3].name = "receiver_id" /\ MessageSummaryFields[3].text
  /\ MessageSummaryFields[4].name = "key_id" /\ ~MessageSummaryFields[4].text
  /\ MessageSummaryFields[5].name = "msg_type" /\ MessageSummaryFields[5].text
  /\ MessageSummaryFields[6].name = "send_time" /\ ~MessageSummaryFields[6].text
  /\ MessageSummaryFields[7].name = "status" /\ ~MessageSummaryFields[7].text
<1>1. /\ Len(MessageSummaryFields) = 7 /\ DOMAIN MessageSummaryFields = 1 .. 7
      /\ MessageSummaryFields[1] = Text("server_message_id")
      /\ MessageSummaryFields[2] = Text("sender_id")
      /\ MessageSummaryFields[3] = Text("receiver_id")
      /\ MessageSummaryFields[4] = Number("key_id")
      /\ MessageSummaryFields[5] = Text("msg_type")
      /\ MessageSummaryFields[6] = Number("send_time")
      /\ MessageSummaryFields[7] = Number("status")
  BY DEF MessageSummaryFields
<1>2. /\ MessageSummaryFields[1].name = "server_message_id" /\ MessageSummaryFields[1].text
      /\ MessageSummaryFields[2].name = "sender_id" /\ MessageSummaryFields[2].text
      /\ MessageSummaryFields[3].name = "receiver_id" /\ MessageSummaryFields[3].text
      /\ MessageSummaryFields[4].name = "key_id" /\ ~MessageSummaryFields[4].text
      /\ MessageSummaryFields[5].name = "msg_type" /\ MessageSummaryFields[5].text
      /\ MessageSummaryFields[6].name = "send_time" /\ ~MessageSummaryFields[6].text
      /\ MessageSummaryFields[7].name = "status" /\ ~MessageSummaryFields[7].text
  BY <1>1 DEF Text, Number
<1>3. \A i \in 1 .. 7 : i = 1 \/ i = 2 \/ i = 3 \/ i = 4 \/ i = 5 \/ i = 6 \/ i = 7
  OBVIOUS
<1>4. Names(MessageSummaryFields) = {"server_message_id", "sender_id", "receiver_id", "key_id",
      "msg_type", "send_time", "status"}
  BY <1>1, <1>2, <1>3 DEF Names
<1>5. Names(MessageSummaryFields) \subseteq Name
  BY DEF Name
<1>6. \A i, j \in 1 .. 7 :
        MessageSummaryFields[i].name = MessageSummaryFields[j].name => i = j
  BY <1>1, <1>2, <1>3
<1>7. \A i \in 1 .. 7 : LET f == MessageSummaryFields[i] IN f \in {Text(f.name), Number(f.name)}
  BY <1>1, <1>2, <1>3
<1>8. \A i \in 1 .. 7 : MessageSummaryFields[i].name \in Name
  BY <1>2, <1>3, <1>4, <1>5
<1> QED  BY <1>1, <1>2, <1>4, <1>6, <1>7, <1>8 DEF Fields

LEMMA MessageSummaryTyped ==
  ASSUME NEW a, NEW b, NEW c, NEW d, NEW e, NEW f, NEW g
  PROVE  LET m == [server_message_id |-> a, sender_id |-> b, receiver_id |-> c, key_id |-> d,
                   msg_type |-> e, send_time |-> f, status |-> g]
         IN  /\ m = [n \in Names(MessageSummaryFields) |-> m[n]]
             /\ a \in Texts /\ b \in Texts /\ c \in Texts /\ d \in Nat /\ e \in Texts
                    /\ f \in Nat /\ g \in Nat <=> Typed(MessageSummaryFields, m)
             /\ IsUtf8(a) /\ IsUtf8(b) /\ IsUtf8(c) /\ IsUtf8(e) <=> Plain(MessageSummaryFields, m)
<1> DEFINE m == [server_message_id |-> a, sender_id |-> b, receiver_id |-> c, key_id |-> d,
                 msg_type |-> e, send_time |-> f, status |-> g]
<1>1. m = [n \in Names(MessageSummaryFields) |-> m[n]]
  BY MessageSummaryDescribed
<1>2. \A i \in 1 .. 7 : i = 1 \/ i = 2 \/ i = 3 \/ i = 4 \/ i = 5 \/ i = 6 \/ i = 7
  OBVIOUS
<1>3. m.server_message_id = a /\ m.sender_id = b /\ m.receiver_id = c /\ m.key_id = d
      /\ m.msg_type = e /\ m.send_time = f /\ m.status = g
  OBVIOUS
<1> HIDE DEF m
<1>4. a \in Texts /\ b \in Texts /\ c \in Texts /\ d \in Nat /\ e \in Texts /\ f \in Nat
      /\ g \in Nat <=> Typed(MessageSummaryFields, m)
  BY <1>1, <1>2, <1>3, MessageSummaryDescribed DEF Typed
<1>5. IsUtf8(a) /\ IsUtf8(b) /\ IsUtf8(c) /\ IsUtf8(e) <=> Plain(MessageSummaryFields, m)
  BY <1>2, <1>3, MessageSummaryDescribed DEF Plain, Utf8To
<1> QED  BY <1>1, <1>4, <1>5 DEF m

LEMMA KeyOperationResponseDescribed ==
  /\ Fields(KeyOperationResponseFields) /\ Len(KeyOperationResponseFields) = 4
  /\ Names(KeyOperationResponseFields) = {"code", "message", "key_id", "data"}
  /\ KeyOperationResponseFields[1].name = "code" /\ ~KeyOperationResponseFields[1].text
  /\ KeyOperationResponseFields[2].name = "message" /\ KeyOperationResponseFields[2].text
  /\ KeyOperationResponseFields[3].name = "key_id" /\ ~KeyOperationResponseFields[3].text
  /\ KeyOperationResponseFields[4].name = "data" /\ KeyOperationResponseFields[4].text
<1>1. /\ Len(KeyOperationResponseFields) = 4 /\ DOMAIN KeyOperationResponseFields = 1 .. 4
      /\ KeyOperationResponseFields[1] = Number("code")
      /\ KeyOperationResponseFields[2] = Text("message")
      /\ KeyOperationResponseFields[3] = Number("key_id")
      /\ KeyOperationResponseFields[4] = Text("data")
  BY DEF KeyOperationResponseFields
<1>2. /\ KeyOperationResponseFields[1].name = "code" /\ ~KeyOperationResponseFields[1].text
      /\ KeyOperationResponseFields[2].name = "message" /\ KeyOperationResponseFields[2].text
      /\ KeyOperationResponseFields[3].name = "key_id" /\ ~KeyOperationResponseFields[3].text
      /\ KeyOperationResponseFields[4].name = "data" /\ KeyOperationResponseFields[4].text
  BY <1>1 DEF Text, Number
<1>3. \A i \in 1 .. 4 : i = 1 \/ i = 2 \/ i = 3 \/ i = 4
  OBVIOUS
<1>4. Names(KeyOperationResponseFields) = {"code", "message", "key_id", "data"}
  BY <1>1, <1>2, <1>3 DEF Names
<1>5. Names(KeyOperationResponseFields) \subseteq Name
  BY DEF Name
<1>6. \A i, j \in 1 .. 4 :
        KeyOperationResponseFields[i].name = KeyOperationResponseFields[j].name => i = j
  BY <1>1, <1>2, <1>3
<1>7. \A i \in 1 .. 4 : LET f == KeyOperationResponseFields[i] IN f \in {Text(f.name),
      Number(f.name)}
  BY <1>1, <1>2, <1>3
<1>8. \A i \in 1 .. 4 : KeyOperationResponseFields[i].name \in Name
  BY <1>2, <1>3, <1>4, <1>5
<1> QED  BY <1>1, <1>2, <1>4, <1>6, <1>7, <1>8 DEF Fields

LEMMA KeyOperationResponseTyped ==
  ASSUME NEW a, NEW b, NEW c, NEW d
  PROVE  LET m == [code |-> a, message |-> b, key_id |-> c, data |-> d]
         IN  /\ m = [n \in Names(KeyOperationResponseFields) |-> m[n]]
             /\ a \in Nat /\ b \in Texts /\ c \in Nat /\ d \in Texts
                    <=> Typed(KeyOperationResponseFields, m)
             /\ IsUtf8(b) /\ IsUtf8(d) <=> Plain(KeyOperationResponseFields, m)
<1> DEFINE m == [code |-> a, message |-> b, key_id |-> c, data |-> d]
<1>1. m = [n \in Names(KeyOperationResponseFields) |-> m[n]]
  BY KeyOperationResponseDescribed
<1>2. \A i \in 1 .. 4 : i = 1 \/ i = 2 \/ i = 3 \/ i = 4
  OBVIOUS
<1>3. m.code = a /\ m.message = b /\ m.key_id = c /\ m.data = d
  OBVIOUS
<1> HIDE DEF m
<1>4. a \in Nat /\ b \in Texts /\ c \in Nat /\ d \in Texts <=> Typed(KeyOperationResponseFields, m)
  BY <1>1, <1>2, <1>3, KeyOperationResponseDescribed DEF Typed
<1>5. IsUtf8(b) /\ IsUtf8(d) <=> Plain(KeyOperationResponseFields, m)
  BY <1>2, <1>3, KeyOperationResponseDescribed DEF Plain, Utf8To
<1> QED  BY <1>1, <1>4, <1>5 DEF m

LEMMA ListDescribed ==
  /\ Fields(ListFields) /\ Len(ListFields) = 2
  /\ Names(ListFields) = {"code", "message"}
  /\ ListFields[1].name = "code" /\ ~ListFields[1].text
  /\ ListFields[2].name = "message" /\ ListFields[2].text
<1>1. /\ Len(ListFields) = 2 /\ DOMAIN ListFields = 1 .. 2
      /\ ListFields[1] = Number("code")
      /\ ListFields[2] = Text("message")
  BY DEF ListFields
<1>2. /\ ListFields[1].name = "code" /\ ~ListFields[1].text
      /\ ListFields[2].name = "message" /\ ListFields[2].text
  BY <1>1 DEF Text, Number
<1>3. \A i \in 1 .. 2 : i = 1 \/ i = 2
  OBVIOUS
<1>4. Names(ListFields) = {"code", "message"}
  BY <1>1, <1>2, <1>3 DEF Names
<1>5. Names(ListFields) \subseteq Name
  BY <1>4, SendMessageResponseDescribed DEF Name
<1>6. \A i, j \in 1 .. 2 :
        ListFields[i].name = ListFields[j].name => i = j
  BY <1>1, <1>2, <1>3
<1>7. \A i \in 1 .. 2 : LET f == ListFields[i] IN f \in {Text(f.name), Number(f.name)}
  BY <1>1, <1>2, <1>3
<1>8. \A i \in 1 .. 2 : ListFields[i].name \in Name
  BY <1>2, <1>3, <1>4, <1>5
<1> QED  BY <1>1, <1>2, <1>4, <1>6, <1>7, <1>8 DEF Fields

LEMMA ListTyped ==
  ASSUME NEW a, NEW b
  PROVE  LET m == [code |-> a, message |-> b]
         IN  /\ m = [n \in Names(ListFields) |-> m[n]]
             /\ a \in Nat /\ b \in Texts <=> Typed(ListFields, m)
             /\ IsUtf8(b) <=> Plain(ListFields, m)
<1> DEFINE m == [code |-> a, message |-> b]
<1>1. m = [n \in Names(ListFields) |-> m[n]]
  BY ListDescribed
<1>2. \A i \in 1 .. 2 : i = 1 \/ i = 2
  OBVIOUS
<1>3. m.code = a /\ m.message = b
  OBVIOUS
<1> HIDE DEF m
<1>4. a \in Nat /\ b \in Texts <=> Typed(ListFields, m)
  BY <1>1, <1>2, <1>3, ListDescribed DEF Typed
<1>5. IsUtf8(b) <=> Plain(ListFields, m)
  BY <1>2, <1>3, ListDescribed DEF Plain, Utf8To
<1> QED  BY <1>1, <1>4, <1>5 DEF m
-----------------------------------------------------------------------------
(* Packets.                                                                *)

LEMMA CaseNames ==
  /\ \A x \in RequestCases \cup ResponseCases : x # "header" /\ x # BODY_NOT_SET
  /\ \A x \in RequestCases : x = "send_msg_req" \/ x = "query_msg_req" \/ x = "query_msg_list_req"
       \/ x = "key_agree_req" \/ x = "key_check_req" \/ x = "key_logout_req"
  /\ \A x \in ResponseCases : x = "send_msg_resp" \/ x = "query_msg_resp"
       \/ x = "query_msg_list_resp" \/ x = "key_op_resp"
  BY DEF RequestCases, ResponseCases, BODY_NOT_SET

\* A sequence of two pieces.
LEMMA Pair ==
  ASSUME NEW x, NEW y, NEW s, s = <<x, y>>
  PROVE  /\ Len(s) = 2 /\ s[1] = x /\ s[2] = y /\ 1 .. Len(s) = {1, 2}
         /\ <<x>> \o <<y>> = s
<1>1. Len(s) = 2 /\ s[1] = x /\ s[2] = y
  OBVIOUS
<1>2. 1 .. 2 = {1, 2}
  OBVIOUS
<1>3. <<x>> \o <<y>> = <<x, y>>
  <2> DEFINE S == {x, y}
  <2>1. PICK a \in Seq(S), b \in Seq(S), u \in Seq(S) : a = <<x>> /\ b = <<y>> /\ u = <<x, y>>
    <3>1. x \in S /\ y \in S
      OBVIOUS
    <3> HIDE DEF S
    <3>2. <<x>> \in Seq(S) /\ <<y>> \in Seq(S) /\ <<x, y>> \in Seq(S)
      BY <3>1
    <3> QED  BY <3>2
  <2>2. Len(a) = 1 /\ Len(b) = 1 /\ Len(u) = 2 /\ a[1] = x /\ b[1] = y /\ u[1] = x /\ u[2] = y
    BY <2>1
  <2>3. /\ a \o b \in Seq(S) /\ Len(a \o b) = 2
        /\ \A i \in 1 .. 2 : (a \o b)[i] = IF i <= 1 THEN a[i] ELSE b[i - 1]
    BY <2>2, ConcatProperties
  <2>4. \A i \in 1 .. 2 : (a \o b)[i] = u[i]
    BY <2>2, <2>3
  <2>5. a \o b = u
    BY <2>2, <2>3, <2>4, SeqEqual
  <2> QED  BY <2>1, <2>5
<1> QED  BY <1>1, <1>2, <1>3

\* A packet is read from its two pieces; the body only if the header was good.
LEMMA RequestRead ==
  ASSUME NEW H, NEW B, NEW case \in RequestCases, NEW s, s = << <<"header", H>>, <<case, B>> >>
  PROVE  decodeRequest(s) =
           [header |-> Header_Parse(H).msg,
            body_case |-> IF Header_Parse(H).ok THEN case ELSE BODY_NOT_SET,
            body |-> IF Header_Parse(H).ok THEN RequestBody_Parse(case, B).msg ELSE NotSet]
<1> DEFINE sub(f) == IF f[1] = "header" THEN Header_Parse(f[2]) ELSE RequestBody_Parse(f[1], f[2])
           good(f) == sub(f).ok
           read == {i \in 1 .. Len(s) : \A j \in 1 .. i - 1 : good(s[j])}
           heads == {i \in read : s[i][1] = "header"}
           bodies == read \ heads
           last(set) == s[Max(set)]
<1>1. decodeRequest(s) =
        [header |-> IF heads = {} THEN NotSet ELSE sub(last(heads)).msg,
         body_case |-> IF bodies = {} THEN BODY_NOT_SET ELSE last(bodies)[1],
         body |-> IF bodies = {} THEN NotSet ELSE sub(last(bodies)).msg]
  BY DEF decodeRequest, RequestPacket_Parse, ScanPacket, Reach, Result
<1>2. /\ Len(s) = 2 /\ 1 .. Len(s) = {1, 2}
      /\ s[1][1] = "header" /\ s[1][2] = H /\ s[2][1] = case /\ s[2][2] = B
  <2>1. PICK x, y : x = <<"header", H>> /\ y = <<case, B>>
    OBVIOUS
  <2>2. Len(s) = 2 /\ s[1] = x /\ s[2] = y /\ 1 .. Len(s) = {1, 2}
    BY <2>1, Pair
  <2> QED  BY <2>1, <2>2, PieceParts
<1>3. case # "header"
  BY CaseNames
<1>4. /\ sub(s[1]) = Header_Parse(H) /\ sub(s[2]) = RequestBody_Parse(case, B)
  BY <1>2, <1>3
<1>5. read = IF Header_Parse(H).ok THEN {1, 2} ELSE {1}
  <2>1. 1 \in read /\ (2 \in read <=> good(s[1]))
    <3>1. 1 .. 1 - 1 = {} /\ 1 .. 2 - 1 = {1}
      OBVIOUS
    <3> QED  BY <1>2, <3>1
  <2>2. read \subseteq {1, 2}
    BY <1>2
  <2> HIDE DEF read
  <2> QED  BY <1>4, <2>1, <2>2
<1>6. heads = {1} /\ bodies = IF Header_Parse(H).ok THEN {2} ELSE {}
  BY <1>2, <1>3, <1>5
<1>7. last({1}) = s[1] /\ last({2}) = s[2]
  <2>1. Max({1}) = 1 /\ Max({2}) = 2
    BY MaxOfOne
  <2> QED  BY <2>1
<1> HIDE DEF heads, bodies, sub, last
<1>8. /\ (IF heads = {} THEN NotSet ELSE sub(last(heads)).msg) = Header_Parse(H).msg
      /\ (IF bodies = {} THEN BODY_NOT_SET ELSE last(bodies)[1])
         = IF Header_Parse(H).ok THEN case ELSE BODY_NOT_SET
      /\ (IF bodies = {} THEN NotSet ELSE sub(last(bodies)).msg)
         = IF Header_Parse(H).ok THEN RequestBody_Parse(case, B).msg ELSE NotSet
  <2>1. {1} # {} /\ {2} # {}
    OBVIOUS
  <2>2. CASE Header_Parse(H).ok
    BY <1>2, <1>4, <1>6, <1>7, <2>1, <2>2
  <2>3. CASE ~Header_Parse(H).ok
    BY <1>2, <1>4, <1>6, <1>7, <2>1, <2>3
  <2> QED  BY <2>2, <2>3
<1> QED  BY <1>1, <1>8

LEMMA ResponseRead ==
  ASSUME NEW H, NEW B, NEW case \in ResponseCases, NEW s, s = << <<"header", H>>, <<case, B>> >>
  PROVE  decodeResponse(s) =
           [header |-> Header_Parse(H).msg,
            body_case |-> IF Header_Parse(H).ok THEN case ELSE BODY_NOT_SET,
            body |-> IF Header_Parse(H).ok THEN ResponseBody_Parse(case, B).msg ELSE NotSet]
<1> DEFINE sub(f) == IF f[1] = "header" THEN Header_Parse(f[2]) ELSE ResponseBody_Parse(f[1], f[2])
           good(f) == sub(f).ok
           read == {i \in 1 .. Len(s) : \A j \in 1 .. i - 1 : good(s[j])}
           heads == {i \in read : s[i][1] = "header"}
           bodies == read \ heads
           last(set) == s[Max(set)]
<1>1. decodeResponse(s) =
        [header |-> IF heads = {} THEN NotSet ELSE sub(last(heads)).msg,
         body_case |-> IF bodies = {} THEN BODY_NOT_SET ELSE last(bodies)[1],
         body |-> IF bodies = {} THEN NotSet ELSE sub(last(bodies)).msg]
  BY DEF decodeResponse, ResponsePacket_Parse, ScanPacket, Reach, Result
<1>2. /\ Len(s) = 2 /\ 1 .. Len(s) = {1, 2}
      /\ s[1][1] = "header" /\ s[1][2] = H /\ s[2][1] = case /\ s[2][2] = B
  <2>1. PICK x, y : x = <<"header", H>> /\ y = <<case, B>>
    OBVIOUS
  <2>2. Len(s) = 2 /\ s[1] = x /\ s[2] = y /\ 1 .. Len(s) = {1, 2}
    BY <2>1, Pair
  <2> QED  BY <2>1, <2>2, PieceParts
<1>3. case # "header"
  BY CaseNames
<1>4. /\ sub(s[1]) = Header_Parse(H) /\ sub(s[2]) = ResponseBody_Parse(case, B)
  BY <1>2, <1>3
<1>5. read = IF Header_Parse(H).ok THEN {1, 2} ELSE {1}
  <2>1. 1 \in read /\ (2 \in read <=> good(s[1]))
    <3>1. 1 .. 1 - 1 = {} /\ 1 .. 2 - 1 = {1}
      OBVIOUS
    <3> QED  BY <1>2, <3>1
  <2>2. read \subseteq {1, 2}
    BY <1>2
  <2> HIDE DEF read
  <2> QED  BY <1>4, <2>1, <2>2
<1>6. heads = {1} /\ bodies = IF Header_Parse(H).ok THEN {2} ELSE {}
  BY <1>2, <1>3, <1>5
<1>7. last({1}) = s[1] /\ last({2}) = s[2]
  <2>1. Max({1}) = 1 /\ Max({2}) = 2
    BY MaxOfOne
  <2> QED  BY <2>1
<1> HIDE DEF heads, bodies, sub, last
<1>8. /\ (IF heads = {} THEN NotSet ELSE sub(last(heads)).msg) = Header_Parse(H).msg
      /\ (IF bodies = {} THEN BODY_NOT_SET ELSE last(bodies)[1])
         = IF Header_Parse(H).ok THEN case ELSE BODY_NOT_SET
      /\ (IF bodies = {} THEN NotSet ELSE sub(last(bodies)).msg)
         = IF Header_Parse(H).ok THEN ResponseBody_Parse(case, B).msg ELSE NotSet
  <2>1. {1} # {} /\ {2} # {}
    OBVIOUS
  <2>2. CASE Header_Parse(H).ok
    BY <1>2, <1>4, <1>6, <1>7, <2>1, <2>2
  <2>3. CASE ~Header_Parse(H).ok
    BY <1>2, <1>4, <1>6, <1>7, <2>1, <2>3
  <2> QED  BY <2>2, <2>3
<1> QED  BY <1>1, <1>8

\* A header of texts and numbers is not the absent one.
LEMMA HeaderSet ==
  ASSUME NEW h, Typed(HeaderFields, h)
  PROVE  h # NotSet
<1>1. \A n \in Names(HeaderFields) : h[n] \in Texts \cup Nat
  BY DEF Typed, Names
<1>2. h \in [Names(HeaderFields) -> Texts \cup Nat]
  BY <1>1 DEF Typed
<1> QED  BY <1>2, NotSetAssumption

LEMMA MessageSet ==
  ASSUME NEW m, Typed(EncryptedMessageFields, m)
  PROVE  m # NotSet
<1>1. \A n \in Names(EncryptedMessageFields) : m[n] \in Texts \cup Nat
  BY DEF Typed, Names
<1>2. m \in [Names(EncryptedMessageFields) -> Texts \cup Nat]
  BY <1>1 DEF Typed
<1> QED  BY <1>2, NotSetAssumption

\* With the pieces of packets among the units, a packet can be sent.
LEMMA PairSent ==
  ASSUME PacketPiece \subseteq Units, NEW H \in Seq(Piece), NEW B \in Seq(Piece),
         NEW case \in RequestCases \cup ResponseCases,
         NEW s, s = << <<"header", H>>, <<case, B>> >>
  PROVE  s \in Payload
<1>1. PICK x, y : x = <<"header", H>> /\ y = <<case, B>>
  OBVIOUS
<1>2. x \in Units /\ y \in Units
  BY <1>1 DEF PacketPiece
<1>3. s \in Seq(Units) /\ Len(s) = 2
  BY <1>1, <1>2
<1>4. Base * Base > 2
  <2>1. Base \in Nat /\ Base >= 2
    BY SizeAssumption
  <2> QED  BY <2>1
<1> QED  BY <1>3, <1>4 DEF Payload

LEMMA RequestWritten ==
  ASSUME NEW p, NEW h, NEW case \in RequestCases, NEW b, p = [header |-> h, body_case |-> case,
         body |-> b],
         Typed(HeaderFields, h)
  PROVE  encodeRequest(p) = << <<"header", Header_Serialize(h)>>, <<case,
         RequestBody_Serialize(case, b)>> >>
<1>1. h # NotSet /\ case # BODY_NOT_SET
  BY HeaderSet, CaseNames
<1>2. p.header = h /\ p.body_case = case /\ p.body = b
  OBVIOUS
<1>3. encodeRequest(p) = << <<"header", Header_Serialize(h)>> >> \o << <<case,
      RequestBody_Serialize(case, b)>> >>
  BY <1>1, <1>2 DEF encodeRequest, RequestPacket_Serialize, EmitPacket, EmitIn
<1>4. PICK x, y : x = <<"header", Header_Serialize(h)>> /\ y = <<case,
      RequestBody_Serialize(case, b)>>
  OBVIOUS
<1> QED  BY <1>3, <1>4, Pair

LEMMA ResponseWritten ==
  ASSUME NEW p, NEW h, NEW case \in ResponseCases, NEW b, p = [header |-> h, body_case |-> case,
         body |-> b],
         Typed(HeaderFields, h)
  PROVE  encodeResponse(p) = << <<"header", Header_Serialize(h)>>, <<case,
         ResponseBody_Serialize(case, b)>> >>
<1>1. h # NotSet /\ case # BODY_NOT_SET
  BY HeaderSet, CaseNames
<1>2. p.header = h /\ p.body_case = case /\ p.body = b
  OBVIOUS
<1>3. encodeResponse(p) = << <<"header", Header_Serialize(h)>> >> \o << <<case,
      ResponseBody_Serialize(case, b)>> >>
  BY <1>1, <1>2 DEF encodeResponse, ResponsePacket_Serialize, EmitPacket, EmitIn
<1>4. PICK x, y : x = <<"header", Header_Serialize(h)>> /\ y = <<case,
      ResponseBody_Serialize(case, b)>>
  OBVIOUS
<1> QED  BY <1>3, <1>4, Pair
-----------------------------------------------------------------------------
(* Texts.                                                                  *)

LEMMA PlainTexts ==
  /\ <<>> \in Texts /\ IsUtf8(<<>>)
  /\ \A x \in Words : <<x>> \in Texts /\ IsUtf8(<<x>>)
  /\ \A x \in Words, y \in Nat : <<x, y>> \in Texts /\ IsUtf8(<<x, y>>)
  /\ \A x \in Words, y, z \in Nat : <<x, y, z>> \in Texts /\ IsUtf8(<<x, y, z>>)
<1> DEFINE T == Words \cup Nat
<1>1. <<>> \in Texts /\ IsUtf8(<<>>)
  BY EmptySeq DEF Texts, IsUtf8
<1>2. ASSUME NEW s \in Seq(T)  PROVE s \in Texts /\ IsUtf8(s)
  <2>1. s \in Texts
    BY SeqMonotonic DEF Texts
  <2>2. \A i \in 1 .. Len(s) : s[i] \in T
    BY ElementOfSeq
  <2> QED  BY <2>1, <2>2, NotUtf8Assumption DEF IsUtf8
<1>3. \A x \in Words : x \in T
  OBVIOUS
<1>4. \A x \in Nat : x \in T
  OBVIOUS
<1> HIDE DEF T
<1>5. ASSUME NEW x \in Words  PROVE <<x>> \in Seq(T)
  BY <1>3
<1>6. ASSUME NEW x \in Words, NEW y \in Nat  PROVE <<x, y>> \in Seq(T)
  BY <1>3, <1>4
<1>7. ASSUME NEW x \in Words, NEW y \in Nat, NEW z \in Nat  PROVE <<x, y, z>> \in Seq(T)
  BY <1>3, <1>4
<1> QED  BY <1>1, <1>2, <1>5, <1>6, <1>7

\* The texts the model's packets are filled with.
LEMMA TextFacts ==
  /\ Client \in Texts /\ IsUtf8(Client) /\ Friend \in Texts /\ IsUtf8(Friend)
  /\ Host \in Texts /\ IsUtf8(Host) /\ Note \in Texts /\ IsUtf8(Note)
  /\ Garbled \in Texts /\ ~IsUtf8(Garbled)
  /\ Client # <<>> /\ Friend # Garbled
  /\ \A x \in {"nonce", "tag", "AES-128-GCM", "text"} : <<x>> \in Texts /\ IsUtf8(<<x>>)
  /\ \A x \in {"A", "S", "aes", "gcm", "pub", "sig"}, n \in Nat : <<x, n>> \in Texts
         /\ IsUtf8(<<x, n>>)
  /\ \A m, n \in Nat : <<"rsa", m, n>> \in Texts /\ IsUtf8(<<"rsa", m, n>>)
<1>1. {"A", "B", "S", "note", "nonce", "tag", "AES-128-GCM", "text",
       "aes", "gcm", "rsa", "pub", "sig"} = Words
  BY DEF Words
<1>2. /\ "A" \in Words /\ "B" \in Words /\ "S" \in Words /\ "note" \in Words /\ "rsa" \in Words
      /\ {"nonce", "tag", "AES-128-GCM", "text"} \subseteq Words
      /\ {"A", "S", "aes", "gcm", "pub", "sig"} \subseteq Words
  BY <1>1
<1>3. Garbled \in Texts
  <2>1. NotUtf8 \in Words \cup Nat \cup {NotUtf8}
    OBVIOUS
  <2> HIDE DEF Words
  <2>2. <<NotUtf8>> \in Seq(Words \cup Nat \cup {NotUtf8})
    BY <2>1
  <2> QED  BY <2>2 DEF Garbled, Texts
<1>4. ~IsUtf8(Garbled)
  <2>1. Len(Garbled) = 1 /\ Garbled[1] = NotUtf8 /\ 1 \in 1 .. 1
    BY DEF Garbled
  <2> QED  BY <2>1 DEF IsUtf8
<1>5. Client # <<>> /\ Friend # Garbled
  <2>1. IsUtf8(Friend)
    BY <1>2, PlainTexts DEF Friend
  <2>2. Client[1] = "A" /\ Len(Client) = 1 /\ Len(<<>>) = 0
    BY DEF Client
  <2> QED  BY <1>4, <2>1, <2>2
<1> QED  BY <1>2, <1>3, <1>4, <1>5, PlainTexts DEF Client, Friend, Host, Note

LEMMA ConnFacts == \A c \in Conns : c \in Nat /\ c > 0
<1>1. Cardinality(Conns) \in Nat
  BY ConnsAssumption, FS_CardinalityType
<1> QED  BY <1>1, ConnsAssumption
-----------------------------------------------------------------------------
(* Requests.                                                               *)

AskedHeader(c, h) ==
  /\ h = [message_id |-> <<"A", c>>, command |-> h.command, sender_id |-> Client,
          receiver_id |-> h.receiver_id, timestamp |-> h.timestamp]
  /\ h.command \in Nat /\ h.timestamp \in Nat
  /\ h.receiver_id \in {Host, Friend, Garbled}

AskedBody(c, case, b) ==
  \/ /\ case = "key_agree_req"
     /\ b = [public_key |-> PublicKey(c), sign |-> rsaSign(c)]
  \/ /\ case \in {"key_check_req", "key_logout_req"}
     /\ b = [key_id |-> b.key_id] /\ b.key_id \in Nat
  \/ /\ case = "send_msg_req"
     /\ b = [message |-> b.message]
     /\ b.message = [key_id |-> b.message.key_id, msg_type |-> MSG_TYPE_TEXT,
                     ciphertext |-> b.message.ciphertext, nonce |-> <<"nonce">>,
                     tag |-> <<"tag">>, algorithm |-> <<"AES-128-GCM">>]
     /\ b.message.key_id \in Nat
     /\ b.message.ciphertext \in Texts /\ IsUtf8(b.message.ciphertext)
  \/ /\ case = "query_msg_req"
     /\ b = [server_message_id |-> b.server_message_id] /\ b.server_message_id \in Texts
  \/ /\ case = "query_msg_list_req" /\ b = [sender_id |-> Client, limit |-> 1]

\* A packet as an operation builds it.
Asks(c, p) ==
  /\ p = [header |-> p.header, body_case |-> p.body_case, body |-> p.body]
  /\ AskedHeader(c, p.header)
  /\ AskedBody(c, p.body_case, p.body)

\* A body written and read.
LEMMA BodyCarried ==
  ASSUME NEW F, Fields(F), NEW b, Typed(F, b), Utf8To(F, b, Len(F) - 1)
  PROVE  Emit(F, b) \in Seq(Piece) /\ Emit(F, b) \in Seq(SimplePiece) /\ Scan(F, Emit(F, b)).msg = b
<1>1. Emit(F, b) \in Seq(SimplePiece) /\ SimplePiece \subseteq Piece
  BY EmitLine DEF Piece
<1>2. Emit(F, b) \in Seq(Piece)
  BY <1>1, SeqMonotonic
<1>3. b = [n \in Names(F) |-> b[n]]
  BY DEF Typed
<1> QED  BY <1>1, <1>2, <1>3, EmitStarts, RoundTrip

LEMMA PlainCarried ==
  ASSUME NEW F, Fields(F), NEW b, Typed(F, b), Plain(F, b)
  PROVE  Emit(F, b) \in Seq(Piece) /\ Emit(F, b) \in Seq(SimplePiece) /\ Scan(F, Emit(F, b)).msg = b
<1>1. Utf8To(F, b, Len(F) - 1)
  BY FieldsFacts DEF Plain, Utf8To
<1> QED  BY <1>1, BodyCarried

LEMMA AskedHeaderRead ==
  ASSUME NEW c \in Conns, NEW h, AskedHeader(c, h)
  PROVE  LET r == Header_Parse(Header_Serialize(h))
         IN  /\ Typed(HeaderFields, h) /\ Header_Serialize(h) \in Seq(Piece)
             /\ AskedHeader(c, r.msg)
             /\ r.ok => r.msg = h
             /\ ~r.ok => h.receiver_id = Garbled
<1> DEFINE r == Scan(HeaderFields, Emit(HeaderFields, h))
           g == r.msg
<1>1. PICK n \in Nat, to \in Texts, t \in Nat :
        /\ h = [message_id |-> <<"A", c>>, command |-> n, sender_id |-> Client,
                receiver_id |-> to, timestamp |-> t]
        /\ to \in {Host, Friend, Garbled}
  BY TextFacts DEF AskedHeader
<1>2. <<"A", c>> \in Texts /\ IsUtf8(<<"A", c>>) /\ Client \in Texts /\ IsUtf8(Client)
  BY TextFacts, ConnFacts
<1>3. Typed(HeaderFields, h) /\ (IsUtf8(to) <=> Plain(HeaderFields, h))
  BY <1>1, <1>2, HeaderTyped
<1>4. h.receiver_id = to /\ h.message_id = <<"A", c>> /\ h.command = n
      /\ h.sender_id = Client /\ h.timestamp = t
  BY <1>1
<1>5. Starts(Emit(HeaderFields, h), HeaderFields, h)
  BY HeaderDescribed, EmitStarts
<1>6. g = [x \in Names(HeaderFields) |-> g[x]]
  BY ScanNames
<1>7. /\ g.message_id = <<"A", c>> /\ g.command = n /\ g.sender_id = Client /\ g.receiver_id = to
      /\ g.timestamp \in Nat
  <2>1. 1 \in 1 .. Len(HeaderFields) /\ 2 \in 1 .. Len(HeaderFields) /\ 3 \in 1 .. Len(HeaderFields)
        /\ 4 \in 1 .. Len(HeaderFields) /\ 5 \in 1 .. Len(HeaderFields)
    BY HeaderDescribed
  <2>2. \A j \in 1 .. 3 : j = 1 \/ j = 2 \/ j = 3
    OBVIOUS
  <2>3. Utf8To(HeaderFields, h, 1 - 1) /\ Utf8To(HeaderFields, h, 2 - 1)
        /\ Utf8To(HeaderFields, h, 3 - 1) /\ Utf8To(HeaderFields, h, 4 - 1)
    BY <1>2, <1>4, <2>2, HeaderDescribed DEF Utf8To
  <2>4. Fields(HeaderFields)
    BY HeaderDescribed
  <2>5. g[HeaderFields[1].name] = h[HeaderFields[1].name]
    BY <1>5, <2>1, <2>3, <2>4, ScanValue
  <2>6. g[HeaderFields[2].name] = h[HeaderFields[2].name]
    BY <1>5, <2>1, <2>3, <2>4, ScanValue
  <2>7. g[HeaderFields[3].name] = h[HeaderFields[3].name]
    BY <1>5, <2>1, <2>3, <2>4, ScanValue
  <2>8. g[HeaderFields[4].name] = h[HeaderFields[4].name]
    BY <1>5, <2>1, <2>3, <2>4, ScanValue
  <2>9. Typed(HeaderFields, g)
    BY <1>3, <1>5, <2>4, ReadTyped
  <2>10. g.timestamp \in Nat
    BY <2>1, <2>9, HeaderDescribed DEF Typed
  <2> HIDE DEF g
  <2> QED  BY <1>4, <2>5, <2>6, <2>7, <2>8, <2>10, HeaderDescribed
<1> HIDE DEF g
<1>8. g = [message_id |-> <<"A", c>>, command |-> g.command, sender_id |-> Client,
           receiver_id |-> g.receiver_id, timestamp |-> g.timestamp]
  BY <1>6, <1>7, HeaderDescribed
<1>9. AskedHeader(c, g)
  BY <1>1, <1>7, <1>8 DEF AskedHeader
<1>10. r.ok <=> IsUtf8(to)
  BY <1>3, <1>5, HeaderDescribed, ScanOk
<1>11. r.ok => g = h
  <2> SUFFICES ASSUME r.ok  PROVE g = h
    OBVIOUS
  <2>1. Plain(HeaderFields, h)
    BY <1>3, <1>10
  <2> QED  BY <1>3, <2>1, HeaderDescribed, PlainCarried DEF g
<1>12. ~r.ok => h.receiver_id = Garbled
  BY <1>1, <1>4, <1>10, TextFacts
<1>13. Emit(HeaderFields, h) \in Seq(Piece)
  <2>1. Emit(HeaderFields, h) \in Seq(SimplePiece) /\ SimplePiece \subseteq Piece
    BY <1>3, HeaderDescribed, EmitLine DEF Piece
  <2> QED  BY <2>1, SeqMonotonic
<1> QED  BY <1>3, <1>9, <1>11, <1>12, <1>13 DEF g, Header_Parse, Header_Serialize

LEMMA AskedBodyRead ==
  ASSUME NEW c \in Conns, NEW case, NEW b, AskedBody(c, case, b)
  PROVE  /\ case \in RequestCases
         /\ RequestBody_Serialize(case, b) \in Seq(Piece)
         /\ RequestBody_Parse(case, RequestBody_Serialize(case, b)).msg = b
         /\ RequestBody(case, b)
<1>1. c \in Nat
  BY ConnFacts
<1>2. CASE case = "key_agree_req"
  <2>1. PICK x, y : x = PublicKey(c) /\ y = rsaSign(c) /\ b = [public_key |-> x, sign |-> y]
    BY <1>2 DEF AskedBody
  <2>2. x \in Texts /\ y \in Texts /\ IsUtf8(x) /\ IsUtf8(y)
    BY <1>1, <2>1, TextFacts DEF PublicKey, rsaSign
  <2>3. Typed(KeyAgreementRequestFields, b) /\ Plain(KeyAgreementRequestFields, b)
    BY <2>1, <2>2, KeyAgreementRequestTyped
  <2>4. /\ RequestBody_Serialize(case, b) = Emit(KeyAgreementRequestFields, b)
        /\ \A s : RequestBody_Parse(case, s) = Scan(KeyAgreementRequestFields, s)
    BY <1>2 DEF RequestBody_Serialize, RequestBody_Parse, KeyAgreementRequest_Serialize,
         KeyAgreementRequest_Parse
  <2>5. RequestBody(case, b)
    <3>1. Has(KeyAgreementRequestFields, b)
      BY <2>3, TypedHas
    <3> QED  BY <1>2, <3>1 DEF RequestBody, KeyAgreementRequest
  <2> QED  BY <1>2, <2>3, <2>4, <2>5, KeyAgreementRequestDescribed, PlainCarried DEF RequestCases
<1>3. CASE case = "key_check_req"
  <2>1. PICK x \in Nat : b = [key_id |-> x]
    BY <1>3 DEF AskedBody
  <2>3. Typed(KeyCheckRequestFields, b) /\ Plain(KeyCheckRequestFields, b)
    BY <2>1, KeyCheckRequestTyped
  <2>4. /\ RequestBody_Serialize(case, b) = Emit(KeyCheckRequestFields, b)
        /\ \A s : RequestBody_Parse(case, s) = Scan(KeyCheckRequestFields, s)
    BY <1>3 DEF RequestBody_Serialize, RequestBody_Parse, KeyCheckRequest_Serialize,
         KeyCheckRequest_Parse
  <2>5. RequestBody(case, b)
    <3>1. Has(KeyCheckRequestFields, b)
      BY <2>3, TypedHas
    <3> QED  BY <1>3, <3>1 DEF RequestBody, KeyCheckRequest
  <2> QED  BY <1>3, <2>3, <2>4, <2>5, KeyCheckRequestDescribed, PlainCarried DEF RequestCases
<1>4. CASE case = "key_logout_req"
  <2>1. PICK x \in Nat : b = [key_id |-> x]
    BY <1>4 DEF AskedBody
  <2>3. Typed(KeyLogoutRequestFields, b) /\ Plain(KeyLogoutRequestFields, b)
    BY <2>1, KeyLogoutRequestTyped
  <2>4. /\ RequestBody_Serialize(case, b) = Emit(KeyLogoutRequestFields, b)
        /\ \A s : RequestBody_Parse(case, s) = Scan(KeyLogoutRequestFields, s)
    BY <1>4 DEF RequestBody_Serialize, RequestBody_Parse, KeyLogoutRequest_Serialize,
         KeyLogoutRequest_Parse
  <2>5. RequestBody(case, b)
    <3>1. Has(KeyLogoutRequestFields, b)
      BY <2>3, TypedHas
    <3> QED  BY <1>4, <3>1 DEF RequestBody, KeyLogoutRequest
  <2> QED  BY <1>4, <2>3, <2>4, <2>5, KeyLogoutRequestDescribed, PlainCarried DEF RequestCases
<1>5. CASE case = "query_msg_req"
  <2>1. PICK x \in Texts : b = [server_message_id |-> x]
    BY <1>5 DEF AskedBody
  <2>2. Typed(QueryMessageRequestFields, b)
    BY <2>1, QueryMessageRequestTyped
  <2>3. Utf8To(QueryMessageRequestFields, b, Len(QueryMessageRequestFields) - 1)
    <3>1. 1 .. 1 - 1 = {}
      OBVIOUS
    <3> QED  BY <3>1, QueryMessageRequestDescribed DEF Utf8To
  <2>4. /\ RequestBody_Serialize(case, b) = Emit(QueryMessageRequestFields, b)
        /\ \A s : RequestBody_Parse(case, s) = Scan(QueryMessageRequestFields, s)
    BY <1>5 DEF RequestBody_Serialize, RequestBody_Parse, QueryMessageRequest_Serialize,
         QueryMessageRequest_Parse
  <2>5. RequestBody(case, b)
    <3>1. Has(QueryMessageRequestFields, b)
      BY <2>2, TypedHas
    <3> QED  BY <1>5, <3>1 DEF RequestBody, QueryMessageRequest
  <2>6. /\ Emit(QueryMessageRequestFields, b) \in Seq(Piece)
        /\ Scan(QueryMessageRequestFields, Emit(QueryMessageRequestFields, b)).msg = b
    BY <2>2, <2>3, QueryMessageRequestDescribed, BodyCarried
  <2> QED  BY <1>5, <2>4, <2>5, <2>6 DEF RequestCases
<1>6. CASE case = "query_msg_list_req"
  <2>1. PICK x, y : x = Client /\ y = 1 /\ b = [sender_id |-> x, limit |-> y]
    BY <1>6 DEF AskedBody
  <2>2. x \in Texts /\ IsUtf8(x) /\ y \in Nat
    BY <2>1, TextFacts
  <2>3. Typed(QueryMessageListRequestFields, b) /\ Plain(QueryMessageListRequestFields, b)
    BY <2>1, <2>2, QueryMessageListRequestTyped
  <2>4. /\ RequestBody_Serialize(case, b) = Emit(QueryMessageListRequestFields, b)
        /\ \A s : RequestBody_Parse(case, s) = Scan(QueryMessageListRequestFields, s)
    BY <1>6 DEF RequestBody_Serialize, RequestBody_Parse, QueryMessageListRequest_Serialize,
         QueryMessageListRequest_Parse
  <2>5. RequestBody(case, b)
    <3>1. Has(QueryMessageListRequestFields, b)
      BY <2>3, TypedHas
    <3> QED  BY <1>6, <3>1 DEF RequestBody, QueryMessageListRequest
  <2> QED  BY <1>6, <2>3, <2>4, <2>5, QueryMessageListRequestDescribed,
      PlainCarried DEF RequestCases
<1>7. CASE case = "send_msg_req"
  <2>1. PICK m : m = b.message /\ b = [message |-> m]
    BY <1>7 DEF AskedBody
  <2>2. PICK k \in Nat, y \in Texts :
          /\ IsUtf8(y)
          /\ m = [key_id |-> k, msg_type |-> MSG_TYPE_TEXT, ciphertext |-> y, nonce |-> <<"nonce">>,
                  tag |-> <<"tag">>, algorithm |-> <<"AES-128-GCM">>]
    BY <1>7, <2>1 DEF AskedBody
  <2>3. PICK u, v, w, t : /\ u = <<"nonce">> /\ v = <<"tag">> /\ w = <<"AES-128-GCM">>
        /\ t = MSG_TYPE_TEXT
                          /\ u \in Texts /\ v \in Texts /\ w \in Texts /\ t \in Nat
                          /\ IsUtf8(u) /\ IsUtf8(v) /\ IsUtf8(w)
    <3>1. MSG_TYPE_TEXT \in Nat
      BY DEF MSG_TYPE_TEXT
    <3> QED  BY <3>1, TextFacts
  <2>4. m = [key_id |-> k, msg_type |-> t, ciphertext |-> y, nonce |-> u, tag |-> v,
        algorithm |-> w]
    BY <2>2, <2>3
  <2>5. Typed(EncryptedMessageFields, m) /\ Plain(EncryptedMessageFields, m)
    <3>1. k \in Nat /\ t \in Nat /\ y \in Texts /\ u \in Texts /\ v \in Texts /\ w \in Texts
      BY <2>3
    <3>2. IsUtf8(y) /\ IsUtf8(u) /\ IsUtf8(v) /\ IsUtf8(w)
      BY <2>2, <2>3
    <3> HIDE <2>2, <2>3
    <3>3. Typed(EncryptedMessageFields, m)
      BY <2>4, <3>1, EncryptedMessageTyped
    <3>4. Plain(EncryptedMessageFields, m)
      BY <2>4, <3>2, EncryptedMessageTyped
    <3> QED  BY <3>3, <3>4
  <2>6. m # NotSet
    BY <2>5, MessageSet
  <2> DEFINE E == Emit(EncryptedMessageFields, m)
  <2>7. E \in Seq(SimplePiece) /\ Scan(EncryptedMessageFields, E).msg = m
    BY <2>5, EncryptedMessageDescribed, PlainCarried
  <2>8. RequestBody_Serialize(case, b) = << <<"message", E>> >>
    BY <1>7, <2>1, <2>6 DEF RequestBody_Serialize, SendMessageRequest_Serialize, EmitIn,
        EncryptedMessage_Serialize
  <2> HIDE DEF E
  <2>9. PICK z : z = <<"message", E>>
    OBVIOUS
  <2>10. z \in Piece
    BY <2>7, <2>9 DEF Piece, Name
  <2>11. <<z>> \in Seq(Piece) /\ <<z>> # <<>> /\ <<z>>[1] = z
    BY <2>10
  <2>12. RequestBody_Parse(case, <<z>>).msg = [message |-> Scan(EncryptedMessageFields, E).msg]
    <3>1. z[2] = E
      BY <2>9, PieceParts
    <3>2. RequestBody_Parse(case, <<z>>) = SendMessageRequest_Parse(<<z>>)
      BY <1>7 DEF RequestBody_Parse
    <3>3. SendMessageRequest_Parse(<<z>>).msg = [message |-> EncryptedMessage_Parse(E).msg]
      BY <2>11, <3>1 DEF SendMessageRequest_Parse, Result
    <3> QED  BY <3>2, <3>3 DEF EncryptedMessage_Parse
  <2>13. RequestBody(case, b)
    <3>1. EncryptedMessage(m)
      BY <2>5, TypedHas DEF EncryptedMessage
    <3> QED  BY <1>7, <2>1, <3>1 DEF RequestBody, SendMessageRequest
  <2> QED  BY <1>7, <2>1, <2>7, <2>8, <2>9, <2>11, <2>12, <2>13 DEF RequestCases
<1> QED  BY <1>2, <1>3, <1>4, <1>5, <1>6, <1>7 DEF AskedBody

\* A request arrives as it was built, or, if its receiver is not UTF-8, with its
\* header alone.
LEMMA RequestCarried ==
  ASSUME PacketPiece \subseteq Units, NEW c \in Conns, NEW p, Asks(c, p)
  PROVE  LET q == decodeRequest(encodeRequest(p))
         IN  /\ encodeRequest(p) \in Payload
             /\ q = p \/ (q.body_case = BODY_NOT_SET /\ q.body = NotSet)
             /\ q = [header |-> q.header, body_case |-> q.body_case, body |-> q.body]
             /\ AskedHeader(c, q.header)
<1> DEFINE h == p.header
           H == Header_Serialize(h)
           B == RequestBody_Serialize(p.body_case, p.body)
           s == << <<"header", H>>, <<p.body_case, B>> >>
<1>1. /\ p = [header |-> h, body_case |-> p.body_case, body |-> p.body]
      /\ AskedHeader(c, h) /\ AskedBody(c, p.body_case, p.body)
  BY DEF Asks
<1>2. /\ p.body_case \in RequestCases /\ B \in Seq(Piece)
      /\ RequestBody_Parse(p.body_case, B).msg = p.body
  BY <1>1, AskedBodyRead
<1>3. /\ Typed(HeaderFields, h) /\ H \in Seq(Piece) /\ AskedHeader(c, Header_Parse(H).msg)
      /\ Header_Parse(H).ok => Header_Parse(H).msg = h
  BY <1>1, AskedHeaderRead
<1>4. encodeRequest(p) = s
  BY <1>1, <1>2, <1>3, RequestWritten
<1>5. s \in Payload
  BY <1>2, <1>3, PairSent
<1>6. decodeRequest(s) =
           [header |-> Header_Parse(H).msg,
            body_case |-> IF Header_Parse(H).ok THEN p.body_case ELSE BODY_NOT_SET,
            body |-> IF Header_Parse(H).ok THEN RequestBody_Parse(p.body_case, B).msg ELSE NotSet]
  BY <1>2, RequestRead
<1> HIDE DEF s, H, B
<1>7. CASE Header_Parse(H).ok
  <2>1. decodeRequest(s) = [header |-> h, body_case |-> p.body_case, body |-> p.body]
    BY <1>2, <1>3, <1>6, <1>7
  <2> QED  BY <1>1, <1>4, <1>5, <2>1
<1>8. CASE ~Header_Parse(H).ok
  <2>1. decodeRequest(s) = [header |-> Header_Parse(H).msg, body_case |-> BODY_NOT_SET,
        body |-> NotSet]
    BY <1>6, <1>8
  <2> QED  BY <1>3, <1>4, <1>5, <2>1
<1> QED  BY <1>7, <1>8

\* Either way it is a packet of the protocol.
LEMMA AskedPacket ==
  ASSUME NEW c \in Conns, NEW q,
         q = [header |-> q.header, body_case |-> q.body_case, body |-> q.body],
         AskedHeader(c, q.header),
         AskedBody(c, q.body_case, q.body) \/ (q.body_case = BODY_NOT_SET /\ q.body = NotSet)
  PROVE  RequestPacket(q)
<1>1. Header(q.header)
  BY AskedHeaderRead, TypedHas DEF Header
<1>2. RequestBody(q.body_case, q.body)
  <2>1. CASE AskedBody(c, q.body_case, q.body)
    BY <2>1, AskedBodyRead
  <2>2. CASE q.body_case = BODY_NOT_SET /\ q.body = NotSet
    BY <2>2 DEF RequestBody, BODY_NOT_SET
  <2> QED  BY <2>1, <2>2
<1>3. DOMAIN q = {"header", "body_case", "body"}
  OBVIOUS
<1> QED  BY <1>1, <1>2, <1>3 DEF RequestPacket, IsPacket
-----------------------------------------------------------------------------
(* Responses.                                                              *)

\* A list of messages that can be read to its end.
AnsweredList(b) ==
  /\ b = [code |-> b.code, message |-> b.message, messages |-> b.messages]
  /\ b.code \in Nat /\ b.message \in Texts /\ IsUtf8(b.message)
  /\ Len(b.messages) \in Nat /\ b.messages = [i \in 1 .. Len(b.messages) |-> b.messages[i]]
  /\ \A i \in 1 .. Len(b.messages) : /\ Typed(MessageSummaryFields, b.messages[i])
                                     /\ Plain(MessageSummaryFields, b.messages[i])

\* A body as the services build it: only the id that is asked for may not be UTF-8.
AnsweredBody(case, b) ==
  \/ /\ case = "send_msg_resp"
     /\ Typed(SendMessageResponseFields, b) /\ Plain(SendMessageResponseFields, b)
  \/ /\ case = "key_op_resp"
     /\ Typed(KeyOperationResponseFields, b) /\ Plain(KeyOperationResponseFields, b)
  \/ case = "query_msg_resp" /\ Typed(QueryMessageResponseFields, b)
  \/ case = "query_msg_list_resp" /\ AnsweredList(b)

LEMMA ListRead ==
  ASSUME NEW b, AnsweredList(b)
  PROVE  LET B == QueryMessageListResponse_Serialize(b)
         IN  B \in Seq(Piece) /\ QueryMessageListResponse_Parse(B).msg = b
             /\ QueryMessageListResponse(b)
<1> DEFINE n == Len(b.messages)
           e == Emit(ListFields, b)
           items == [i \in 1 .. n |-> <<"messages", Emit(MessageSummaryFields, b.messages[i])>>]
           s == e \o items
<1>1. PICK c, t, msgs : /\ c \in Nat /\ t \in Texts /\ IsUtf8(t)
                        /\ b = [code |-> c, message |-> t, messages |-> msgs]
                        /\ b.code = c /\ b.message = t /\ b.messages = msgs
  BY DEF AnsweredList
<1>2. n \in Nat /\ msgs = [i \in 1 .. n |-> msgs[i]]
  BY <1>1 DEF AnsweredList
<1>3. ASSUME NEW i \in 1 .. n
      PROVE  LET E == Emit(MessageSummaryFields, msgs[i])
             IN  /\ E \in Seq(SimplePiece) /\ MessageSummary_Parse(E).msg = msgs[i]
                 /\ MessageSummary_Parse(E).ok /\ MessageSummary(msgs[i])
  <2> DEFINE E == Emit(MessageSummaryFields, msgs[i])
  <2>1. Typed(MessageSummaryFields, msgs[i]) /\ Plain(MessageSummaryFields, msgs[i])
        /\ Fields(MessageSummaryFields)
    BY <1>1, <1>3, MessageSummaryDescribed DEF AnsweredList
  <2>2. E \in Seq(SimplePiece) /\ Scan(MessageSummaryFields, E).msg = msgs[i]
    BY <2>1, PlainCarried
  <2>3. Scan(MessageSummaryFields, E).ok
    BY <2>1, EmitStarts, ScanOk
  <2>4. Has(MessageSummaryFields, msgs[i])
    BY <2>1, TypedHas
  <2> QED  BY <2>2, <2>3, <2>4 DEF MessageSummary_Parse, MessageSummary
<1>4. items \in Seq(Piece) /\ Len(items) = n
  <2>1. ASSUME NEW i \in 1 .. n  PROVE <<"messages", Emit(MessageSummaryFields,
               b.messages[i])>> \in Piece
    BY <1>1, <1>3, <2>1 DEF Piece, Name
  <2> HIDE DEF n
  <2> QED  BY <1>2, <2>1
<1>5. ASSUME NEW i \in 1 .. n
      PROVE  /\ items[i] # <<>> /\ items[i][1] = "messages"
             /\ items[i][2] = Emit(MessageSummaryFields, msgs[i])
  <2>1. PICK z : z = Emit(MessageSummaryFields, msgs[i])
    OBVIOUS
  <2>2. items[i] = <<"messages", z>>
    BY <1>1, <1>5, <2>1
  <2> QED  BY <2>1, <2>2, PieceParts
<1>6. e \in Seq(Piece) /\ Len(e) = 2
  <2> DEFINE b2 == [code |-> c, message |-> t]
  <2>1. Typed(ListFields, b2)
    BY <1>1, ListTyped
  <2>2. b2.code = b.code /\ b2.message = b.message
    BY <1>1
  <2>3. \A i \in 1 .. 2 : i = 1 \/ i = 2
    OBVIOUS
  <2> HIDE DEF b2
  <2>4. \A i \in 1 .. 2 : b2[ListFields[i].name] = b[ListFields[i].name]
    BY <2>2, <2>3, ListDescribed
  <2>5. Emit(ListFields, b2) = Emit(ListFields, b)
    BY <2>4, ListDescribed DEF Emit
  <2>6. Emit(ListFields, b2) \in Seq(SimplePiece) /\ SimplePiece \subseteq Piece
    BY <2>1, ListDescribed, EmitLine DEF Piece
  <2>7. Emit(ListFields, b2) \in Seq(Piece)
    BY <2>6, SeqMonotonic
  <2> QED  BY <2>5, <2>7, ListDescribed, EmitStarts
<1>7. Starts(e, ListFields, b)
  BY ListDescribed, EmitStarts
<1> HIDE DEF e, items, n
<1>8. /\ s \in Seq(Piece) /\ Len(s) = 2 + n /\ SubSeq(s, 3, Len(s)) = items
      /\ \A i \in 1 .. 2 : s[i] = e[i]
      /\ \A i \in 3 .. Len(s) : s[i] = items[i - 2]
  <2>1. /\ s \in Seq(Piece) /\ Len(s) = Len(e) + Len(items)
        /\ \A i \in 1 .. Len(e) + Len(items) :
             s[i] = IF i <= Len(e) THEN e[i] ELSE items[i - Len(e)]
    BY <1>4, <1>6, ConcatProperties, Zenon
  <2> HIDE DEF s
  <2>2. /\ \A i \in 1 .. 2 : s[i] = e[i]
        /\ \A i \in 3 .. Len(s) : s[i] = items[i - 2]
    BY <1>2, <1>4, <1>6, <2>1
  <2>3. SubSeq(s, 3, Len(s)) = items
    BY <1>2, <1>4, <1>6, <2>1, AfterTwo DEF s
  <2> QED  BY <1>4, <1>6, <2>1, <2>2, <2>3
<1> HIDE DEF s
<1>9. Starts(s, ListFields, b)
  <2>1. \A i \in 3 .. Len(s) : i - 2 \in 1 .. n
    BY <1>2, <1>8
  <2>2. \A i \in 3 .. Len(s) : s[i] # <<>> /\ s[i][1] \notin Names(ListFields)
    BY <1>5, <1>8, <2>1, ListDescribed
  <2>3. \A i \in 1 .. 2 : s[i] = IF b[ListFields[i].name] = Default(ListFields[i]) THEN <<>>
              ELSE <<ListFields[i].name, b[ListFields[i].name]>>
    BY <1>7, <1>8, ListDescribed DEF Starts
  <2> QED  BY <1>2, <1>8, <2>2, <2>3, ListDescribed DEF Starts
<1>10. Plain(ListFields, b)
  <2>1. \A i \in 1 .. 2 : i = 1 \/ i = 2
    OBVIOUS
  <2> QED  BY <1>1, <2>1, ListDescribed DEF Plain, Utf8To
<1>11. Scan(ListFields, s).ok
  BY <1>9, <1>10, ListDescribed, ScanOk
<1>12. Scan(ListFields, s).msg.code = b.code /\ Scan(ListFields, s).msg.message = b.message
  <2>1. Utf8To(ListFields, b, 1 - 1) /\ Utf8To(ListFields, b, 2 - 1)
        /\ 1 \in 1 .. Len(ListFields) /\ 2 \in 1 .. Len(ListFields)
    BY <1>10, ListDescribed DEF Plain, Utf8To
  <2>2. Scan(ListFields, s).msg[ListFields[1].name] = b[ListFields[1].name]
    BY <1>9, <2>1, ListDescribed, ScanValue
  <2>3. Scan(ListFields, s).msg[ListFields[2].name] = b[ListFields[2].name]
    BY <1>9, <2>1, ListDescribed, ScanValue
  <2> QED  BY <2>2, <2>3, ListDescribed
<1>13. QueryMessageListResponse_Serialize(b) = s
  BY DEF QueryMessageListResponse_Serialize, MessageSummary_Serialize, s, e, items, n
<1>14. QueryMessageListResponse_Parse(s).msg = b
  <2> DEFINE good(f) == MessageSummary_Parse(f[2]).ok
             read == {i \in 1 .. Len(items) : \A j \in 1 .. i - 1 : good(items[j])}
  <2>1. QueryMessageListResponse_Parse(s).msg =
          [code |-> Scan(ListFields, s).msg.code, message |-> Scan(ListFields, s).msg.message,
           messages |-> [i \in read |-> MessageSummary_Parse(items[i][2]).msg]]
    BY <1>8, <1>11 DEF QueryMessageListResponse_Parse, Result, Reach
  <2>2. \A i \in 1 .. n : good(items[i]) /\ MessageSummary_Parse(items[i][2]).msg = msgs[i]
    BY <1>3, <1>5
  <2>3. read = 1 .. n
    BY <1>2, <1>4, <2>2
  <2>4. [i \in read |-> MessageSummary_Parse(items[i][2]).msg] = [i \in 1 .. n |-> msgs[i]]
    BY <2>2, <2>3
  <2>5. [i \in read |-> MessageSummary_Parse(items[i][2]).msg] = msgs
    BY <1>2, <2>4
  <2> QED  BY <1>1, <1>12, <2>1, <2>5
<1>15. QueryMessageListResponse(b)
  <2>1. Has(ListFields, [code |-> c, message |-> t])
    BY <1>1, ListTyped, TypedHas
  <2>2. DOMAIN b = {"code", "message", "messages"}
    BY <1>1
  <2> QED  BY <1>1, <1>3, <2>1, <2>2 DEF QueryMessageListResponse, n
<1> QED  BY <1>8, <1>13, <1>14, <1>15

LEMMA AnsweredBodyRead ==
  ASSUME NEW case, NEW b, AnsweredBody(case, b)
  PROVE  LET B == ResponseBody_Serialize(case, b)
             r == ResponseBody_Parse(case, B).msg
         IN  /\ case \in ResponseCases /\ B \in Seq(Piece)
             /\ ResponseBody(case, r)
             /\ r.code = b.code
             /\ case # "query_msg_resp" => r = b
<1>1. CASE case = "send_msg_resp"
  <2> DEFINE B == Emit(SendMessageResponseFields, b)
  <2>1. ResponseBody_Serialize(case, b) = B
    BY <1>1 DEF ResponseBody_Serialize, SendMessageResponse_Serialize
  <2>2. ResponseBody_Parse(case, B) = Scan(SendMessageResponseFields, B)
    BY <1>1 DEF ResponseBody_Parse, SendMessageResponse_Parse
  <2>3. Typed(SendMessageResponseFields, b) /\ Plain(SendMessageResponseFields, b)
    BY <1>1 DEF AnsweredBody
  <2>4. B \in Seq(Piece) /\ Scan(SendMessageResponseFields, B).msg = b
    BY <2>3, SendMessageResponseDescribed, PlainCarried
  <2>5. ResponseBody(case, b)
    <3>1. Has(SendMessageResponseFields, b)
      BY <2>3, TypedHas
    <3> QED  BY <1>1, <3>1 DEF ResponseBody, SendMessageResponse
  <2> QED  BY <1>1, <2>1, <2>2, <2>4, <2>5 DEF ResponseCases
<1>2. CASE case = "key_op_resp"
  <2> DEFINE B == Emit(KeyOperationResponseFields, b)
  <2>1. ResponseBody_Serialize(case, b) = B
    BY <1>2 DEF ResponseBody_Serialize, KeyOperationResponse_Serialize
  <2>2. ResponseBody_Parse(case, B) = Scan(KeyOperationResponseFields, B)
    BY <1>2 DEF ResponseBody_Parse, KeyOperationResponse_Parse
  <2>3. Typed(KeyOperationResponseFields, b) /\ Plain(KeyOperationResponseFields, b)
    BY <1>2 DEF AnsweredBody
  <2>4. B \in Seq(Piece) /\ Scan(KeyOperationResponseFields, B).msg = b
    BY <2>3, KeyOperationResponseDescribed, PlainCarried
  <2>5. ResponseBody(case, b)
    <3>1. Has(KeyOperationResponseFields, b)
      BY <2>3, TypedHas
    <3> QED  BY <1>2, <3>1 DEF ResponseBody, KeyOperationResponse
  <2> QED  BY <1>2, <2>1, <2>2, <2>4, <2>5 DEF ResponseCases
<1>3. CASE case = "query_msg_resp"
  <2> DEFINE F == QueryMessageResponseFields
             B == Emit(F, b)
             r == Scan(F, B).msg
  <2>1. ResponseBody_Serialize(case, b) = B
    BY <1>3 DEF ResponseBody_Serialize, QueryMessageResponse_Serialize
  <2>2. ResponseBody_Parse(case, B) = Scan(F, B)
    BY <1>3 DEF ResponseBody_Parse, QueryMessageResponse_Parse
  <2>3. Typed(F, b) /\ Fields(F)
    BY <1>3, QueryMessageResponseDescribed DEF AnsweredBody
  <2>4. B \in Seq(Piece)
    <3>1. B \in Seq(SimplePiece) /\ SimplePiece \subseteq Piece
      BY <2>3, EmitLine DEF Piece
    <3> QED  BY <3>1, SeqMonotonic
  <2>5. Starts(B, F, b)
    BY <2>3, EmitStarts
  <2>6. ResponseBody(case, r)
    <3>1. Has(F, r)
      BY <2>3, <2>5, ReadTyped, TypedHas
    <3> QED  BY <1>3, <3>1 DEF ResponseBody, QueryMessageResponse
  <2>7. r.code = b.code
    <3>1. 1 \in 1 .. Len(F) /\ Utf8To(F, b, 1 - 1)
      BY QueryMessageResponseDescribed DEF Utf8To
    <3>2. r[F[1].name] = b[F[1].name]
      BY <2>3, <2>5, <3>1, ScanValue
    <3> HIDE DEF r
    <3> QED  BY <3>2, QueryMessageResponseDescribed
  <2> HIDE DEF r, B
  <2>8. r = ResponseBody_Parse(case, B).msg
    BY <2>2 DEF r
  <2> QED  BY <1>3, <2>1, <2>4, <2>6, <2>7, <2>8 DEF ResponseCases
<1>4. CASE case = "query_msg_list_resp"
  <2> DEFINE B == QueryMessageListResponse_Serialize(b)
  <2>1. ResponseBody_Serialize(case, b) = B
    BY <1>4 DEF ResponseBody_Serialize
  <2>2. ResponseBody_Parse(case, B) = QueryMessageListResponse_Parse(B)
    BY <1>4 DEF ResponseBody_Parse
  <2>3. B \in Seq(Piece) /\ QueryMessageListResponse_Parse(B).msg = b /\ QueryMessageListResponse(b)
    BY <1>4, ListRead DEF AnsweredBody
  <2>4. ResponseBody(case, b)
    BY <1>4, <2>3 DEF ResponseBody
  <2> QED  BY <1>4, <2>1, <2>2, <2>3, <2>4 DEF ResponseCases
<1> QED  BY <1>1, <1>2, <1>3, <1>4 DEF AnsweredBody

\* A response arrives with its kind and its code, and but for a query's with its whole
\* body.
LEMMA ResponseCarried ==
  ASSUME PacketPiece \subseteq Units, NEW p,
         p = [header |-> p.header, body_case |-> p.body_case, body |-> p.body],
         Typed(HeaderFields, p.header), Plain(HeaderFields, p.header),
         AnsweredBody(p.body_case, p.body)
  PROVE  LET r == decodeResponse(encodeResponse(p))
         IN  /\ encodeResponse(p) \in Payload
             /\ ResponsePacket(r)
             /\ r.body_case = p.body_case /\ r.body.code = p.body.code
             /\ p.body_case \in ResponseCases
             /\ p.body_case # "query_msg_resp" => r.body = p.body
<1> DEFINE h == p.header
           H == Header_Serialize(h)
           B == ResponseBody_Serialize(p.body_case, p.body)
           s == << <<"header", H>>, <<p.body_case, B>> >>
           rb == ResponseBody_Parse(p.body_case, B).msg
<1>1. /\ p.body_case \in ResponseCases /\ B \in Seq(Piece)
      /\ ResponseBody(p.body_case, rb) /\ rb.code = p.body.code
      /\ p.body_case # "query_msg_resp" => rb = p.body
  BY AnsweredBodyRead
<1>2. H \in Seq(Piece) /\ Header_Parse(H).msg = h /\ Header_Parse(H).ok
  <2>1. Emit(HeaderFields, h) \in Seq(Piece) /\ Scan(HeaderFields, Emit(HeaderFields, h)).msg = h
    BY HeaderDescribed, PlainCarried
  <2>2. Scan(HeaderFields, Emit(HeaderFields, h)).ok
    BY HeaderDescribed, EmitStarts, ScanOk
  <2> QED  BY <2>1, <2>2 DEF Header_Serialize, Header_Parse
<1>3. encodeResponse(p) = s
  BY <1>1, ResponseWritten
<1>4. s \in Payload
  BY <1>1, <1>2, PairSent
<1>5. decodeResponse(s) = [header |-> h, body_case |-> p.body_case, body |-> rb]
  BY <1>1, <1>2, ResponseRead
<1>6. Header(h)
  BY TypedHas DEF Header
<1> HIDE DEF s, rb, h
<1>7. ResponsePacket([header |-> h, body_case |-> p.body_case, body |-> rb])
  BY <1>1, <1>6 DEF ResponsePacket, IsPacket
<1> QED  BY <1>1, <1>3, <1>4, <1>5, <1>7
-----------------------------------------------------------------------------
(* The invariant of the whole.                                             *)

KeyText == {<<>>} \cup {PublicKey(n) : n \in Conns}

\* A message as it is stored: its id is the server's own.
Stored == {m \in [id : Texts, receiver : {Friend}, key : Nat] : IsUtf8(m.id)}

Tables ==
  /\ Server!TypeOK
  /\ log \in Seq(Stored)
  /\ pem \in KeyText /\ rsa \in [Conns -> KeyText]
  /\ stage \in [Conns -> {"start", "opened", "written", "loaded"}]
  /\ call = [c \in Conns |-> call[c]] /\ done = [c \in Conns |-> done[c]]

ClientOK ==
  /\ succeeded \subseteq Conns
  /\ cache = [key |-> cache.key, bytes |-> cache.bytes, status |-> cache.status]
  /\ cache.status \in {0, 1}
  /\ CachedKeyIssued
  /\ lastId # <<>> => \E i \in 1 .. Len(log) : log[i].id = lastId

\* What a client has sent is its operation's packet, and reads as that or as a header
\* alone.
Asking(c) ==
  /\ out[c]["client"] = NoPayload => call[c] = NotSet
  /\ out[c]["client"] # NoPayload =>
       LET p == decodeRequest(out[c]["client"])
       IN  /\ Asks(c, call[c])
           /\ p = [header |-> p.header, body_case |-> p.body_case, body |-> p.body]
           /\ AskedHeader(c, p.header)
           /\ p = call[c] \/ (p.body_case = BODY_NOT_SET /\ p.body = NotSet)

\* A response that reports success is to the operation's packet; a key in it is one
\* that was issued, a message's id one that is stored.
Delivers(c, r) ==
  /\ done[c].request = call[c]
  /\ r.body_case = "key_op_resp" /\ call[c].body_case = "key_agree_req" =>
       \E k \in keys :
         /\ k.key = r.body.key_id /\ k.mat = c
         /\ \/ r.body.data = rsaPublicEncrypt(PublicKey(c), <<"aes", c>>)
            \/ r.body.data = <<>> /\ faults > 0
  /\ r.body_case = "send_msg_resp" =>
       \E i \in 1 .. Len(log) : log[i].id = r.body.server_message_id

Answering(c) ==
  /\ out[c]["server"] = NoPayload => done[c] = Pending
  /\ out[c]["server"] # NoPayload =>
       LET r == decodeResponse(out[c]["server"])
       IN  /\ ResponsePacket(r)
           /\ done[c] = [request |-> done[c].request, code |-> r.body.code]
           /\ r.body.code = RESULT_SUCCESS => Delivers(c, r)
  /\ c \in succeeded => done[c] = [request |-> call[c], code |-> RESULT_SUCCESS]

EInv == Tables /\ ClientOK /\ \A c \in Conns : Asking(c) /\ Answering(c)

\* Keys and messages stay, and faults do not go away.
Grows ==
  /\ \A k \in keys : \E l \in keys' : l.key = k.key /\ l.mat = k.mat
  /\ \A i \in 1 .. Len(log) : i \in 1 .. Len(log') /\ log'[i] = log[i]
  /\ faults \in Nat /\ faults' \in Nat /\ faults' >= faults

LEMMA AskingStays ==
  ASSUME NEW d \in Conns, Asking(d), out'[d]["client"] = out[d]["client"], call'[d] = call[d]
  PROVE  Asking(d)'
  BY DEF Asking

LEMMA AnsweringStays ==
  ASSUME NEW d \in Conns, Answering(d), Grows, out'[d]["server"] = out[d]["server"],
         call'[d] = call[d], done'[d] = done[d], d \in succeeded' => d \in succeeded
  PROVE  Answering(d)'
<1> DEFINE r == decodeResponse(out[d]["server"])
<1>1. r = decodeResponse(out'[d]["server"])
  OBVIOUS
<1>2. ASSUME Delivers(d, r)  PROVE Delivers(d, r)'
  <2>1. ASSUME r.body_case = "key_op_resp", call[d].body_case = "key_agree_req"
        PROVE  \E l \in keys' :
                 /\ l.key = r.body.key_id /\ l.mat = d
                 /\ \/ r.body.data = rsaPublicEncrypt(PublicKey(d), <<"aes", d>>)
                    \/ r.body.data = <<>> /\ faults' > 0
    <3>1. PICK k \in keys :
             /\ k.key = r.body.key_id /\ k.mat = d
             /\ \/ r.body.data = rsaPublicEncrypt(PublicKey(d), <<"aes", d>>)
                \/ r.body.data = <<>> /\ faults > 0
      BY <1>2, <2>1 DEF Delivers
    <3>2. PICK l \in keys' : l.key = k.key /\ l.mat = k.mat
      BY DEF Grows
    <3>3. faults > 0 => faults' > 0
      BY DEF Grows
    <3> QED  BY <3>1, <3>2, <3>3
  <2>2. ASSUME r.body_case = "send_msg_resp"
        PROVE  \E i \in 1 .. Len(log') : log'[i].id = r.body.server_message_id
    <3>1. PICK i \in 1 .. Len(log) : log[i].id = r.body.server_message_id
      BY <1>2, <2>2 DEF Delivers
    <3> QED  BY <3>1 DEF Grows
  <2>3. done'[d].request = call'[d]
    BY <1>2 DEF Delivers
  <2> HIDE DEF r
  <2> QED  BY <1>1, <2>1, <2>2, <2>3 DEF Delivers, r
<1>3. CASE out[d]["server"] = NoPayload
  BY <1>3 DEF Answering
<1>4. CASE out[d]["server"] # NoPayload
  <2>1. /\ ResponsePacket(r)
        /\ done[d] = [request |-> done[d].request, code |-> r.body.code]
        /\ r.body.code = RESULT_SUCCESS => Delivers(d, r)'
    BY <1>2, <1>4 DEF Answering
  <2>2. d \in succeeded' => done'[d] = [request |-> call'[d], code |-> RESULT_SUCCESS]
    BY DEF Answering
  <2> HIDE DEF r
  <2> QED  BY <1>1, <1>4, <2>1, <2>2 DEF Answering, r
<1> QED  BY <1>3, <1>4

\* What the client keeps stays true of tables that grow.
LEMMA ClientStays ==
  ASSUME ClientOK, Grows, succeeded' \subseteq Conns, cache' = cache, lastId' \in {lastId, <<>>}
  PROVE  ClientOK'
<1>1. CachedKeyIssued'
  <2>1. PICK k \in keys : /\ k.key = cache.key
                          /\ \/ cache.bytes = <<"aes", k.mat>>
                             \/ cache.bytes = <<>> /\ faults > 0
    BY DEF ClientOK, CachedKeyIssued
  <2>2. PICK l \in keys' : l.key = k.key /\ l.mat = k.mat
    BY DEF Grows
  <2>3. faults > 0 => faults' > 0
    BY DEF Grows
  <2> QED  BY <2>1, <2>2, <2>3 DEF CachedKeyIssued
<1>2. lastId' # <<>> => \E i \in 1 .. Len(log') : log'[i].id = lastId'
  <2> SUFFICES ASSUME lastId' # <<>>  PROVE \E i \in 1 .. Len(log') : log'[i].id = lastId'
    OBVIOUS
  <2>1. PICK i \in 1 .. Len(log) : log[i].id = lastId
    BY DEF ClientOK
  <2> QED  BY <2>1 DEF Grows
<1> QED  BY <1>1, <1>2 DEF ClientOK

LEMMA SameGrows ==
  ASSUME keys' = keys, log' = log, faults \in Nat, faults' \in Nat, faults' >= faults
  PROVE  Grows
  BY DEF Grows

LEMMA FaultsGrow ==
  ASSUME faults \in 0 .. MaxFaults, UNCHANGED faults \/ Fault
  PROVE  faults \in Nat /\ faults' \in Nat /\ faults' >= faults
<1>1. MaxFaults \in Nat
  BY SizeAssumption
<1> QED  BY <1>1 DEF Fault

\* A step of the socket alone.
LEMMA SocketInv ==
  ASSUME EInv, faults \in 0 .. MaxFaults, UNCHANGED faults \/ Fault, out' = out,
         lastId' \in {lastId, <<>>},
         UNCHANGED <<call, succeeded, cache, serverVars>>
  PROVE  EInv'
<1>1. Grows
  BY FaultsGrow, SameGrows DEF serverVars, tableVars
<1>2. Tables'
  BY DEF EInv, Tables, serverVars, tableVars, fileVars, Server!TypeOK
<1>3. ClientOK'
  BY <1>1, ClientStays DEF EInv, ClientOK
<1>4. ASSUME NEW d \in Conns  PROVE Asking(d)' /\ Answering(d)'
  BY <1>1, AskingStays, AnsweringStays DEF EInv, serverVars
<1> QED  BY <1>2, <1>3, <1>4 DEF EInv
-----------------------------------------------------------------------------
(* The client.                                                             *)

LEMMA OutTypes ==
  ASSUME IInv
  PROVE  /\ out \in [Conns -> [End -> Payload \cup {NoPayload}]]
         /\ pc \in [Conns -> [End -> Point]]
         /\ faults \in 0 .. MaxFaults
  BY DEF IInv, Types

\* What is kept of the client has its types.
LEMMA CacheFacts ==
  ASSUME EInv
  PROVE  /\ cache.key \in Nat
         /\ cache.bytes # <<>> => \E n \in Nat : cache.bytes = <<"aes", n>>
         /\ lastId \in Texts
<1>1. PICK r \in keys : /\ r.key = cache.key
                        /\ cache.bytes = <<"aes", r.mat>> \/ cache.bytes = <<>>
  BY DEF EInv, ClientOK, CachedKeyIssued
<1>2. r.key \in Nat /\ r.mat \in Nat
  BY DEF EInv, Tables, Server!TypeOK, Server!KeyRow
<1>3. lastId \in Texts
  <2>1. CASE lastId = <<>>
    BY <2>1, PlainTexts
  <2>2. CASE lastId # <<>>
    <3>1. PICK i \in 1 .. Len(log) : log[i].id = lastId
      BY <2>2 DEF EInv, ClientOK
    <3>2. log[i] \in Stored
      BY ElementOfSeq DEF EInv, Tables
    <3> QED  BY <3>1, <3>2 DEF Stored
  <2> QED  BY <2>1, <2>2
<1> QED  BY <1>1, <1>2, <1>3

LEMMA NotDone ==
  ASSUME EInv, NEW c \in Conns, out[c]["server"] = NoPayload
  PROVE  done[c] = Pending /\ c \notin succeeded
<1>1. done[c] = Pending
  BY DEF EInv, Answering
<1>2. done[c].code = 0
  BY <1>1 DEF Pending
<1>3. c \in succeeded => done[c] = [request |-> call[c], code |-> RESULT_SUCCESS]
  BY DEF EInv, Answering
<1>4. [request |-> call[c], code |-> RESULT_SUCCESS].code = RESULT_SUCCESS
  OBVIOUS
<1> QED  BY <1>1, <1>2, <1>3, <1>4 DEF RESULT_SUCCESS

LEMMA RequestInv ==
  ASSUME IInv, EInv, PacketPiece \subseteq Units, NEW c \in Conns, NEW p, Asks(c, p), Request(c, p)
  PROVE  FramingNext /\ EInv'
<1>1. encodeRequest(p) \in Payload /\ Ask(c, encodeRequest(p))
  BY RequestCarried DEF Request
<1>2. FramingNext
  BY <1>1 DEF FramingNext
<1>3. /\ out' = [out EXCEPT ![c]["client"] = encodeRequest(p)] /\ pc[c]["client"] = "idle"
      /\ call' = [call EXCEPT ![c] = p] /\ faults' = faults
      /\ UNCHANGED <<succeeded, cache, lastId, sn, keys, log, pem, stage, rsa, done>>
  BY DEF Request, Ask, serverVars, tableVars, fileVars
<1>4. /\ out'[c]["client"] = encodeRequest(p) /\ out'[c]["server"] = out[c]["server"]
      /\ \A d \in Conns \ {c} : out'[d] = out[d]
  BY <1>3, OutTypes, Ends
<1>5. /\ call'[c] = p /\ call' = [d \in Conns |-> call'[d]]
      /\ \A d \in Conns \ {c} : call'[d] = call[d]
  BY <1>3 DEF EInv, Tables
<1>6. Grows
  BY <1>3, OutTypes, FaultsGrow, SameGrows
<1>7. Tables'
  BY <1>3, <1>5 DEF EInv, Tables, Server!TypeOK
<1>8. ClientOK'
  BY <1>3, <1>6, ClientStays DEF EInv, ClientOK
<1>9. Asking(c)'
  <2>1. encodeRequest(p) # NoPayload
    BY <1>1, PayloadType
  <2>2. LET q == decodeRequest(encodeRequest(p))
        IN  /\ q = p \/ (q.body_case = BODY_NOT_SET /\ q.body = NotSet)
            /\ q = [header |-> q.header, body_case |-> q.body_case, body |-> q.body]
            /\ AskedHeader(c, q.header)
    BY RequestCarried
  <2> QED  BY <1>4, <1>5, <2>1, <2>2 DEF Asking
<1>10. Answering(c)'
  <2>1. out[c]["server"] = NoPayload
    <3>1. Progress(c)
      BY DEF IInv, Link
    <3> QED  BY <1>3, <3>1 DEF Progress
  <2>2. done[c] = Pending /\ c \notin succeeded
    BY <2>1, NotDone
  <2> QED  BY <1>3, <1>4, <2>1, <2>2 DEF Answering
<1>11. ASSUME NEW d \in Conns, d # c  PROVE Asking(d)' /\ Answering(d)'
  BY <1>3, <1>4, <1>5, <1>6, <1>11, AskingStays, AnsweringStays DEF EInv
<1> QED  BY <1>2, <1>7, <1>8, <1>9, <1>10, <1>11 DEF EInv

LEMMA HeaderBuilt ==
  ASSUME NEW c \in Conns, NEW command \in Nat, NEW to \in {Host, Friend, Garbled}
  PROVE  AskedHeader(c, fillHeader(buildHeader(c, command, to)))
<1>1. PICK id, from : id = <<"A", c>> /\ from = Client
  OBVIOUS
<1>2. fillHeader(buildHeader(c, command, to)) =
        [message_id |-> id, command |-> command, sender_id |-> from, receiver_id |-> to,
         timestamp |-> Now]
  BY <1>1 DEF fillHeader, buildHeader
<1>3. Now \in Nat
  BY DEF Now
<1> QED  BY <1>1, <1>2, <1>3 DEF AskedHeader

LEMMA MenuInv ==
  ASSUME IInv, EInv, PacketPiece \subseteq Units, NEW c \in Conns, Menu(c)
  PROVE  FramingNext /\ EInv'
<1>0. /\ CMD_KEY_AGREE_REQ \in Nat /\ CMD_KEY_CHECK_REQ \in Nat /\ CMD_KEY_LOGOUT_REQ \in Nat
      /\ CMD_SEND_MSG_REQ \in Nat /\ CMD_QUERY_MSG_REQ \in Nat /\ CMD_QUERY_MSG_LIST_REQ \in Nat
  BY DEF CMD_KEY_AGREE_REQ, CMD_KEY_CHECK_REQ, CMD_KEY_LOGOUT_REQ, CMD_SEND_MSG_REQ,
         CMD_QUERY_MSG_REQ, CMD_QUERY_MSG_LIST_REQ
<1>h. ASSUME NEW h, NEW case, NEW b, AskedHeader(c, fillHeader(h)), AskedBody(c, case, b),
             Request(c, Packet(h, case, b))
      PROVE  FramingNext /\ EInv'
  <2>1. Asks(c, Packet(h, case, b))
    BY <1>h DEF Asks, Packet
  <2> QED  BY <1>h, <2>1, RequestInv
<1>1. CASE keyAgreement(c)
  <2> DEFINE h == buildHeader(c, CMD_KEY_AGREE_REQ, Host)
             b == [public_key |-> PublicKey(c), sign |-> rsaSign(c)]
  <2>1. Request(c, Packet(h, "key_agree_req", b))
    BY <1>1 DEF keyAgreement, initKeyAgreementRequest
  <2>2. AskedHeader(c, fillHeader(h))
    BY <1>0, HeaderBuilt
  <2>3. AskedBody(c, "key_agree_req", b)
    BY DEF AskedBody
  <2> HIDE DEF h, b
  <2> QED  BY <1>h, <2>1, <2>2, <2>3
<1>2. CASE keyVerification(c)
  <2> DEFINE h == buildHeader(c, CMD_KEY_CHECK_REQ, Host)
             b == [key_id |-> cache.key]
  <2>1. Request(c, Packet(h, "key_check_req", b))
    BY <1>2 DEF keyVerification, initKeyCheckRequest
  <2>2. AskedHeader(c, fillHeader(h))
    BY <1>0, HeaderBuilt
  <2>3. AskedBody(c, "key_check_req", b)
    BY CacheFacts DEF AskedBody
  <2> HIDE DEF h, b
  <2> QED  BY <1>h, <2>1, <2>2, <2>3
<1>3. CASE keyLogout(c)
  <2> DEFINE h == buildHeader(c, CMD_KEY_LOGOUT_REQ, Host)
             b == [key_id |-> cache.key]
  <2>1. Request(c, Packet(h, "key_logout_req", b))
    BY <1>3 DEF keyLogout, initKeyLogoutRequest
  <2>2. AskedHeader(c, fillHeader(h))
    BY <1>0, HeaderBuilt
  <2>3. AskedBody(c, "key_logout_req", b)
    BY CacheFacts DEF AskedBody
  <2> HIDE DEF h, b
  <2> QED  BY <1>h, <2>1, <2>2, <2>3
<1>4. ASSUME NEW to \in {Friend, Garbled}, sendTextMessage(c, to)
      PROVE  FramingNext /\ EInv'
  <2> DEFINE h == buildHeader(c, CMD_SEND_MSG_REQ, to)
             y == encryptText(cache.bytes)
             m == [key_id |-> cache.key, msg_type |-> MSG_TYPE_TEXT, ciphertext |-> y,
                   nonce |-> <<"nonce">>, tag |-> <<"tag">>, algorithm |-> <<"AES-128-GCM">>]
             b == [message |-> m]
  <2>1. Request(c, Packet(h, "send_msg_req", b)) /\ cache.bytes # <<>>
    BY <1>4 DEF sendTextMessage, initSendMessageRequest
  <2>2. AskedHeader(c, fillHeader(h))
    BY <1>0, HeaderBuilt
  <2>3. PICK n \in Nat : cache.bytes = <<"aes", n>>
    BY <2>1, CacheFacts
  <2>4. y = <<"gcm", n>>
    BY <2>3 DEF encryptText
  <2>5. y \in Texts /\ IsUtf8(y)
    BY <2>4, TextFacts
  <2> HIDE DEF y
  <2>6. /\ m.key_id \in Nat /\ m.ciphertext = y
        /\ m = [key_id |-> m.key_id, msg_type |-> MSG_TYPE_TEXT, ciphertext |-> m.ciphertext,
                nonce |-> <<"nonce">>, tag |-> <<"tag">>, algorithm |-> <<"AES-128-GCM">>]
    BY CacheFacts
  <2> HIDE DEF m
  <2>7. b.message = m /\ b = [message |-> b.message]
    OBVIOUS
  <2> HIDE DEF b, h
  <2>8. AskedBody(c, "send_msg_req", b)
    BY <2>5, <2>6, <2>7 DEF AskedBody
  <2> QED  BY <1>h, <2>1, <2>2, <2>8
<1>5. ASSUME NEW id \in Texts, queryMessage(c, id)
      PROVE  FramingNext /\ EInv'
  <2> DEFINE h == buildHeader(c, CMD_QUERY_MSG_REQ, Host)
             b == [server_message_id |-> id]
  <2>1. Request(c, Packet(h, "query_msg_req", b))
    BY <1>5 DEF queryMessage, initQueryMessageRequest
  <2>2. AskedHeader(c, fillHeader(h))
    BY <1>0, HeaderBuilt
  <2>3. AskedBody(c, "query_msg_req", b)
    BY DEF AskedBody
  <2> HIDE DEF h, b
  <2> QED  BY <1>h, <2>1, <2>2, <2>3
<1>6. CASE queryRecentMessages(c, Client, 1)
  <2> DEFINE h == buildHeader(c, CMD_QUERY_MSG_LIST_REQ, Host)
             b == [sender_id |-> Client, limit |-> 1]
  <2>1. Request(c, Packet(h, "query_msg_list_req", b))
    BY <1>6 DEF queryRecentMessages, initQueryMessageListRequest
  <2>2. AskedHeader(c, fillHeader(h))
    BY <1>0, HeaderBuilt
  <2>3. AskedBody(c, "query_msg_list_req", b)
    BY DEF AskedBody
  <2> HIDE DEF h, b
  <2> QED  BY <1>h, <2>1, <2>2, <2>3
<1>7. (IF lastId = <<>> THEN Garbled ELSE lastId) \in Texts
  BY CacheFacts, TextFacts
<1> QED  BY <1>1, <1>2, <1>3, <1>4, <1>5, <1>6, <1>7 DEF Menu

\* What the client acts on is what the server answered.
LEMMA AnsweredFacts ==
  ASSUME IInv, EInv, NEW c \in Conns, pc[c]["client"] = "have"
  PROVE  /\ took[c]["client"] = out[c]["server"] /\ out[c]["server"] # NoPayload
         /\ ResponsePacket(Answered(c))
         /\ Answered(c).body.code = RESULT_SUCCESS =>
              /\ Delivers(c, Answered(c))
              /\ done[c] = [request |-> call[c], code |-> RESULT_SUCCESS]
<1>1. took[c]["client"] = out[c]["server"] /\ out[c]["server"] # NoPayload
  BY Ends DEF IInv, Link, Progress, Received
<1>2. LET r == decodeResponse(out[c]["server"])
      IN  /\ ResponsePacket(r)
          /\ done[c] = [request |-> done[c].request, code |-> r.body.code]
          /\ r.body.code = RESULT_SUCCESS => Delivers(c, r)
  BY <1>1 DEF EInv, Answering
<1> QED  BY <1>1, <1>2 DEF Answered, Delivers

LEMMA ActInv ==
  ASSUME IInv, EInv, NEW c \in Conns, Act(c)
  PROVE  FramingNext /\ EInv'
<1> DEFINE r == Answered(c)
<1>1. /\ pc[c]["client"] = "have"
      /\ \/ agreementAnswered(c, r) \/ verificationAnswered(c, r) \/ logoutAnswered(c, r)
         \/ sendAnswered(c, r) \/ queryAnswered(c, r)
  BY DEF Act
<1>2. r.body.code = RESULT_SUCCESS =>
              /\ Delivers(c, r)
              /\ done[c] = [request |-> call[c], code |-> RESULT_SUCCESS]
  BY <1>1, AnsweredFacts
<1> HIDE DEF r
<1>3. /\ Disconnect(c, "client")
      /\ succeeded' = (IF Good(c, r) THEN succeeded \cup {c} ELSE succeeded)
      /\ call' = call /\ serverVars' = serverVars
  BY <1>1 DEF agreementAnswered, verificationAnswered, logoutAnswered, sendAnswered, queryAnswered,
              Conclude
<1>4. FramingNext
  BY <1>3, Ends DEF FramingNext
<1>5. out' = out /\ faults' = faults
  BY <1>3 DEF Disconnect, Close
<1>6. Grows
  BY <1>3, <1>5, OutTypes, FaultsGrow, SameGrows DEF serverVars, tableVars
<1>7. Tables'
  BY <1>3 DEF EInv, Tables, serverVars, tableVars, fileVars, Server!TypeOK
<1>8. ASSUME NEW d \in Conns  PROVE Asking(d)' /\ Answering(d)'
  <2>1. Asking(d)'
    BY <1>3, <1>5, AskingStays DEF EInv
  <2>2. CASE d \in succeeded' => d \in succeeded
    BY <1>3, <1>5, <1>6, <2>1, <2>2, AnsweringStays DEF EInv, serverVars
  <2>3. CASE d \in succeeded' /\ d \notin succeeded
    <3>1. d = c /\ Good(c, r)
      BY <1>3, <2>3
    <3>2. done[c] = [request |-> call[c], code |-> RESULT_SUCCESS]
      BY <1>2, <3>1 DEF Good
    <3>3. /\ out[c]["server"] = NoPayload => done[c] = Pending
          /\ out[c]["server"] # NoPayload =>
               LET q == decodeResponse(out[c]["server"])
               IN  /\ ResponsePacket(q)
                   /\ done[c] = [request |-> done[c].request, code |-> q.body.code]
                   /\ q.body.code = RESULT_SUCCESS => Delivers(c, q)
      BY DEF EInv, Answering
    <3>4. LET q == decodeResponse(out[c]["server"]) IN Delivers(c, q) => Delivers(c, q)'
      BY <1>3, <1>5 DEF Delivers, serverVars, tableVars
    <3>5. Answering(c)'
      BY <1>3, <1>5, <3>1, <3>2, <3>3, <3>4 DEF Answering, serverVars
    <3> QED  BY <2>1, <3>1, <3>5
  <2> QED  BY <2>1, <2>2, <2>3
<1>9. succeeded' \subseteq Conns
  BY <1>3 DEF EInv, ClientOK
<1>10. ClientOK'
  <2>1. CASE cache' = cache /\ lastId' = lastId
    BY <1>6, <1>9, <2>1, ClientStays DEF EInv
  <2>2. CASE cache' = [cache EXCEPT !.status = 0] /\ lastId' = lastId
    <3>1. /\ cache' = [key |-> cache.key, bytes |-> cache.bytes, status |-> 0]
      BY <2>2 DEF EInv, ClientOK
    <3>2. cache'.key = cache.key /\ cache'.bytes = cache.bytes /\ cache'.status = 0
      BY <3>1
    <3>3. CachedKeyIssued'
      BY <1>3, <1>5, <3>2 DEF EInv, ClientOK, CachedKeyIssued, serverVars, tableVars
    <3> QED  BY <1>3, <1>9, <2>2, <3>1, <3>2, <3>3 DEF EInv, ClientOK, serverVars, tableVars
  <2>3. CASE agreementAnswered(c, r) /\ Good(c, r)
    <3>1. r.body_case = "key_op_resp" /\ call[c].body_case = "key_agree_req"
      BY <2>3 DEF agreementAnswered, Conclude, Good, Told, Wanted
    <3>2. PICK k \in keys :
             /\ k.key = r.body.key_id /\ k.mat = c
             /\ \/ r.body.data = rsaPublicEncrypt(PublicKey(c), <<"aes", c>>)
                \/ r.body.data = <<>> /\ faults > 0
      BY <1>2, <2>3, <3>1 DEF Delivers, Good
    <3>3. /\ cache' = [key |-> r.body.key_id, bytes |-> rsaPrivateDecrypt(c, r.body.data),
                 status |-> 1]
          /\ lastId' = lastId
      BY <2>3 DEF agreementAnswered
    <3>4. cache'.key = k.key /\ cache'.bytes = rsaPrivateDecrypt(c, r.body.data)
          /\ cache'.status = 1
      BY <3>2, <3>3
    <3>5. \/ cache'.bytes = <<"aes", k.mat>>
          \/ cache'.bytes = <<>> /\ faults > 0
      <4>1. CASE r.body.data = rsaPublicEncrypt(PublicKey(c), <<"aes", c>>)
        <5>1. PICK x : x = r.body.data
          OBVIOUS
        <5>2. x = <<"rsa", c, c>>
          BY <4>1, <5>1 DEF rsaPublicEncrypt, PublicKey
        <5>3. Len(x) = 3 /\ x[2] = c /\ x[3] = c
          BY <5>2
        <5>4. rsaPrivateDecrypt(c, x) = <<"aes", c>>
          BY <5>3 DEF rsaPrivateDecrypt
        <5> QED  BY <3>2, <3>4, <5>1, <5>4
      <4>2. CASE r.body.data = <<>> /\ faults > 0
        <5>1. Len(<<>>) = 0
          OBVIOUS
        <5>2. rsaPrivateDecrypt(c, <<>>) = <<>>
          BY <5>1 DEF rsaPrivateDecrypt
        <5> QED  BY <3>4, <4>2, <5>2
      <4> QED  BY <3>2, <4>1, <4>2
    <3>6. CachedKeyIssued'
      BY <1>3, <1>5, <3>4, <3>5 DEF CachedKeyIssued, serverVars, tableVars
    <3> QED  BY <1>3, <1>9, <3>3, <3>4, <3>6 DEF EInv, ClientOK, serverVars, tableVars
  <2>4. CASE sendAnswered(c, r) /\ Good(c, r)
    <3>1. r.body_case = "send_msg_resp"
      BY <2>4 DEF sendAnswered, Conclude, Good, Told, Wanted
    <3>2. \E i \in 1 .. Len(log) : log[i].id = r.body.server_message_id
      BY <1>2, <2>4, <3>1 DEF Delivers, Good
    <3>3. cache' = cache /\ lastId' = r.body.server_message_id
      BY <2>4 DEF sendAnswered
    <3>4. CachedKeyIssued'
      BY <1>3, <1>5, <3>3 DEF EInv, ClientOK, CachedKeyIssued, serverVars, tableVars
    <3> QED  BY <1>3, <1>9, <3>2, <3>3, <3>4 DEF EInv, ClientOK, serverVars, tableVars
  <2> QED
    BY <1>1, <2>1, <2>2, <2>3, <2>4
    DEF agreementAnswered, verificationAnswered, logoutAnswered, sendAnswered, queryAnswered
<1> QED  BY <1>4, <1>7, <1>8, <1>10 DEF EInv
-----------------------------------------------------------------------------
(* The server answers.                                                     *)

\* What a thread works on is what the client asked, or its header.
LEMMA HandledFacts ==
  ASSUME IInv, EInv, NEW c \in Conns, pc[c]["server"] = "have"
  PROVE  LET p == Handled(c)
         IN  /\ Asks(c, call[c])
             /\ p = [header |-> p.header, body_case |-> p.body_case, body |-> p.body]
             /\ AskedHeader(c, p.header)
             /\ \/ p = call[c] /\ AskedBody(c, p.body_case, p.body)
                \/ p.body_case = BODY_NOT_SET /\ p.body = NotSet
             /\ p.body_case \in RequestCases => p = call[c] /\ AskedBody(c, p.body_case, p.body)
             /\ out[c]["server"] = NoPayload
<1>1. /\ took[c]["server"] = out[c]["client"] /\ out[c]["client"] # NoPayload
      /\ out[c]["server"] = NoPayload
  BY Ends DEF IInv, Link, Progress, Received
<1> DEFINE p == decodeRequest(out[c]["client"])
<1>2. /\ Asks(c, call[c])
      /\ p = [header |-> p.header, body_case |-> p.body_case, body |-> p.body]
      /\ AskedHeader(c, p.header)
      /\ p = call[c] \/ (p.body_case = BODY_NOT_SET /\ p.body = NotSet)
  BY <1>1 DEF EInv, Asking
<1> HIDE DEF p
<1>3. p = call[c] => AskedBody(c, p.body_case, p.body)
  BY <1>2 DEF Asks
<1>4. p.body_case \in RequestCases => p.body_case # BODY_NOT_SET
  BY CaseNames
<1> QED  BY <1>1, <1>2, <1>3, <1>4 DEF Handled, p

\* A response as the server builds it.
WellAnswered(r) ==
  /\ r = [header |-> r.header, body_case |-> r.body_case, body |-> r.body]
  /\ Typed(HeaderFields, r.header) /\ Plain(HeaderFields, r.header)
  /\ AnsweredBody(r.body_case, r.body)

LEMMA RespondInv ==
  ASSUME IInv, EInv, PacketPiece \subseteq Units, NEW c \in Conns, pc[c]["server"] = "have",
         NEW p, p = Handled(c), NEW r, WellAnswered(r), Respond(c, p, r),
         UNCHANGED faults \/ Fault,
         Server!TypeOK', log' \in Seq(Stored),
         \A k \in keys : \E l \in keys' : l.key = k.key /\ l.mat = k.mat,
         \A i \in 1 .. Len(log) : i \in 1 .. Len(log') /\ log'[i] = log[i],
         r.body.code = RESULT_SUCCESS =>
           /\ p = call[c]
           /\ r.body_case = "key_op_resp" /\ p.body_case = "key_agree_req" =>
                \E k \in keys' :
                  /\ k.key = r.body.key_id /\ k.mat = c
                  /\ \/ r.body.data = rsaPublicEncrypt(PublicKey(c), <<"aes", c>>)
                     \/ r.body.data = <<>> /\ faults' > 0
           /\ r.body_case = "send_msg_resp" =>
                \E i \in 1 .. Len(log') : log'[i].id = r.body.server_message_id
  PROVE  FramingNext /\ EInv'
<1> DEFINE s == encodeResponse(r)
           q == decodeResponse(s)
<1>1. /\ s \in Payload /\ ResponsePacket(q)
      /\ q.body_case = r.body_case /\ q.body.code = r.body.code
      /\ r.body_case # "query_msg_resp" => q.body = r.body
  BY ResponseCarried DEF WellAnswered
<1> HIDE DEF s
<1>2. /\ Reply(c, s) /\ pem' = pem
      /\ done' = [done EXCEPT ![c] = [request |-> p, code |-> r.body.code]]
      /\ stage' = [stage EXCEPT ![c] = "start"] /\ rsa' = [rsa EXCEPT ![c] = <<>>]
      /\ UNCHANGED <<call, succeeded, cache, lastId>>
  BY DEF Respond, clientVars, s
<1>3. FramingNext
  BY <1>1, <1>2 DEF FramingNext
<1>4. out' = [out EXCEPT ![c]["server"] = s]
  BY <1>2 DEF Reply
<1>5. /\ out'[c]["server"] = s /\ out'[c]["client"] = out[c]["client"]
      /\ \A d \in Conns \ {c} : out'[d] = out[d]
  BY <1>4, OutTypes, Ends
<1>6. Grows
  BY OutTypes, FaultsGrow DEF Grows
<1>7. /\ done'[c] = [request |-> p, code |-> r.body.code] /\ done' = [d \in Conns |-> done'[d]]
      /\ \A d \in Conns \ {c} : done'[d] = done[d]
  BY <1>2 DEF EInv, Tables
<1>8. Tables'
  <2>1. <<>> \in KeyText /\ "start" \in {"start", "opened", "written", "loaded"}
    BY DEF KeyText
  <2>2. rsa' \in [Conns -> KeyText] /\ stage' \in [Conns -> {"start", "opened", "written",
        "loaded"}]
    BY <1>2, <2>1 DEF EInv, Tables
  <2> QED  BY <1>2, <1>7, <2>2 DEF EInv, Tables
<1>9. ClientOK'
  BY <1>2, <1>6, ClientStays DEF EInv, ClientOK
<1>10. ASSUME NEW d \in Conns  PROVE Asking(d)'
  BY <1>2, <1>5, AskingStays DEF EInv
<1>11. Answering(c)'
  <2>1. s # NoPayload
    BY <1>1, PayloadType
  <2>2. c \notin succeeded
    BY HandledFacts, NotDone
  <2>3. done'[c].request = p /\ done'[c] = [request |-> done'[c].request, code |-> q.body.code]
    BY <1>1, <1>7
  <2>4. ASSUME r.body.code = RESULT_SUCCESS  PROVE Delivers(c, q)'
    <3>1. call'[c] = p /\ call' = call
      BY <1>2, <2>4
    <3>2. r.body_case = "key_op_resp" => q.body = r.body
      BY <1>1
    <3>3. r.body_case = "send_msg_resp" => q.body = r.body
      BY <1>1
    <3> HIDE DEF q
    <3>4. ASSUME q.body_case = "key_op_resp", call'[c].body_case = "key_agree_req"
          PROVE  \E k \in keys' :
                   /\ k.key = q.body.key_id /\ k.mat = c
                   /\ \/ q.body.data = rsaPublicEncrypt(PublicKey(c), <<"aes", c>>)
                      \/ q.body.data = <<>> /\ faults' > 0
      BY <1>1, <2>4, <3>1, <3>2, <3>4
    <3>5. ASSUME q.body_case = "send_msg_resp"
          PROVE  \E i \in 1 .. Len(log') : log'[i].id = q.body.server_message_id
      BY <1>1, <2>4, <3>3, <3>5
    <3>6. q' = q
      BY <1>5 DEF q, s
    <3> QED  BY <2>3, <3>1, <3>4, <3>5, <3>6 DEF Delivers
  <2> HIDE DEF q
  <2>5. q = decodeResponse(out'[c]["server"])
    BY <1>5 DEF q
  <2> QED  BY <1>1, <1>2, <1>5, <2>1, <2>2, <2>3, <2>4, <2>5 DEF Answering
<1>12. ASSUME NEW d \in Conns, d # c  PROVE Answering(d)'
  BY <1>2, <1>5, <1>6, <1>7, <1>12, AnsweringStays DEF EInv
<1> QED  BY <1>3, <1>8, <1>9, <1>10, <1>11, <1>12 DEF EInv
-----------------------------------------------------------------------------
(* The responses the server builds.                                        *)

LEMMA AnswerHeader ==
  ASSUME NEW c \in Conns, NEW p, AskedHeader(c, p.header), NEW command \in Nat
  PROVE  LET h == fillHeader(responseHeader(p, command))
         IN  Typed(HeaderFields, h) /\ Plain(HeaderFields, h)
<1>1. Typed(HeaderFields, p.header)
  BY AskedHeaderRead
<1>2. p.header # NotSet
  BY <1>1, HeaderSet
<1>3. PICK id, from, t : id = <<"A", c>> /\ from = Client /\ t = Now
  OBVIOUS
<1>4. p.header.message_id = id /\ p.header.sender_id = from
  BY <1>3 DEF AskedHeader
<1>5. PICK host : host = Host
  OBVIOUS
<1>6. fillHeader(responseHeader(p, command)) =
        [message_id |-> id, command |-> command, sender_id |-> host, receiver_id |-> from,
         timestamp |-> t]
  BY <1>2, <1>3, <1>4, <1>5 DEF fillHeader, responseHeader
<1>7. /\ id \in Texts /\ IsUtf8(id) /\ from \in Texts /\ IsUtf8(from) /\ host \in Texts
      /\ IsUtf8(host) /\ t \in Nat
  BY <1>3, <1>5, TextFacts, ConnFacts DEF Now
<1>8. PICK h : h = [message_id |-> id, command |-> command, sender_id |-> host,
                    receiver_id |-> from, timestamp |-> t]
  OBVIOUS
<1>9. Typed(HeaderFields, h) /\ Plain(HeaderFields, h)
  BY <1>7, <1>8, HeaderTyped
<1> QED  BY <1>6, <1>8, <1>9

LEMMA KeyAnswer ==
  ASSUME NEW c \in Conns, NEW p, AskedHeader(c, p.header), NEW command \in Nat, NEW code \in Nat,
         NEW keyId \in Nat, NEW data \in Texts, IsUtf8(data)
  PROVE  LET r == makeKeyResponse(p, command, code, keyId, data)
         IN  /\ WellAnswered(r)
             /\ r.body_case = "key_op_resp" /\ r.body.code = code /\ r.body.key_id = keyId
             /\ r.body.data = data
<1> DEFINE r == makeKeyResponse(p, command, code, keyId, data)
<1>1. PICK h, note : h = fillHeader(responseHeader(p, command)) /\ note = Note
  OBVIOUS
<1>2. Typed(HeaderFields, h) /\ Plain(HeaderFields, h)
  BY <1>1, AnswerHeader
<1>3. PICK b : b = [code |-> code, message |-> note, key_id |-> keyId, data |-> data]
  OBVIOUS
<1>4. r = [header |-> h, body_case |-> "key_op_resp", body |-> b]
  BY <1>1, <1>3 DEF makeKeyResponse, initKeyOperationResponse, Packet
<1>5. note \in Texts /\ IsUtf8(note)
  BY <1>1, TextFacts
<1>6. Typed(KeyOperationResponseFields, b) /\ Plain(KeyOperationResponseFields, b)
  BY <1>3, <1>5, KeyOperationResponseTyped
<1>7. r.header = h /\ r.body_case = "key_op_resp" /\ r.body = b
  BY <1>4
<1>8. AnsweredBody(r.body_case, r.body)
  BY <1>6, <1>7 DEF AnsweredBody
<1>9. b.code = code /\ b.key_id = keyId /\ b.data = data
  BY <1>3
<1> HIDE DEF r
<1>10. WellAnswered(r)
  BY <1>2, <1>4, <1>7, <1>8 DEF WellAnswered
<1> QED  BY <1>7, <1>9, <1>10 DEF r

LEMMA SendAnswer ==
  ASSUME NEW c \in Conns, NEW p, AskedHeader(c, p.header), NEW code \in Nat,
         NEW id \in Texts, IsUtf8(id), NEW status \in Nat
  PROVE  LET r == initSendMessageResponse(
                    [header |-> responseHeader(p, CMD_SEND_MSG_RESP), code |-> code,
                     message |-> Note, serverMessageId |-> id, serverTime |-> Now,
                     deliveryStatus |-> status])
         IN  /\ WellAnswered(r)
             /\ r.body_case = "send_msg_resp" /\ r.body.code = code
             /\ r.body.server_message_id = id
<1> DEFINE r == initSendMessageResponse(
                    [header |-> responseHeader(p, CMD_SEND_MSG_RESP), code |-> code,
                     message |-> Note, serverMessageId |-> id, serverTime |-> Now,
                     deliveryStatus |-> status])
<1>1. PICK h, note, t : h = fillHeader(responseHeader(p, CMD_SEND_MSG_RESP)) /\ note = Note
      /\ t = Now
  OBVIOUS
<1>2. Typed(HeaderFields, h) /\ Plain(HeaderFields, h)
  <2>1. CMD_SEND_MSG_RESP \in Nat
    BY DEF CMD_SEND_MSG_RESP
  <2> QED  BY <1>1, <2>1, AnswerHeader
<1>3. PICK b : b = [code |-> code, message |-> note, server_message_id |-> id, server_time |-> t,
                    delivery_status |-> status]
  OBVIOUS
<1>4. r = [header |-> h, body_case |-> "send_msg_resp", body |-> b]
  BY <1>1, <1>3 DEF initSendMessageResponse, Packet
<1>5. note \in Texts /\ IsUtf8(note) /\ t \in Nat
  BY <1>1, TextFacts DEF Now
<1>6. Typed(SendMessageResponseFields, b) /\ Plain(SendMessageResponseFields, b)
  BY <1>3, <1>5, SendMessageResponseTyped
<1>7. r.header = h /\ r.body_case = "send_msg_resp" /\ r.body = b
  BY <1>4
<1>8. AnsweredBody(r.body_case, r.body)
  BY <1>6, <1>7 DEF AnsweredBody
<1>9. b.code = code /\ b.server_message_id = id
  BY <1>3
<1> HIDE DEF r
<1>10. WellAnswered(r)
  BY <1>2, <1>4, <1>7, <1>8 DEF WellAnswered
<1> QED  BY <1>7, <1>9, <1>10 DEF r

LEMMA QueryAnswer ==
  ASSUME NEW c \in Conns, NEW p, AskedHeader(c, p.header), NEW code \in Nat, NEW id \in Texts,
         NEW receiver \in Texts, NEW key \in Nat
  PROVE  \E r : /\ WellAnswered(r) /\ r.body_case = "query_msg_resp" /\ r.body.code = code
                /\ RespondQuery(c, p, code, id, receiver, key) => Respond(c, p, r)
<1>1. PICK h, note, from, type, sent, status :
         /\ h = fillHeader(responseHeader(p, CMD_QUERY_MSG_RESP)) /\ note = Note
         /\ from = (IF code = RESULT_SUCCESS THEN Client ELSE <<>>)
         /\ type = (IF code = RESULT_SUCCESS THEN <<"text">> ELSE <<>>)
         /\ sent = (IF code = RESULT_SUCCESS THEN Now ELSE 0)
         /\ status = (IF code = RESULT_SUCCESS THEN 1 ELSE 0)
  OBVIOUS
<1>2. Typed(HeaderFields, h) /\ Plain(HeaderFields, h)
  <2>1. CMD_QUERY_MSG_RESP \in Nat
    BY DEF CMD_QUERY_MSG_RESP
  <2> QED  BY <1>1, <2>1, AnswerHeader
<1>3. PICK b : b = [code |-> code, message |-> note, server_message_id |-> id, sender_id |-> from,
                    receiver_id |-> receiver, key_id |-> key, msg_type |-> type,
                    send_time |-> sent, status |-> status]
  OBVIOUS
<1>4. PICK r : r = [header |-> h, body_case |-> "query_msg_resp", body |-> b]
  OBVIOUS
<1>5. note \in Texts /\ from \in Texts /\ type \in Texts /\ sent \in Nat /\ status \in Nat
  <2>1. <<"text">> \in Texts /\ Client \in Texts /\ <<>> \in Texts /\ Note \in Texts
    BY TextFacts, PlainTexts
  <2> QED  BY <1>1, <2>1 DEF Now
<1>6. Typed(QueryMessageResponseFields, b)
  BY <1>3, <1>5, QueryMessageResponseTyped
<1>7. r.header = h /\ r.body_case = "query_msg_resp" /\ r.body = b
  BY <1>4
<1>8. AnsweredBody(r.body_case, r.body)
  BY <1>6, <1>7 DEF AnsweredBody
<1>9. b.code = code
  BY <1>3
<1>10. WellAnswered(r)
  BY <1>2, <1>4, <1>7, <1>8 DEF WellAnswered
<1>11. RespondQuery(c, p, code, id, receiver, key) => Respond(c, p, r)
  BY <1>1, <1>3, <1>4 DEF RespondQuery, initQueryMessageResponse, Packet
<1> QED  BY <1>7, <1>9, <1>10, <1>11

LEMMA ListAnswer ==
  ASSUME NEW c \in Conns, NEW p, AskedHeader(c, p.header), NEW code \in Nat,
         NEW messages \in Seq(Stored)
  PROVE  \E r : /\ WellAnswered(r) /\ r.body_case = "query_msg_list_resp" /\ r.body.code = code
                /\ RespondList(c, p, code, messages) => Respond(c, p, r)
<1>1. PICK h, note, n, from, type, t :
        /\ h = fillHeader(responseHeader(p, CMD_QUERY_MSG_LIST_RESP)) /\ note = Note
        /\ n = Len(messages) /\ from = Client /\ type = <<"text">> /\ t = Now
  OBVIOUS
<1>2. Typed(HeaderFields, h) /\ Plain(HeaderFields, h)
  <2>1. CMD_QUERY_MSG_LIST_RESP \in Nat
    BY DEF CMD_QUERY_MSG_LIST_RESP
  <2> QED  BY <1>1, <2>1, AnswerHeader
<1> DEFINE summary(i) ==
              [server_message_id |-> messages[i].id, sender_id |-> from,
               receiver_id |-> messages[i].receiver, key_id |-> messages[i].key, msg_type |-> type,
               send_time |-> t, status |-> 1]
<1>3. PICK b, msgs : /\ msgs = [i \in 1 .. n |-> summary(i)]
                     /\ b = [code |-> code, message |-> note, messages |-> msgs]
  OBVIOUS
<1>4. PICK r : r = [header |-> h, body_case |-> "query_msg_list_resp", body |-> b]
  OBVIOUS
<1>5. /\ note \in Texts /\ IsUtf8(note) /\ from \in Texts /\ IsUtf8(from) /\ type \in Texts
      /\ IsUtf8(type) /\ t \in Nat /\ n \in Nat
  BY <1>1, TextFacts, LenProperties DEF Now
<1>6. ASSUME NEW i \in 1 .. n
      PROVE  Typed(MessageSummaryFields, summary(i)) /\ Plain(MessageSummaryFields, summary(i))
  <2>1. messages[i] \in Stored
    BY <1>1, <1>6, ElementOfSeq
  <2>2. PICK x, y, z : x = messages[i].id /\ y = messages[i].receiver /\ z = messages[i].key
    OBVIOUS
  <2>3. x \in Texts /\ IsUtf8(x) /\ y \in Texts /\ IsUtf8(y) /\ z \in Nat
    BY <2>1, <2>2, TextFacts DEF Stored
  <2>4. PICK m, one : /\ one = 1
                      /\ m = [server_message_id |-> x, sender_id |-> from, receiver_id |-> y,
                              key_id |-> z, msg_type |-> type, send_time |-> t, status |-> one]
    OBVIOUS
  <2>5. m = summary(i)
    BY <2>2, <2>4
  <2>6. one \in Nat
    BY <2>4
  <2> HIDE DEF summary
  <2>7. Typed(MessageSummaryFields, m) /\ Plain(MessageSummaryFields, m)
    BY <1>5, <2>3, <2>4, <2>6, MessageSummaryTyped
  <2> QED  BY <2>5, <2>7
<1>7. /\ Len(msgs) = n /\ msgs = [i \in 1 .. n |-> msgs[i]]
      /\ \A i \in 1 .. n : msgs[i] = summary(i)
  BY <1>3, <1>5
<1>8. b.code = code /\ b.message = note /\ b.messages = msgs
  BY <1>3
<1>9. AnsweredList(b)
  <2>1. b = [code |-> b.code, message |-> b.message, messages |-> b.messages]
    BY <1>3, <1>8
  <2> HIDE DEF summary
  <2> QED  BY <1>5, <1>6, <1>7, <1>8, <2>1 DEF AnsweredList
<1>10. r.header = h /\ r.body_case = "query_msg_list_resp" /\ r.body = b
  BY <1>4
<1>11. AnsweredBody(r.body_case, r.body)
  BY <1>9, <1>10 DEF AnsweredBody
<1>12. WellAnswered(r)
  BY <1>2, <1>4, <1>10, <1>11 DEF WellAnswered
<1>13. RespondList(c, p, code, messages) => Respond(c, p, r)
  <2> DEFINE item(m) == [serverMessageId |-> m.id, senderId |-> Client, receiverId |-> m.receiver,
                         keyId |-> m.key, msgType |-> <<"text">>, sendTime |-> Now, status |-> 1]
             its == [i \in 1 .. n |-> item(messages[i])]
             sum(x) ==
               [server_message_id |-> x.serverMessageId, sender_id |-> x.senderId,
                receiver_id |-> x.receiverId, key_id |-> x.keyId, msg_type |-> x.msgType,
                send_time |-> x.sendTime, status |-> x.status]
  <2>1. \A i \in 1 .. n : sum(its[i]) = summary(i)
    BY <1>1
  <2>2. Len(its) = n
    BY <1>5
  <2> HIDE DEF its
  <2>3. [i \in 1 .. Len(its) |-> sum(its[i])] = msgs
    BY <1>3, <2>1, <2>2
  <2>4. initQueryMessageListResponse(
            [header |-> responseHeader(p, CMD_QUERY_MSG_LIST_RESP), code |-> code,
             message |-> Note, messages |-> its]) = r
    BY <1>1, <1>3, <1>4, <2>3 DEF initQueryMessageListResponse, Packet
  <2> QED  BY <1>1, <2>4 DEF RespondList, its
<1> QED  BY <1>8, <1>10, <1>12, <1>13
-----------------------------------------------------------------------------
(* The server's tables.                                                    *)

\* Keys keep their number and bytes.
KeysStay == \A k \in keys : \E l \in keys' : l.key = k.key /\ l.mat = k.mat

LEMMA SetStateKeeps ==
  ASSUME NEW K, K \subseteq Server!KeyRow, NEW R, R \subseteq K, NEW s \in Server!State
  PROVE  /\ Server!SetState(K, R, s) \subseteq Server!KeyRow
         /\ \A k \in K : \E l \in Server!SetState(K, R, s) : l.key = k.key /\ l.mat = k.mat
<1>1. ASSUME NEW r \in K
      PROVE  LET l == [r EXCEPT !.state = s]
             IN  l \in Server!KeyRow /\ l.key = r.key /\ l.mat = r.mat
  BY DEF Server!KeyRow
<1>2. Server!SetState(K, R, s) \subseteq Server!KeyRow
  BY <1>1 DEF Server!SetState
<1>3. ASSUME NEW k \in K  PROVE \E l \in Server!SetState(K, R, s) : l.key = k.key /\ l.mat = k.mat
  <2>1. CASE k \in R
    BY <1>1, <2>1 DEF Server!SetState
  <2>2. CASE k \notin R
    BY <2>2 DEF Server!SetState
  <2> QED  BY <2>1, <2>2
<1> QED  BY <1>2, <1>3

LEMMA AgreeTable ==
  ASSUME Server!TypeOK, NEW c \in Conns, Server!Agree("A", c)
  PROVE  /\ Server!TypeOK' /\ KeysStay
         /\ \E k \in keys' : k.key = sn /\ k.mat = c
<1> DEFINE old == Server!SetState(keys, Server!ActiveOf(keys, "A"), "Rotated")
           new == [client |-> "A", key |-> sn, state |-> "Active", mat |-> c]
<1>1. keys' = old \cup {new} /\ sn' = sn + 1
  BY DEF Server!Agree
<1>2. /\ old \subseteq Server!KeyRow
      /\ \A k \in keys : \E l \in old : l.key = k.key /\ l.mat = k.mat
  <2>1. "Rotated" \in Server!State /\ Server!ActiveOf(keys, "A") \subseteq keys
    BY DEF Server!State, Server!ActiveOf
  <2> QED  BY <2>1, SetStateKeeps DEF Server!TypeOK
<1>3. new \in Server!KeyRow /\ new.key = sn /\ new.mat = c
  BY ConnFacts DEF Server!TypeOK, Server!KeyRow, Server!State
<1> HIDE DEF old, new
<1>4. Server!TypeOK'
  BY <1>1, <1>2, <1>3 DEF Server!TypeOK
<1> QED  BY <1>1, <1>2, <1>3, <1>4 DEF KeysStay

LEMMA RevokeTable ==
  ASSUME Server!TypeOK, NEW r \in keys, Server!Revoke(r)
  PROVE  Server!TypeOK' /\ KeysStay
<1>1. keys' = Server!SetState(keys, {r}, "Revoked") /\ sn' = sn
  BY DEF Server!Revoke, Server!End
<1>2. "Revoked" \in Server!State /\ {r} \subseteq keys
  BY DEF Server!State
<1>3. /\ keys' \subseteq Server!KeyRow
      /\ \A k \in keys : \E l \in keys' : l.key = k.key /\ l.mat = k.mat
  BY <1>1, <1>2, SetStateKeeps DEF Server!TypeOK
<1> QED  BY <1>1, <1>3 DEF Server!TypeOK, KeysStay

LEMMA LogSame ==
  ASSUME EInv, log' = log
  PROVE  /\ log' \in Seq(Stored)
         /\ \A i \in 1 .. Len(log) : i \in 1 .. Len(log') /\ log'[i] = log[i]
  BY DEF EInv, Tables

\* The numbers the handlers answer with.
LEMMA Numbers ==
  /\ CMD_KEY_AGREE_RESP \in Nat /\ CMD_KEY_CHECK_RESP \in Nat /\ CMD_KEY_LOGOUT_RESP \in Nat
  /\ RESULT_SUCCESS \in Nat
  /\ \A x \in {RESULT_FAILED, RESULT_KEY_INVALID, RESULT_INVALID_REQUEST, RESULT_MSG_NOT_FOUND,
               RESULT_KEY_AGREE_FAILED, RESULT_KEY_LOGOUT_FAILED} : x \in Nat /\ x # RESULT_SUCCESS
  /\ DELIVERY_ACCEPTED \in Nat /\ DELIVERY_REJECTED \in Nat
  BY DEF CMD_KEY_AGREE_RESP, CMD_KEY_CHECK_RESP, CMD_KEY_LOGOUT_RESP, RESULT_SUCCESS,
         RESULT_FAILED, RESULT_KEY_INVALID, RESULT_INVALID_REQUEST, RESULT_MSG_NOT_FOUND,
         RESULT_KEY_AGREE_FAILED, RESULT_KEY_LOGOUT_FAILED, DELIVERY_ACCEPTED, DELIVERY_REJECTED

LEMMA RespondKeyInv ==
  ASSUME IInv, EInv, PacketPiece \subseteq Units, NEW c \in Conns, pc[c]["server"] = "have",
         NEW p, p = Handled(c), NEW command \in Nat, NEW code \in Nat, NEW keyId \in Nat,
         NEW data \in Texts, IsUtf8(data),
         RespondKey(c, p, command, code, keyId, data), UNCHANGED faults \/ Fault,
         Server!TypeOK', KeysStay, log' = log,
         code = RESULT_SUCCESS =>
           /\ p = call[c]
           /\ p.body_case = "key_agree_req" =>
                \E k \in keys' :
                  /\ k.key = keyId /\ k.mat = c
                  /\ \/ data = rsaPublicEncrypt(PublicKey(c), <<"aes", c>>)
                     \/ data = <<>> /\ faults' > 0
  PROVE  FramingNext /\ EInv'
<1>1. PICK r : r = makeKeyResponse(p, command, code, keyId, data)
  OBVIOUS
<1>2. AskedHeader(c, p.header)
  BY HandledFacts
<1>3. /\ WellAnswered(r) /\ r.body_case = "key_op_resp" /\ r.body.code = code
      /\ r.body.key_id = keyId /\ r.body.data = data
  BY <1>1, <1>2, KeyAnswer
<1>4. Respond(c, p, r)
  BY <1>1 DEF RespondKey
<1>5. r.body_case # "send_msg_resp"
  BY <1>3
<1>6. r.body.code = RESULT_SUCCESS =>
           /\ p = call[c]
           /\ r.body_case = "key_op_resp" /\ p.body_case = "key_agree_req" =>
                \E k \in keys' :
                  /\ k.key = r.body.key_id /\ k.mat = c
                  /\ \/ r.body.data = rsaPublicEncrypt(PublicKey(c), <<"aes", c>>)
                     \/ r.body.data = <<>> /\ faults' > 0
           /\ r.body_case = "send_msg_resp" =>
                \E i \in 1 .. Len(log') : log'[i].id = r.body.server_message_id
  BY <1>3, <1>5
<1> QED  BY <1>3, <1>4, <1>6, LogSame, RespondInv DEF KeysStay

\* A response that does not report success needs nothing else.
LEMMA RefuseInv ==
  ASSUME IInv, EInv, PacketPiece \subseteq Units, NEW c \in Conns, pc[c]["server"] = "have",
         NEW p, p = Handled(c), NEW r, WellAnswered(r), Respond(c, p, r),
         UNCHANGED faults \/ Fault, Server!TypeOK', KeysStay, log' = log,
         r.body.code = RESULT_SUCCESS => p = call[c],
         r.body_case \in {"query_msg_resp", "query_msg_list_resp"} \/ r.body.code # RESULT_SUCCESS
  PROVE  FramingNext /\ EInv'
<1>1. r.body.code = RESULT_SUCCESS => r.body_case # "key_op_resp" /\ r.body_case # "send_msg_resp"
  OBVIOUS
<1>2. r.body.code = RESULT_SUCCESS =>
           /\ p = call[c]
           /\ r.body_case = "key_op_resp" /\ p.body_case = "key_agree_req" =>
                \E k \in keys' :
                  /\ k.key = r.body.key_id /\ k.mat = c
                  /\ \/ r.body.data = rsaPublicEncrypt(PublicKey(c), <<"aes", c>>)
                     \/ r.body.data = <<>> /\ faults' > 0
           /\ r.body_case = "send_msg_resp" =>
                \E i \in 1 .. Len(log') : log'[i].id = r.body.server_message_id
  BY <1>1
<1> QED  BY <1>2, LogSame, RespondInv DEF KeysStay

LEMMA TablesSame ==
  ASSUME EInv, UNCHANGED <<sn, keys>>
  PROVE  Server!TypeOK' /\ KeysStay
  BY DEF EInv, Tables, Server!TypeOK, KeysStay
-----------------------------------------------------------------------------
(* The handlers.                                                           *)

LEMMA RespondSendInv ==
  ASSUME IInv, EInv, PacketPiece \subseteq Units, NEW c \in Conns, pc[c]["server"] = "have",
         NEW p, p = Handled(c), NEW code \in Nat, NEW id \in Texts, IsUtf8(id), NEW status \in Nat,
         RespondSend(c, p, code, id, status), UNCHANGED faults \/ Fault, UNCHANGED <<sn, keys>>,
         log' \in Seq(Stored), \A i \in 1 .. Len(log) : i \in 1 .. Len(log') /\ log'[i] = log[i],
         code = RESULT_SUCCESS => p = call[c] /\ \E i \in 1 .. Len(log') : log'[i].id = id
  PROVE  FramingNext /\ EInv'
<1>1. PICK r : r = initSendMessageResponse(
                    [header |-> responseHeader(p, CMD_SEND_MSG_RESP), code |-> code,
                     message |-> Note, serverMessageId |-> id, serverTime |-> Now,
                     deliveryStatus |-> status])
  OBVIOUS
<1>2. AskedHeader(c, p.header)
  BY HandledFacts
<1>3. /\ WellAnswered(r) /\ r.body_case = "send_msg_resp" /\ r.body.code = code
      /\ r.body.server_message_id = id
  BY <1>1, <1>2, SendAnswer
<1>4. Respond(c, p, r)
  BY <1>1 DEF RespondSend
<1>5. r.body_case # "key_op_resp"
  BY <1>3
<1>6. r.body.code = RESULT_SUCCESS =>
           /\ p = call[c]
           /\ r.body_case = "key_op_resp" /\ p.body_case = "key_agree_req" =>
                \E k \in keys' :
                  /\ k.key = r.body.key_id /\ k.mat = c
                  /\ \/ r.body.data = rsaPublicEncrypt(PublicKey(c), <<"aes", c>>)
                     \/ r.body.data = <<>> /\ faults' > 0
           /\ r.body_case = "send_msg_resp" =>
                \E i \in 1 .. Len(log') : log'[i].id = r.body.server_message_id
  BY <1>3, <1>5
<1> QED  BY <1>3, <1>4, <1>6, TablesSame, RespondInv DEF KeysStay

\* The steps with the agreement's file.
LEMMA FileInv ==
  ASSUME IInv, EInv, NEW c \in Conns, pc[c]["server"] = "have", NEW p, p = Handled(c),
         openPem(c, p) \/ flushPem(c, p) \/ loadPem(c, p)
  PROVE  UNCHANGED framingVars /\ EInv'
<1>1. PICK to \in {"opened", "written", "loaded"} :
        /\ p.body_case = "key_agree_req"
        /\ stage' = [stage EXCEPT ![c] = to]
        /\ UNCHANGED <<framingVars, clientVars, tableVars, done>>
  BY DEF openPem, flushPem, loadPem, FileStep
<1>2. pem' \in KeyText /\ rsa' \in [Conns -> KeyText]
  <2>1. pem \in KeyText /\ rsa \in [Conns -> KeyText] /\ <<>> \in KeyText
    BY DEF EInv, Tables, KeyText
  <2>2. CASE openPem(c, p)
    BY <2>1, <2>2 DEF openPem
  <2>3. CASE flushPem(c, p)
    <3>1. AskedBody(c, "key_agree_req", p.body)
      BY <1>1, HandledFacts DEF RequestCases
    <3>2. p.body = [public_key |-> PublicKey(c), sign |-> rsaSign(c)]
      BY <3>1 DEF AskedBody
    <3>3. p.body.public_key = PublicKey(c)
      BY <3>2
    <3>4. PublicKey(c) \in KeyText
      BY DEF KeyText
    <3> QED  BY <2>1, <2>3, <3>3, <3>4 DEF flushPem
  <2>4. CASE loadPem(c, p)
    BY <2>1, <2>4 DEF loadPem
  <2> QED  BY <2>2, <2>3, <2>4
<1>3. stage' \in [Conns -> {"start", "opened", "written", "loaded"}]
  BY <1>1 DEF EInv, Tables
<1>4. UNCHANGED <<call, succeeded, cache, lastId, sn, keys, log, done, out, faults>>
  BY <1>1 DEF clientVars, tableVars, framingVars
<1>5. Tables'
  BY <1>2, <1>3, <1>4 DEF EInv, Tables, Server!TypeOK
<1>6. Grows
  BY <1>4, OutTypes, FaultsGrow, SameGrows
<1>7. ClientOK'
  BY <1>4, <1>6, ClientStays DEF EInv, ClientOK
<1>8. ASSUME NEW d \in Conns  PROVE Asking(d)' /\ Answering(d)'
  BY <1>4, <1>6, AskingStays, AnsweringStays DEF EInv
<1> QED  BY <1>1, <1>5, <1>7, <1>8 DEF EInv

LEMMA refuseAgreementInv ==
  ASSUME IInv, EInv, PacketPiece \subseteq Units, NEW c \in Conns, pc[c]["server"] = "have",
         NEW p, p = Handled(c), refuseAgreement(c, p)
  PROVE  FramingNext /\ EInv'
<1>1. CASE /\ RespondKey(c, p, CMD_KEY_AGREE_RESP, RESULT_KEY_AGREE_FAILED, 0, <<>>)
           /\ UNCHANGED <<tableVars, faults>>
  <2>1. 0 \in Nat /\ <<>> \in Texts /\ IsUtf8(<<>>)
    BY PlainTexts
  <2>2. UNCHANGED <<sn, keys>> /\ log' = log /\ UNCHANGED faults
    BY <1>1 DEF tableVars
  <2> QED  BY <1>1, <2>1, <2>2, Numbers, TablesSame, RespondKeyInv
<1>2. CASE HandlerCrashes(c) /\ UNCHANGED <<clientVars, serverVars>>
  <2>1. FramingNext
    BY <1>2 DEF FramingNext, Failure
  <2>2. out' = out /\ faults' = faults
    BY <1>2 DEF HandlerCrashes, ServerGone
  <2> QED  BY <1>2, <2>1, <2>2, OutTypes, SocketInv DEF clientVars
<1> QED  BY <1>1, <1>2 DEF refuseAgreement

LEMMA grantAgreementInv ==
  ASSUME IInv, EInv, PacketPiece \subseteq Units, NEW c \in Conns, pc[c]["server"] = "have",
         NEW p, p = Handled(c), grantAgreement(c, p)
  PROVE  FramingNext /\ EInv'
<1> DEFINE sealed == rsaPublicEncrypt(rsa[c], <<"aes", c>>)
<1>1. p.body_case = "key_agree_req" /\ p = call[c] /\ AskedBody(c, "key_agree_req", p.body)
  <2>1. p.body_case = "key_agree_req"
    BY DEF grantAgreement
  <2> QED  BY <2>1, HandledFacts DEF RequestCases
<1>2. sealed = rsaPublicEncrypt(PublicKey(c), <<"aes", c>>) /\ sealed \in Texts /\ IsUtf8(sealed)
  <2>1. p.body = [public_key |-> PublicKey(c), sign |-> rsaSign(c)]
    BY <1>1 DEF AskedBody
  <2>2. p.body.public_key = PublicKey(c)
    BY <2>1
  <2>3. rsa[c] = PublicKey(c)
    BY <2>2 DEF grantAgreement, rsaVerify
  <2>4. rsaPublicEncrypt(PublicKey(c), <<"aes", c>>) = <<"rsa", c, c>>
    BY DEF rsaPublicEncrypt, PublicKey
  <2>5. <<"rsa", c, c>> \in Texts /\ IsUtf8(<<"rsa", c, c>>)
    BY TextFacts, ConnFacts
  <2> QED  BY <2>3, <2>4, <2>5
<1>3. /\ log' = log
      /\ \/ /\ Server!Agree("A", c)
            /\ \/ /\ RespondKey(c, p, CMD_KEY_AGREE_RESP, RESULT_SUCCESS, sn, sealed) /\ Works
               \/ /\ RespondKey(c, p, CMD_KEY_AGREE_RESP, RESULT_SUCCESS, sn, <<>>) /\ Fault
         \/ /\ Server!Agree("A", c) \/ UNCHANGED <<sn, keys>>
            /\ RespondKey(c, p, CMD_KEY_AGREE_RESP, RESULT_KEY_AGREE_FAILED, 0, <<>>) /\ Fault
  BY DEF grantAgreement
<1>4. Server!TypeOK /\ sn \in Nat
  BY DEF EInv, Tables, Server!TypeOK
<1>5. 0 \in Nat /\ <<>> \in Texts /\ IsUtf8(<<>>)
  BY PlainTexts
<1> HIDE DEF sealed
<1>6. CASE Server!Agree("A", c) /\ RespondKey(c, p, CMD_KEY_AGREE_RESP, RESULT_SUCCESS, sn,
      sealed) /\ Works
  <2>1. Server!TypeOK' /\ KeysStay /\ \E k \in keys' : k.key = sn /\ k.mat = c
    BY <1>4, <1>6, AgreeTable
  <2>2. PICK n, t : n = sn /\ t = sealed
    OBVIOUS
  <2>3. n \in Nat /\ t \in Texts /\ IsUtf8(t) /\ t = rsaPublicEncrypt(PublicKey(c), <<"aes", c>>)
    BY <1>2, <1>4, <2>2
  <2>4. RespondKey(c, p, CMD_KEY_AGREE_RESP, RESULT_SUCCESS, n, t) /\ UNCHANGED faults
    BY <1>6, <2>2 DEF Works
  <2>5. \E k \in keys' : /\ k.key = n /\ k.mat = c
                         /\ \/ t = rsaPublicEncrypt(PublicKey(c), <<"aes", c>>)
                            \/ t = <<>> /\ faults' > 0
    BY <2>1, <2>2, <2>3
  <2> QED  BY <1>1, <1>3, <2>1, <2>3, <2>4, <2>5, Numbers, RespondKeyInv
<1>7. CASE Server!Agree("A", c) /\ RespondKey(c, p, CMD_KEY_AGREE_RESP, RESULT_SUCCESS, sn,
      <<>>) /\ Fault
  <2>1. Server!TypeOK' /\ KeysStay /\ \E k \in keys' : k.key = sn /\ k.mat = c
    BY <1>4, <1>7, AgreeTable
  <2>2. PICK n, t : n = sn /\ t = <<>>
    OBVIOUS
  <2>3. n \in Nat /\ t \in Texts /\ IsUtf8(t) /\ faults' > 0
    BY <1>4, <1>5, <1>7, <2>2, OutTypes DEF Fault
  <2>4. RespondKey(c, p, CMD_KEY_AGREE_RESP, RESULT_SUCCESS, n, t)
    BY <1>7, <2>2
  <2>5. \E k \in keys' : /\ k.key = n /\ k.mat = c
                         /\ \/ t = rsaPublicEncrypt(PublicKey(c), <<"aes", c>>)
                            \/ t = <<>> /\ faults' > 0
    BY <2>1, <2>2, <2>3
  <2> QED  BY <1>1, <1>3, <1>7, <2>1, <2>3, <2>4, <2>5, Numbers, RespondKeyInv
<1>8. CASE /\ Server!Agree("A", c) \/ UNCHANGED <<sn, keys>>
           /\ RespondKey(c, p, CMD_KEY_AGREE_RESP, RESULT_KEY_AGREE_FAILED, 0, <<>>) /\ Fault
  <2>1. Server!TypeOK' /\ KeysStay
    BY <1>4, <1>8, AgreeTable, TablesSame
  <2> QED  BY <1>3, <1>5, <1>8, <2>1, Numbers, RespondKeyInv
<1> QED  BY <1>3, <1>6, <1>7, <1>8

LEMMA secKeyCheckInv ==
  ASSUME IInv, EInv, PacketPiece \subseteq Units, NEW c \in Conns, pc[c]["server"] = "have",
         NEW p, p = Handled(c), secKeyCheck(c, p)
  PROVE  FramingNext /\ EInv'
<1>1. p.body_case = "key_check_req" /\ p = call[c] /\ AskedBody(c, "key_check_req", p.body)
  <2>1. p.body_case = "key_check_req"
    BY DEF secKeyCheck
  <2> QED  BY <2>1, HandledFacts DEF RequestCases
<1>2. p.body.key_id \in Nat
  BY <1>1 DEF AskedBody
<1>3. UNCHANGED <<sn, keys>> /\ log' = log
  BY DEF secKeyCheck, tableVars
<1>4. PICK code \in Nat : /\ RespondKey(c, p, CMD_KEY_CHECK_RESP, code, p.body.key_id, <<>>)
                          /\ UNCHANGED faults \/ Fault
  BY Numbers DEF secKeyCheck, Works
<1>5. <<>> \in Texts /\ IsUtf8(<<>>) /\ p.body_case # "key_agree_req"
  BY <1>1, PlainTexts
<1> QED  BY <1>1, <1>2, <1>3, <1>4, <1>5, Numbers, TablesSame, RespondKeyInv

LEMMA SeckeyLogoutInv ==
  ASSUME IInv, EInv, PacketPiece \subseteq Units, NEW c \in Conns, pc[c]["server"] = "have",
         NEW p, p = Handled(c), SeckeyLogout(c, p)
  PROVE  FramingNext /\ EInv'
<1>1. p.body_case = "key_logout_req" /\ p = call[c] /\ AskedBody(c, "key_logout_req", p.body)
  <2>1. p.body_case = "key_logout_req"
    BY DEF SeckeyLogout
  <2> QED  BY <2>1, HandledFacts DEF RequestCases
<1>2. p.body.key_id \in Nat
  BY <1>1 DEF AskedBody
<1>3. /\ log' = log
      /\ (\E r \in Row(p.body.key_id) : Server!Revoke(r)) \/ UNCHANGED <<sn, keys>>
  BY DEF SeckeyLogout
<1>4. Server!TypeOK' /\ KeysStay
  <2>1. Server!TypeOK /\ Row(p.body.key_id) \subseteq keys
    BY DEF EInv, Tables, Row
  <2> QED  BY <1>3, <2>1, RevokeTable, TablesSame
<1>5. PICK code \in Nat : /\ RespondKey(c, p, CMD_KEY_LOGOUT_RESP, code, p.body.key_id, <<>>)
                          /\ UNCHANGED faults \/ Fault
  BY Numbers DEF SeckeyLogout, Works
<1>6. <<>> \in Texts /\ IsUtf8(<<>>) /\ p.body_case # "key_agree_req"
  BY <1>1, PlainTexts
<1> QED  BY <1>1, <1>2, <1>3, <1>4, <1>5, <1>6, Numbers, RespondKeyInv

LEMMA handleSendMessageInv ==
  ASSUME IInv, EInv, PacketPiece \subseteq Units, NEW c \in Conns, pc[c]["server"] = "have",
         NEW p, p = Handled(c), handleSendMessage(c, p)
  PROVE  FramingNext /\ EInv'
<1> DEFINE record == [id |-> MessageId(c), receiver |-> p.header.receiver_id,
                      key |-> p.body.message.key_id]
<1>1. p.body_case = "send_msg_req" /\ p = call[c] /\ AskedBody(c, "send_msg_req", p.body)
  <2>1. p.body_case = "send_msg_req"
    BY DEF handleSendMessage
  <2> QED  BY <2>1, HandledFacts DEF RequestCases
<1>2. p.body.message.key_id \in Nat
  BY <1>1 DEF AskedBody
<1>3. <<>> \in Texts /\ IsUtf8(<<>>) /\ MessageId(c) \in Texts /\ IsUtf8(MessageId(c))
  BY PlainTexts, TextFacts, ConnFacts DEF MessageId
<1>4. UNCHANGED <<sn, keys>>
  BY DEF handleSendMessage
<1>5. CASE /\ p.header.receiver_id = Friend
           /\ log' = Append(log, record)
           /\ \/ RespondSend(c, p, RESULT_SUCCESS, record.id, DELIVERY_ACCEPTED) /\ Works
              \/ RespondSend(c, p, RESULT_FAILED, <<>>, DELIVERY_REJECTED) /\ Fault
  <2>1. PICK m : m = record
    OBVIOUS
  <2>2. m \in Stored /\ m.id = MessageId(c)
    <3>1. PICK i, k : i = MessageId(c) /\ k = p.body.message.key_id
      OBVIOUS
    <3>2. m = [id |-> i, receiver |-> Friend, key |-> k]
      BY <1>5, <2>1, <3>1
    <3>3. i \in Texts /\ IsUtf8(i) /\ k \in Nat
      BY <1>2, <1>3, <3>1
    <3>4. m.id = i /\ m \in [id : Texts, receiver : {Friend}, key : Nat]
      BY <3>2, <3>3
    <3> QED  BY <3>1, <3>3, <3>4 DEF Stored
  <2>3. log \in Seq(Stored)
    BY DEF EInv, Tables
  <2>4. log' = Append(log, m)
    BY <1>5, <2>1
  <2> HIDE DEF record
  <2>5. /\ log' \in Seq(Stored) /\ Len(log') = Len(log) + 1 /\ Len(log) \in Nat
        /\ \A i \in 1 .. Len(log) : log'[i] = log[i]
        /\ log'[Len(log) + 1] = m
    BY <2>2, <2>3, <2>4, AppendProperties, LenProperties
  <2>6. \A i \in 1 .. Len(log) : i \in 1 .. Len(log')
    BY <2>5
  <2>7. \E i \in 1 .. Len(log') : log'[i].id = MessageId(c)
    <3>1. Len(log) + 1 \in 1 .. Len(log')
      BY <2>5
    <3> QED  BY <2>2, <2>5, <3>1
  <2>8. CASE RespondSend(c, p, RESULT_SUCCESS, record.id, DELIVERY_ACCEPTED) /\ Works
    <3>1. PICK id : id = record.id
      OBVIOUS
    <3>2. id = MessageId(c)
      BY <2>1, <2>2, <3>1
    <3>3. RespondSend(c, p, RESULT_SUCCESS, id, DELIVERY_ACCEPTED) /\ UNCHANGED faults
      BY <2>8, <3>1 DEF Works
    <3> QED
      BY <1>1, <1>3, <1>4, <2>5, <2>6, <2>7, <3>2, <3>3, Numbers, RespondSendInv
  <2>9. CASE RespondSend(c, p, RESULT_FAILED, <<>>, DELIVERY_REJECTED) /\ Fault
    BY <1>3, <1>4, <2>5, <2>6, <2>9, Numbers, RespondSendInv
  <2> QED  BY <1>5, <2>8, <2>9 DEF record
<1>6. ASSUME log' = log, NEW code \in {RESULT_FAILED, RESULT_INVALID_REQUEST},
             RespondSend(c, p, code, <<>>, DELIVERY_REJECTED), Works
      PROVE  FramingNext /\ EInv'
  <2>1. code \in Nat /\ code # RESULT_SUCCESS
    BY Numbers
  <2> QED  BY <1>3, <1>4, <1>6, <2>1, Numbers, LogSame, RespondSendInv DEF Works
<1> QED  BY <1>5, <1>6 DEF handleSendMessage

LEMMA refuseUnknownInv ==
  ASSUME IInv, EInv, PacketPiece \subseteq Units, NEW c \in Conns, pc[c]["server"] = "have",
         NEW p, p = Handled(c), refuseUnknown(c, p)
  PROVE  FramingNext /\ EInv'
<1>1. /\ UNCHANGED <<sn, keys>> /\ log' = log /\ UNCHANGED faults
      /\ RespondSend(c, p, RESULT_INVALID_REQUEST, <<>>, DELIVERY_REJECTED)
  BY DEF refuseUnknown, tableVars, Works
<1>2. <<>> \in Texts /\ IsUtf8(<<>>)
  BY PlainTexts
<1> QED  BY <1>1, <1>2, Numbers, LogSame, RespondSendInv

LEMMA handleQueryMessageInv ==
  ASSUME IInv, EInv, PacketPiece \subseteq Units, NEW c \in Conns, pc[c]["server"] = "have",
         NEW p, p = Handled(c), handleQueryMessage(c, p)
  PROVE  FramingNext /\ EInv'
<1>1. p.body_case = "query_msg_req" /\ p = call[c] /\ AskedBody(c, "query_msg_req", p.body)
  <2>1. p.body_case = "query_msg_req"
    BY DEF handleQueryMessage
  <2> QED  BY <2>1, HandledFacts DEF RequestCases
<1>2. p.body.server_message_id \in Texts
  BY <1>1 DEF AskedBody
<1>3. UNCHANGED <<sn, keys>> /\ log' = log
  BY DEF handleQueryMessage, tableVars
<1>4. \A m \in ToSet(log) : m.receiver \in Texts /\ m.key \in Nat
  <2>1. ToSet(log) \subseteq Stored
    BY ElementOfSeq, LenProperties DEF EInv, Tables, ToSet
  <2> QED  BY <2>1, TextFacts DEF Stored
<1>5. PICK code \in Nat, receiver \in Texts, key \in Nat :
        /\ RespondQuery(c, p, code, p.body.server_message_id, receiver, key)
        /\ UNCHANGED faults \/ Fault
  <2>1. <<>> \in Texts /\ 0 \in Nat
    BY PlainTexts
  <2> QED  BY <1>4, <2>1, Numbers DEF handleQueryMessage, Works
<1>6. AskedHeader(c, p.header)
  BY HandledFacts
<1>7. PICK r : /\ WellAnswered(r) /\ r.body_case = "query_msg_resp"
               /\ RespondQuery(c, p, code, p.body.server_message_id, receiver, key)
                      => Respond(c, p, r)
  BY <1>2, <1>6, QueryAnswer
<1> QED  BY <1>1, <1>3, <1>5, <1>7, TablesSame, RefuseInv

LEMMA handleQueryMessageListInv ==
  ASSUME IInv, EInv, PacketPiece \subseteq Units, NEW c \in Conns, pc[c]["server"] = "have",
         NEW p, p = Handled(c), handleQueryMessageList(c, p)
  PROVE  FramingNext /\ EInv'
<1> DEFINE newest == SubSeq(Reverse(log), 1, Min({Len(log), p.body.limit}))
<1>1. p.body_case = "query_msg_list_req" /\ p = call[c] /\ AskedBody(c, "query_msg_list_req",
      p.body)
  <2>1. p.body_case = "query_msg_list_req"
    BY DEF handleQueryMessageList
  <2> QED  BY <2>1, HandledFacts DEF RequestCases
<1>2. p.body.limit = 1
  <2>1. p.body = [sender_id |-> Client, limit |-> 1]
    BY <1>1 DEF AskedBody
  <2> QED  BY <2>1
<1>3. newest \in Seq(Stored)
  <2>1. log \in Seq(Stored) /\ Len(log) \in Nat
    BY LenProperties DEF EInv, Tables
  <2>2. PICK n : n = Min({Len(log), p.body.limit})
    OBVIOUS
  <2>3. n \in Nat /\ n <= Len(log)
    <3>1. PICK x : x = Len(log)
      OBVIOUS
    <3>2. \E y \in {x, 1} : \A z \in {x, 1} : y <= z
      BY <2>1, <3>1
    <3>3. n \in {x, 1} /\ n <= x
      BY <1>2, <2>2, <3>1, <3>2 DEF Min
    <3> QED  BY <2>1, <3>1, <3>3
  <2>4. \A i \in 1 .. n : Reverse(log)[i] \in Stored
    <3> TAKE i \in 1 .. n
    <3>1. i \in 1 .. Len(log) /\ (Len(log) - i) + 1 \in 1 .. Len(log)
      BY <2>1, <2>3
    <3>2. Reverse(log)[i] = log[(Len(log) - i) + 1]
      BY <3>1 DEF Reverse
    <3> QED  BY <2>1, <3>1, <3>2, ElementOfSeq
  <2>5. PICK s : s = Reverse(log)
    OBVIOUS
  <2>6. SubSeq(s, 1, n) \in Seq(Stored)
    <3>1. \A i \in 1 .. n : s[i] \in Stored
      BY <2>4, <2>5
    <3>2. 1 \in Int /\ n \in Int
      BY <2>3
    <3> QED  BY <3>1, <3>2, SubSeqProperties
  <2> QED  BY <2>2, <2>5, <2>6
<1> HIDE DEF newest
<1>4. UNCHANGED <<sn, keys>> /\ log' = log
  BY DEF handleQueryMessageList, tableVars
<1>5. PICK code \in Nat, messages \in Seq(Stored) :
        RespondList(c, p, code, messages) /\ (UNCHANGED faults \/ Fault)
  <2>1. <<>> \in Seq(Stored)
    BY EmptySeq
  <2>2. \/ RespondList(c, p, RESULT_SUCCESS, newest) /\ Works
        \/ RespondList(c, p, RESULT_FAILED, <<>>) /\ Fault
        \/ RespondList(c, p, RESULT_INVALID_REQUEST, <<>>) /\ Works
    BY DEF handleQueryMessageList, newest
  <2> QED  BY <1>3, <2>1, <2>2, Numbers DEF Works
<1>6. AskedHeader(c, p.header)
  BY HandledFacts
<1>7. PICK r : /\ WellAnswered(r) /\ r.body_case = "query_msg_list_resp"
               /\ RespondList(c, p, code, messages) => Respond(c, p, r)
  BY <1>6, ListAnswer
<1> QED  BY <1>1, <1>4, <1>5, <1>7, TablesSame, RefuseInv

LEMMA processV2RequestInv ==
  ASSUME IInv, EInv, PacketPiece \subseteq Units, NEW c \in Conns, processV2Request(c)
  PROVE  (FramingNext \/ UNCHANGED framingVars) /\ EInv'
<1>1. PICK p : /\ p = Handled(c) /\ pc[c]["server"] = "have"
               /\ \/ openPem(c, p) \/ flushPem(c, p) \/ loadPem(c, p)
                  \/ refuseAgreement(c, p) \/ grantAgreement(c, p)
                  \/ secKeyCheck(c, p) \/ SeckeyLogout(c, p)
                  \/ handleSendMessage(c, p) \/ handleQueryMessage(c, p)
                  \/ handleQueryMessageList(c, p) \/ refuseUnknown(c, p)
  BY DEF processV2Request
<1> QED
  BY <1>1, FileInv, refuseAgreementInv, grantAgreementInv, secKeyCheckInv, SeckeyLogoutInv,
     handleSendMessageInv, handleQueryMessageInv, handleQueryMessageListInv, refuseUnknownInv

\* The steps of the connections, which leave the rest alone but for a client that dies.
LEMMA ConnectionInv ==
  ASSUME IInv, EInv,
         \/ \E c \in Conns : ClientSocket(c) \/ ServerSocket(c) \/ Killed(c) \/ Socket(GoSilent(c))
         \/ Socket(ServerDies)
  PROVE  FramingNext /\ EInv'
<1>1. ASSUME NEW c \in Conns, ClientSocket(c)
      PROVE  /\ FramingNext /\ out' = out /\ (UNCHANGED faults \/ Fault)
             /\ lastId' \in {lastId, <<>>} /\ UNCHANGED <<call, succeeded, cache, serverVars>>
  <2>1. CASE Socket(\/ Connected(c) \/ ConnectFails(c) \/ writen(c, "client")
                    \/ Await(c) \/ Timeout(c) \/ readn(c, "client") \/ readnFails(c, "client"))
    <3>1. FramingNext /\ UNCHANGED <<clientVars, serverVars>>
      BY <2>1, Ends DEF Socket, FramingNext, Transfer
    <3>2. out' = out /\ UNCHANGED faults
      BY <2>1 DEF Socket, Connected, ConnectFails, writen, Await, Timeout, readn, readnFails, Close
    <3> QED  BY <3>1, <3>2 DEF clientVars
  <2>2. CASE SendFails(c)
    BY <2>2, Ends DEF SendFails, FramingNext, Transfer, writenFails, Close
  <2> QED  BY <1>1, <2>1, <2>2 DEF ClientSocket
<1>2. ASSUME NEW c \in Conns, ServerSocket(c)
      PROVE  FramingNext /\ out' = out /\ UNCHANGED faults /\ UNCHANGED <<clientVars, serverVars>>
  <2>1. FramingNext /\ UNCHANGED <<clientVars, serverVars>>
    BY <1>2, Ends DEF ServerSocket, Socket, FramingNext, Failure
  <2>2. out' = out /\ UNCHANGED faults
    BY <1>2 DEF ServerSocket, Socket, Begin, Transfer, writen, writenFails, readn, readnFails,
                BrokenPipe, ServerGone, Disconnect, Close
  <2> QED  BY <2>1, <2>2
<1>3. ASSUME NEW c \in Conns, Killed(c)
      PROVE  /\ FramingNext /\ out' = out /\ Fault
             /\ lastId' = <<>> /\ UNCHANGED <<call, succeeded, cache, serverVars>>
  BY <1>3 DEF Killed, FramingNext, Failure, ClientDies, Close
<1>4. ASSUME Socket(ServerDies) \/ \E c \in Conns : Socket(GoSilent(c))
      PROVE  FramingNext /\ out' = out /\ Fault /\ UNCHANGED <<clientVars, serverVars>>
  BY <1>4 DEF Socket, FramingNext, Failure, ServerDies, ServerGone, GoSilent
<1>5. /\ FramingNext /\ out' = out /\ (UNCHANGED faults \/ Fault)
      /\ lastId' \in {lastId, <<>>} /\ UNCHANGED <<call, succeeded, cache, serverVars>>
  BY <1>1, <1>2, <1>3, <1>4 DEF clientVars
<1> QED  BY <1>5, OutTypes, SocketInv
-----------------------------------------------------------------------------
(* The whole.                                                              *)

LEMMA InitEInv == ExchangeInit => IInv /\ EInv
<1> SUFFICES ASSUME ExchangeInit  PROVE IInv /\ EInv
  OBVIOUS
<1>1. IInv /\ faults = 0 /\ \A c \in Conns, e \in End : out[c][e] = NoPayload
  BY InitInv DEF ExchangeInit, FramingInit, Per
<1>2. PICK k : k = [client |-> "A", key |-> 1, state |-> "Active", mat |-> 0]
  OBVIOUS
<1>3. keys = {k} /\ sn = 2 /\ k.key = 1 /\ k.mat = 0
  BY <1>2 DEF ExchangeInit
<1>4. Server!TypeOK
  <2>1. k \in Server!KeyRow
    BY <1>2 DEF Server!KeyRow, Server!State
  <2> QED  BY <1>3, <2>1 DEF Server!TypeOK
<1>5. Tables
  <2>1. log \in Seq(Stored) /\ pem \in KeyText /\ rsa \in [Conns -> KeyText]
    BY EmptySeq DEF ExchangeInit, KeyText
  <2> QED  BY <1>4, <2>1 DEF ExchangeInit, Tables
<1>6. ClientOK
  <2>1. PICK b : b = <<"aes", 0>>
    OBVIOUS
  <2>2. cache = [key |-> 1, bytes |-> b, status |-> 1]
    BY <2>1 DEF ExchangeInit
  <2>3. cache.key = k.key /\ cache.bytes = <<"aes", k.mat>> /\ cache.status = 1
    BY <1>3, <2>1, <2>2
  <2>4. CachedKeyIssued
    BY <1>3, <2>3 DEF CachedKeyIssued
  <2>5. cache = [key |-> cache.key, bytes |-> cache.bytes, status |-> cache.status]
    BY <2>2
  <2> QED  BY <2>3, <2>4, <2>5 DEF ExchangeInit, ClientOK
<1>7. ASSUME NEW c \in Conns  PROVE Asking(c) /\ Answering(c)
  BY <1>1, Ends DEF ExchangeInit, Asking, Answering
<1> QED  BY <1>1, <1>5, <1>6, <1>7 DEF EInv

\* Every step of the whole is one of the connections, or leaves them alone.
LEMMA NextEInv ==
  ASSUME IInv, EInv, PacketPiece \subseteq Units, [ExchangeNext]_vars
  PROVE  [FramingNext]_framingVars /\ EInv'
<1>1. ASSUME NEW c \in Conns, Menu(c)  PROVE FramingNext /\ EInv'
  BY <1>1, MenuInv
<1>2. ASSUME NEW c \in Conns, Act(c)  PROVE FramingNext /\ EInv'
  BY <1>2, ActInv
<1>3. ASSUME NEW c \in Conns, processV2Request(c)
      PROVE  (FramingNext \/ UNCHANGED framingVars) /\ EInv'
  BY <1>3, processV2RequestInv
<1>4. ASSUME \/ \E c \in Conns :
                  ClientSocket(c) \/ ServerSocket(c) \/ Killed(c) \/ Socket(GoSilent(c))
             \/ Socket(ServerDies)
      PROVE  FramingNext /\ EInv'
  BY <1>4, ConnectionInv
<1>5. CASE UNCHANGED vars
  <2>1. /\ UNCHANGED framingVars /\ out' = out /\ UNCHANGED faults /\ lastId' = lastId
        /\ UNCHANGED <<call, succeeded, cache, serverVars>>
    BY <1>5 DEF vars, framingVars, clientVars
  <2> QED  BY <2>1, OutTypes, SocketInv
<1> QED  BY <1>1, <1>2, <1>3, <1>4, <1>5 DEF ExchangeNext, Done

\* What holds at every step of the whole, for messages cut into units that have at
\* least the pieces of a packet.
THEOREM ExchangeSpec_Inv ==
  ASSUME PacketPiece \subseteq Units
  PROVE  ExchangeSpec => [](IInv /\ EInv)
<1>1. IInv /\ EInv /\ [ExchangeNext]_vars => (IInv /\ EInv)'
  BY NextEInv, NextInv
<1> QED  BY <1>1, InitEInv, PTL DEF ExchangeSpec

\* V2Codec.cpp and MessageV2.proto: what an operation asks and what a thread or a client
\* works on are packets of the protocol, whatever part of them was read.
THEOREM ExchangeSpec_TypeOK ==
  ASSUME PacketPiece \subseteq Units
  PROVE  ExchangeSpec => []ExchangeTypeOK
<1>1. IInv /\ EInv => ExchangeTypeOK
  <2> SUFFICES ASSUME IInv, EInv  PROVE ExchangeTypeOK
    OBVIOUS
  <2>1. FramingTypeOK
    BY DEF IInv, Types, FramingTypeOK
  <2>2. ASSUME NEW c \in Conns
        PROVE  /\ call[c] = NotSet \/ RequestPacket(call[c])
               /\ pc[c]["server"] = "have" => RequestPacket(Handled(c))
               /\ pc[c]["client"] = "have" => ResponsePacket(Answered(c))
    <3>1. call[c] = NotSet \/ Asks(c, call[c])
      BY DEF EInv, Asking
    <3>2. ASSUME NEW p, Asks(c, p)  PROVE RequestPacket(p)
      BY <3>2, AskedPacket DEF Asks
    <3>3. call[c] = NotSet \/ RequestPacket(call[c])
      BY <3>1, <3>2
    <3>4. ASSUME pc[c]["server"] = "have"  PROVE RequestPacket(Handled(c))
      BY <3>4, HandledFacts, AskedPacket
    <3> QED  BY <3>3, <3>4, AnsweredFacts
  <2> QED  BY <2>1, <2>2, CacheFacts DEF ExchangeTypeOK, EInv, Tables, ClientOK
<1> QED  BY <1>1, ExchangeSpec_Inv, PTL

\* ServerOP.cpp, processV2Request: though it is not looked at whether decodeMsg could
\* read the request to its end, the server carries out only what was asked.
THEOREM ExchangeSpec_CarriedOutAsAsked ==
  ASSUME PacketPiece \subseteq Units
  PROVE  ExchangeSpec => []CarriedOutAsAsked
<1>1. IInv /\ EInv => CarriedOutAsAsked
  <2> SUFFICES ASSUME EInv, NEW c \in Conns, done[c].code = RESULT_SUCCESS
               PROVE  done[c].request = call[c]
    BY DEF CarriedOutAsAsked
  <2>1. out[c]["server"] # NoPayload
    <3>1. Pending.code = 0 /\ RESULT_SUCCESS # 0
      BY DEF Pending, RESULT_SUCCESS
    <3> QED  BY <3>1 DEF EInv, Answering
  <2>2. PICK r : /\ done[c] = [request |-> done[c].request, code |-> r.body.code]
                 /\ r.body.code = RESULT_SUCCESS => Delivers(c, r)
    BY <2>1 DEF EInv, Answering
  <2>3. done[c].code = r.body.code
    BY <2>2
  <2> QED  BY <2>2, <2>3 DEF Delivers
<1> QED  BY <1>1, ExchangeSpec_Inv, PTL

\* ClientOP.cpp and MessageClient.cpp: the client reports success only for what the
\* server has done on this request, and the message it offers to look up is stored.
THEOREM ExchangeSpec_SuccessMeansDone ==
  ASSUME PacketPiece \subseteq Units
  PROVE  ExchangeSpec => []SuccessMeansDone
<1>1. IInv /\ EInv => SuccessMeansDone
  <2> SUFFICES ASSUME EInv  PROVE SuccessMeansDone
    OBVIOUS
  <2>1. succeeded \subseteq Conns /\ (lastId # <<>> => \E i \in 1 .. Len(log) : log[i].id = lastId)
    BY DEF EInv, ClientOK
  <2>2. \A c \in succeeded : done[c] = [request |-> call[c], code |-> RESULT_SUCCESS]
    BY <2>1 DEF EInv, Answering
  <2> QED  BY <2>1, <2>2 DEF SuccessMeansDone
<1> QED  BY <1>1, ExchangeSpec_Inv, PTL

\* ServerOP.cpp, seckeyAgree: though agreements of a client share a file, a key the
\* client keeps is one that was issued, number and bytes; it is empty only if its
\* encryption failed.
THEOREM ExchangeSpec_CachedKeyIssued ==
  ASSUME PacketPiece \subseteq Units
  PROVE  ExchangeSpec => []CachedKeyIssued
<1>1. IInv /\ EInv => CachedKeyIssued
  BY DEF EInv, ClientOK
<1> QED  BY <1>1, ExchangeSpec_Inv, PTL

\* TcpSocket.cpp, sendMsg and recvMsg: under the client's and the server's own operations
\* too, recvMsg returns what sendMsg was given or nothing, and the client is told the
\* response to its own request or nothing.
THEOREM ExchangeSpec_RequestReply ==
  ASSUME PacketPiece \subseteq Units
  PROVE  ExchangeSpec => []FrameIntact /\ ImplementsRequestReply
<1>1. ExchangeInit => Abstract!Init
  BY Ends DEF ExchangeInit, FramingInit, Per, Abstract!Init
<1>2. IInv /\ EInv /\ [ExchangeNext]_vars => [FramingNext]_framingVars
  BY NextEInv
<1>3. IInv => FrameIntact
  BY IntactFrames
<1> QED
  BY <1>1, <1>2, <1>3, NextExchange, ExchangeSpec_Inv, PTL
  DEF ImplementsRequestReply, Abstract!Spec, ExchangeSpec
=============================================================================
