---------------------------- MODULE MsgStreamProofs ----------------------------
(***************************************************************************)
(* MsgStream.tla for every length of a message, every size of the buffers  *)
(* and of the kernel's share, and any number of messages: types, framing,  *)
(* ids, the one message under way, and that each direction implements      *)
(* MsgChannel.tla.                                                         *)
(***************************************************************************)
EXTENDS MsgStream, SequenceTheorems, TLAPS

\* The i-th unit of a stream that starts with message f.
Unit(f, i) == <<f + ((i - 1) \div MsgLen), ((i - 1) % MsgLen) + 1>>
Follows(s, f) == \A i \in 1..Len(s) : s[i] = Unit(f, i)

\* Everything on its way from e to its peer, in the order it will be read.
Stream(e) == (recvBuff[Peer(e)] \o wire[e]) \o sendBuff[e]

\* The messages on their way from e, in units; only they are in its stream,
\* all of them while e is open.
OnWay(e) == (nSendMsgID[e] - nRecvMsgID[Peer(e)]) * MsgLen

StreamInv(e) ==
    open[Peer(e)] =>
        /\ Follows(Stream(e), nRecvMsgID[Peer(e)])
        /\ Len(Stream(e)) <= OnWay(e)
        /\ open[e] => Len(Stream(e)) = OnWay(e)

\* The ids of both ends against each other and against the histories.
IdInv(e) ==
    /\ nRecvMsgID[Peer(e)] <= nSendMsgID[e]
    /\ nSendMsgID[e] > 1 => MsgLen <= SendSize
    /\ Len(accepted[e]) = nSendMsgID[e] - 1
    /\ Len(handled[e]) = nRecvMsgID[e] - 1
    /\ \A i \in 1..Len(accepted[e]) : accepted[e][i] = Message(i)

IdOrder ==
    /\ nSendMsgID["server"] <= nRecvMsgID["server"]
    /\ nSendMsgID["client"] <= MaxMsg + 1

Histories ==
    accepted \in [End -> Seq(Seq(Units))] /\ handled \in [End -> Seq(Seq(Units))]

\* A closed end holds nothing.
ClosedInv(e) ==
    /\ open[e] <=> pc[e] \notin {"closed", "stopped"}
    /\ ~open[e] => sendBuff[e] = << >> /\ recvBuff[e] = << >>

\* Where an end is when no whole message waits in its receive buffer.
RoomInv ==
    /\ pc["client"] # "msg" => ~HasMsg(recvBuff["client"])
    /\ pc["server"] \in {"poll", "recv"} => ~HasMsg(recvBuff["server"])

IInv ==
    /\ TypeOK
    /\ \A e \in End : StreamInv(e) /\ IdInv(e) /\ ClosedInv(e)
    /\ IdOrder
    /\ Histories
    /\ RoomInv
    /\ OneUnderWay
-----------------------------------------------------------------------------
(* Units and streams.                                                      *)

LEMMA Division ==
  ASSUME NEW k \in Nat, NEW p \in 0..(MsgLen - 1)
  PROVE  (k * MsgLen + p) \div MsgLen = k /\ (k * MsgLen + p) % MsgLen = p
BY SizesAssumption

\* The p-th unit of the k-th message after the first is where it should be.
LEMMA UnitOf ==
  ASSUME NEW f \in Nat, NEW k \in Nat, NEW p \in 1..MsgLen, NEW i, i = k * MsgLen + p
  PROVE  Unit(f, i) = <<f + k, p>>
<1> DEFINE x == k * MsgLen
<1>0. x \in Nat
  BY SizesAssumption
<1>1. (x + (p - 1)) \div MsgLen = k /\ (x + (p - 1)) % MsgLen = p - 1
  <2>1. p - 1 \in 0..(MsgLen - 1)
    BY SizesAssumption
  <2> QED
    BY <2>1, Division
<1>2. i = x + p
  OBVIOUS
<1> HIDE DEF x
<1>3. i - 1 = x + (p - 1) /\ (p - 1) + 1 = p
  BY <1>0, <1>2, SizesAssumption
<1>4. (i - 1) \div MsgLen = k /\ (i - 1) % MsgLen = p - 1
  BY <1>1, <1>3
<1> QED
  BY ONLY <1>3, <1>4 DEF Unit

\* One message further on, the units are those of the next message.
LEMMA UnitShift ==
  ASSUME NEW f \in Nat, NEW i \in Nat \ {0}
  PROVE  Unit(f, i + MsgLen) = Unit(f + 1, i)
<1> DEFINE k == (i - 1) \div MsgLen
           p == ((i - 1) % MsgLen) + 1
<1>1. k \in Nat /\ p \in 1..MsgLen /\ i = k * MsgLen + p
  BY SizesAssumption
<1> HIDE DEF k, p
<1>2. i + MsgLen = (k + 1) * MsgLen + p
  BY <1>1, SizesAssumption
<1>3. Unit(f + 1, i) = <<(f + 1) + k, p>>
  <2>1. f + 1 \in Nat
    OBVIOUS
  <2> QED
    BY ONLY <1>1, <2>1, UnitOf
<1>4. Unit(f, i + MsgLen) = <<f + (k + 1), p>>
  <2> DEFINE l == k + 1
             j == i + MsgLen
  <2>1. l \in Nat /\ f \in Nat /\ j = l * MsgLen + p /\ p \in 1..MsgLen
    BY <1>1, <1>2
  <2> HIDE DEF l, j
  <2>2. Unit(f, j) = <<f + l, p>>
    BY ONLY <2>1, UnitOf
  <2> QED
    BY <2>2 DEF l, j
<1>5. (f + 1) + k = f + (k + 1)
  BY <1>1
<1> QED
  BY ONLY <1>3, <1>4, <1>5

LEMMA MessageSeq ==
  ASSUME NEW id \in Nat \ {0}
  PROVE  /\ Message(id) \in Seq(Units) /\ Len(Message(id)) = MsgLen
         /\ \A p \in 1..MsgLen : Message(id)[p] = <<id, p>>
BY SizesAssumption DEF Message, Units

\* A whole message added where the stream ends.
LEMMA PushFollows ==
  ASSUME NEW s \in Seq(Units), NEW f \in Nat \ {0}, NEW k \in Nat,
         Follows(s, f), Len(s) = k * MsgLen
  PROVE  Follows(s \o Message(f + k), f)
<1> DEFINE m == Message(f + k)
           x == k * MsgLen
<1>1. m \in Seq(Units) /\ Len(m) = MsgLen /\ \A p \in 1..MsgLen : m[p] = <<f + k, p>>
  BY MessageSeq
<1> HIDE DEF m
<1>2. /\ s \o m \in Seq(Units) /\ Len(s \o m) = Len(s) + MsgLen
      /\ \A i \in 1..(Len(s) + MsgLen) :
            (s \o m)[i] = IF i <= Len(s) THEN s[i] ELSE m[i - Len(s)]
  BY <1>1, ConcatProperties
<1>3. ASSUME NEW i \in 1..Len(s \o m) PROVE (s \o m)[i] = Unit(f, i)
  <2>0. Len(s) \in Nat /\ Len(s) = x
    BY LenProperties
  <2>1. CASE i <= Len(s)
    BY <1>2, <2>0, <2>1, SizesAssumption DEF Follows
  <2>2. CASE ~(i <= Len(s))
    <3>1. i - x \in 1..MsgLen /\ i = x + (i - x)
      BY <1>2, <2>0, <2>2, SizesAssumption
    <3>2. (s \o m)[i] = <<f + k, i - x>>
      BY <1>1, <1>2, <2>0, <2>2, <3>1
    <3>3. Unit(f, i) = <<f + k, i - x>>
      BY <3>1, UnitOf
    <3> QED
      BY <3>1, <3>2, <3>3
  <2> QED
    BY <2>1, <2>2
<1> QED
  BY <1>3 DEF Follows, m

\* The first message of a stream, wherever the buffer ends behind it.
LEMMA FrontFollows ==
  ASSUME NEW a \in Seq(Units), NEW t \in Seq(Units), NEW f \in Nat \ {0},
         Follows(a \o t, f), Len(a) >= MsgLen
  PROVE  SubSeq(a, 1, MsgLen) = Message(f)
<1>0. Len(a) \in Nat /\ Len(t) \in Nat
  BY LenProperties
<1>1. /\ SubSeq(a, 1, MsgLen) \in Seq(Units) /\ Len(SubSeq(a, 1, MsgLen)) = MsgLen
      /\ \A p \in 1..MsgLen : SubSeq(a, 1, MsgLen)[p] = a[p]
  <2>1. \A i \in 1..MsgLen : a[i] \in Units
    BY <1>0, ElementOfSeq, SizesAssumption
  <2> QED
    BY <2>1, SubSeqProperties, SizesAssumption
<1>2. ASSUME NEW p \in 1..MsgLen PROVE a[p] = <<f, p>>
  <2>1. p \in 1..Len(a \o t) /\ (a \o t)[p] = a[p]
    BY <1>0, ConcatProperties, SizesAssumption
  <2>3. 0 * MsgLen + p = p /\ f + 0 = f
    BY SizesAssumption
  <2>2. Unit(f, p) = <<f + 0, p>>
    BY <2>3, UnitOf
  <2> QED
    BY <2>1, <2>2, <2>3 DEF Follows
<1> QED
  BY <1>1, <1>2, MessageSeq, SeqEqual

\* The stream behind its first message.
LEMMA PopFollows ==
  ASSUME NEW a \in Seq(Units), NEW t \in Seq(Units), NEW f \in Nat \ {0},
         Follows(a \o t, f), Len(a) >= MsgLen
  PROVE  /\ Pop(a) \in Seq(Units) /\ Len(Pop(a)) = Len(a) - MsgLen
         /\ Follows(Pop(a) \o t, f + 1)
         /\ Len(Pop(a) \o t) = Len(a \o t) - MsgLen
<1>0. Len(a) \in Nat /\ Len(t) \in Nat
  BY LenProperties
<1>1. /\ Pop(a) \in Seq(Units) /\ Len(Pop(a)) = Len(a) - MsgLen
      /\ \A i \in 1..(Len(a) - MsgLen) : Pop(a)[i] = a[i + MsgLen]
  <2>1. \A i \in (MsgLen + 1)..Len(a) : a[i] \in Units
    BY <1>0, ElementOfSeq, SizesAssumption
  <2>2. /\ SubSeq(a, MsgLen + 1, Len(a)) \in Seq(Units)
        /\ Len(SubSeq(a, MsgLen + 1, Len(a))) =
             IF MsgLen + 1 <= Len(a) THEN Len(a) - (MsgLen + 1) + 1 ELSE 0
        /\ \A i \in 1..(Len(a) - (MsgLen + 1) + 1) :
              SubSeq(a, MsgLen + 1, Len(a))[i] = a[(MsgLen + 1) + i - 1]
    BY <1>0, <2>1, SubSeqProperties, SizesAssumption
  <2>3. \A i \in Nat : (MsgLen + 1) + i - 1 = i + MsgLen
    BY SizesAssumption
  <2> QED
    BY <1>0, <2>2, <2>3, SizesAssumption DEF Pop
<1>2. /\ Len(a \o t) = Len(a) + Len(t)
      /\ \A i \in 1..(Len(a) + Len(t)) :
            (a \o t)[i] = IF i <= Len(a) THEN a[i] ELSE t[i - Len(a)]
  BY ConcatProperties
<1> DEFINE b == Pop(a)
<1> HIDE DEF b
<1>3. /\ Len(b \o t) = Len(b) + Len(t)
      /\ \A i \in 1..(Len(b) + Len(t)) :
            (b \o t)[i] = IF i <= Len(b) THEN b[i] ELSE t[i - Len(b)]
  BY <1>1, ConcatProperties DEF b
<1>4. /\ Len(b) = Len(a) - MsgLen
      /\ \A i \in 1..(Len(a) - MsgLen) : b[i] = a[i + MsgLen]
  BY <1>1 DEF b
<1>5. ASSUME NEW i \in 1..Len(b \o t) PROVE (b \o t)[i] = Unit(f + 1, i)
  <2>1. i \in Nat \ {0} /\ i + MsgLen \in 1..(Len(a) + Len(t))
    BY <1>0, <1>3, <1>4, SizesAssumption
  <2>2. (a \o t)[i + MsgLen] = Unit(f, i + MsgLen)
    BY <1>2, <2>1 DEF Follows
  <2>3. (b \o t)[i] = (a \o t)[i + MsgLen]
    <3>1. CASE i <= Len(b)
      <4>1. i + MsgLen <= Len(a) /\ i \in 1..(Len(a) - MsgLen)
        BY <1>0, <1>4, <2>1, <3>1, SizesAssumption
      <4>2. (b \o t)[i] = b[i]
        BY <1>3, <3>1
      <4>3. (a \o t)[i + MsgLen] = a[i + MsgLen]
        BY <1>2, <2>1, <4>1
      <4> QED
        BY <1>4, <4>1, <4>2, <4>3
    <3>2. CASE ~(i <= Len(b))
      <4>1. PICK j \in 1..(Len(a) + Len(t)) : j = i + MsgLen
        BY <2>1
      <4>2. ~(j <= Len(a)) /\ j - Len(a) = i - Len(b)
        BY <1>0, <1>4, <2>1, <3>2, <4>1, SizesAssumption
      <4>3. (a \o t)[j] = t[j - Len(a)]
        BY ONLY <1>2, <4>2
      <4>4. (b \o t)[i] = t[i - Len(b)]
        BY <1>3, <3>2
      <4> QED
        BY ONLY <4>1, <4>2, <4>3, <4>4
    <3> QED
      BY <3>1, <3>2
  <2> QED
    BY <2>1, <2>2, <2>3, UnitShift
<1> QED
  BY <1>0, <1>1, <1>2, <1>3, <1>4, <1>5, SizesAssumption DEF Follows, b

\* What is cut off behind leaves the front of a stream as it was.
LEMMA PrefixFollows ==
  ASSUME NEW s \in Seq(Units), NEW t \in Seq(Units), NEW f \in Nat,
         Follows(s \o t, f)
  PROVE  Follows(s, f) /\ Len(s) <= Len(s \o t)
<1>1. Len(s) \in Nat /\ Len(t) \in Nat
  BY LenProperties
<1> QED
  BY <1>1, ConcatProperties DEF Follows

\* Units that move to the buffer before stay where they are in the stream.
LEMMA MoveUnits ==
  ASSUME NEW a \in Seq(Units), NEW b \in Seq(Units), NEW n \in 0..Len(b)
  PROVE  /\ SubSeq(b, 1, n) \in Seq(Units) /\ Len(SubSeq(b, 1, n)) = n
         /\ SubSeq(b, n + 1, Len(b)) \in Seq(Units)
         /\ Len(SubSeq(b, n + 1, Len(b))) = Len(b) - n
         /\ (a \o SubSeq(b, 1, n)) \o SubSeq(b, n + 1, Len(b)) = a \o b
<1> DEFINE p == SubSeq(b, 1, n)
           q == SubSeq(b, n + 1, Len(b))
<1>0. Len(b) \in Nat
  BY LenProperties
<1>1. p \in Seq(Units) /\ Len(p) = n
  BY <1>0, SubSeqProperties, ElementOfSeq
<1>2. q \in Seq(Units) /\ Len(q) = Len(b) - n
  <2>1. \A i \in (n + 1)..Len(b) : b[i] \in Units
    BY <1>0, ElementOfSeq
  <2> QED
    BY <1>0, <2>1, SubSeqProperties
<1>3. p \o q = b
  <2>1. p \o q = SubSeq(b, 1, Len(b))
    <3>1. 1 \in 1..(Len(b) + 1) /\ n \in (1 - 1)..Len(b) /\ Len(b) \in n..Len(b)
      BY <1>0
    <3>2. b \in Seq(Units)
      OBVIOUS
    <3> QED
      BY ONLY <3>1, <3>2, ConcatAdjacentSubSeq
  <2> QED
    BY <2>1, SubSeqFull
<1> HIDE DEF p, q
<1>4. (a \o p) \o q = a \o b
  <2>1. a \in Seq(Units)
    OBVIOUS
  <2>2. p \in Seq(Units) /\ q \in Seq(Units)
    BY ONLY <1>1, <1>2
  <2>3. (a \o p) \o q = a \o (p \o q)
    BY ONLY <2>1, <2>2, ConcatAssociative
  <2> QED
    BY ONLY <1>3, <2>3
<1> QED
  BY <1>1, <1>2, <1>4 DEF p, q

\* How many messages a number of units is.
LEMMA Messagewise ==
  ASSUME NEW k \in Int
  PROVE  /\ k * MsgLen \in Int
         /\ k * MsgLen >= MsgLen => k >= 1
         /\ k >= 0 => k * MsgLen >= 0
         /\ k >= 1 => k * MsgLen >= MsgLen
         /\ k * MsgLen = 0 => k = 0
         /\ (k + 1) * MsgLen = k * MsgLen + MsgLen
         /\ (k - 1) * MsgLen = k * MsgLen - MsgLen
BY SizesAssumption
-----------------------------------------------------------------------------
(* The inductive invariant, action by action.                              *)

LEMMA Peers ==
  ASSUME NEW e \in End
  PROVE  /\ Peer(e) \in End /\ Peer(e) # e /\ Peer(Peer(e)) = e
         /\ \A x \in End : x = e \/ x = Peer(e)
         /\ End = {"client", "server"} /\ Peer("client") = "server"
         /\ Peer("server") = "client"
BY DEF End, Peer

LEMMA InitIInv == Init => IInv
<1> SUFFICES ASSUME Init PROVE IInv
  OBVIOUS
<1> USE DEF Init
<1>1. << >> \in Seq(Units) /\ << >> \in Seq(Seq(Units)) /\ Len(<< >>) = 0
  BY EmptySeq
<1>2. TypeOK
  <2>1. pc \in [End -> EndState]
    BY DEF EndState
  <2>2. /\ sendBuff \in [End -> Seq(Units)] /\ recvBuff \in [End -> Seq(Units)]
        /\ wire \in [End -> Seq(Units)]
    BY <1>1
  <2>3. \A e \in End : /\ Len(sendBuff[e]) <= SendSize /\ Len(recvBuff[e]) <= RecvSize
                       /\ Len(wire[e]) <= WireSize
    BY <1>1, SizesAssumption
  <2>4. sendBack \in BOOLEAN /\ chekSendBack \in BOOLEAN /\ poller \in {"epoll", "select"}
    BY ModesAssumption
  <2>5. /\ nSendMsgID \in [End -> Nat \ {0}] /\ nRecvMsgID \in [End -> Nat \ {0}]
        /\ nSendCount \in 0..NMsg /\ nConnect \in Int /\ faults \in 0..MaxFaults
    BY MsgBoundsAssumption
  <2> QED
    BY <2>1, <2>2, <2>3, <2>4, <2>5 DEF TypeOK
<1>3. ASSUME NEW e \in End PROVE StreamInv(e) /\ IdInv(e) /\ ClosedInv(e)
  <2>1. Peer(e) \in End
    BY Peers
  <2>2. Stream(e) = << >>
    BY <1>1, <2>1, ConcatEmptySeq DEF Stream
  <2>3. OnWay(e) = 0
    BY <2>1, SizesAssumption DEF OnWay
  <2>4. StreamInv(e)
    BY <1>1, <2>1, <2>2, <2>3 DEF StreamInv, Follows
  <2>5. IdInv(e)
    BY <1>1, <2>1 DEF IdInv
  <2> QED
    BY <2>4, <2>5 DEF ClosedInv, End
<1>4. RoomInv /\ IdOrder /\ Histories /\ OneUnderWay
  BY <1>1, SizesAssumption, MsgBoundsAssumption
     DEF RoomInv, IdOrder, Histories, OneUnderWay, HasMsg, End
<1> QED
  BY <1>2, <1>3, <1>4 DEF IInv

\* Steps that leave the streams, the ids and the sockets alone.
LEMMA QuietStep ==
  ASSUME IInv, TypeOK', RoomInv', \A e \in End : ClosedInv(e)',
         UNCHANGED <<modes, open, streams, ids, bSend, history>>
  PROVE  IInv'
<1>1. ASSUME NEW e \in End PROVE StreamInv(e)' /\ IdInv(e)'
  <2>1. StreamInv(e) /\ IdInv(e)
    BY DEF IInv
  <2>2. Stream(e)' = Stream(e) /\ OnWay(e)' = OnWay(e)
    BY DEF Stream, OnWay, streams, ids
  <2> QED
    BY <2>1, <2>2 DEF StreamInv, Follows, IdInv, ids, history
<1>2. IdOrder' /\ Histories' /\ OneUnderWay'
  BY DEF IInv, IdOrder, Histories, OneUnderWay, modes, ids, history
<1> QED
  BY <1>1, <1>2 DEF IInv

LEMMA PollStep ==
  ASSUME IInv, NEW e \in End, NEW in \in BOOLEAN, NEW out \in BOOLEAN, Poll(e, in, out)
  PROVE  IInv'
<1> USE DEF Poll
<1>1. TypeOK'
  BY DEF IInv, TypeOK, EndState, Done, modes, streams, ids, clientVars
<1>2. RoomInv'
  BY DEF IInv, TypeOK, RoomInv, Done, streams, End
<1>3. ASSUME NEW x \in End PROVE ClosedInv(x)'
  BY DEF IInv, TypeOK, ClosedInv, Done, streams
<1> QED
  BY <1>1, <1>2, <1>3, QuietStep DEF clientVars

LEMMA MsgEndStep ==
  ASSUME IInv, NEW e \in End, MsgEnd(e)
  PROVE  IInv'
<1> USE DEF MsgEnd
<1>1. TypeOK'
  BY DEF IInv, TypeOK, EndState, ToSend, Done, modes, streams, ids, clientVars
<1>2. RoomInv'
  BY DEF IInv, TypeOK, RoomInv, ToSend, Done, streams, End
<1>3. ASSUME NEW x \in End PROVE ClosedInv(x)'
  BY DEF IInv, TypeOK, ClosedInv, ToSend, Done, streams
<1> QED
  BY <1>1, <1>2, <1>3, QuietStep DEF clientVars

LEMMA SendPartStep ==
  ASSUME IInv, NEW e \in End, SendPart(e)
  PROVE  IInv'
<1> USE DEF SendPart
<1>1. TypeOK'
  BY DEF IInv, TypeOK, EndState, Done, modes, streams, ids, clientVars
<1>2. RoomInv'
  BY DEF IInv, TypeOK, RoomInv, Done, streams, End
<1>3. ASSUME NEW x \in End PROVE ClosedInv(x)'
  BY DEF IInv, TypeOK, ClosedInv, Done, streams
<1> QED
  BY <1>1, <1>2, <1>3, QuietStep DEF clientVars

\* WorkThread's own steps that send nothing.
LEMMA WorkStep ==
  ASSUME IInv, LoopTest \/ SendTestEnd \/ CheckSend \/ UNCHANGED vars
  PROVE  IInv'
<1> USE DEF LoopTest, SendTestEnd, CheckSend, vars
<1>1. TypeOK'
  <2>1. pc' \in [End -> EndState]
    BY DEF IInv, TypeOK, EndState
  <2>2. nSendCount' \in 0..NMsg
    BY MsgBoundsAssumption DEF IInv, TypeOK, clientVars
  <2> QED
    BY <2>1, <2>2 DEF IInv, TypeOK, modes, streams, ids, clientVars
<1>2. RoomInv'
  BY DEF IInv, TypeOK, RoomInv, streams, End
<1>3. ASSUME NEW x \in End PROVE ClosedInv(x)'
  BY DEF IInv, TypeOK, ClosedInv, streams, End
<1> QED
  BY <1>1, <1>2, <1>3, QuietStep DEF clientVars

\* Units that arrive are still in the stream, only further on.
LEMMA RecvStep ==
  ASSUME IInv, NEW e \in End, Recv(e)
  PROVE  IInv'
<1> DEFINE d == Peer(e)
<1>0. d \in End /\ d # e /\ Peer(d) = e /\ \A x \in End : x = e \/ x = d
  BY Peers
<1> HIDE DEF d
<1>1. PICK n \in 0..Len(wire[d]) :
         /\ n <= RecvSize - Len(recvBuff[e])
         /\ n = 0 => Len(recvBuff[e]) = RecvSize
         /\ recvBuff' = [recvBuff EXCEPT ![e] = @ \o SubSeq(wire[d], 1, n)]
         /\ wire' = [wire EXCEPT ![d] = SubSeq(@, n + 1, Len(@))]
         /\ IF e = "client" /\ n > 0
            THEN pc' = [pc EXCEPT ![e] = "msg"] /\ UNCHANGED writable
            ELSE /\ pc' = [pc EXCEPT ![e] = ToSend(e)]
                 /\ writable' = [writable EXCEPT ![e] = FALSE]
  BY DEF Recv, d
<1>2. pc[e] = "recv" /\ UNCHANGED <<modes, open, sendBuff, ids, clientVars, history>>
  BY DEF Recv
<1>3. TypeOK
  BY DEF IInv
<1>4. recvBuff[e] \in Seq(Units) /\ wire[d] \in Seq(Units)
  BY <1>0, <1>3 DEF TypeOK
<1>5. /\ SubSeq(wire[d], 1, n) \in Seq(Units) /\ Len(SubSeq(wire[d], 1, n)) = n
      /\ SubSeq(wire[d], n + 1, Len(wire[d])) \in Seq(Units)
      /\ Len(SubSeq(wire[d], n + 1, Len(wire[d]))) = Len(wire[d]) - n
      /\ (recvBuff[e] \o SubSeq(wire[d], 1, n)) \o SubSeq(wire[d], n + 1, Len(wire[d]))
            = recvBuff[e] \o wire[d]
  BY <1>1, <1>4, MoveUnits
<1>6. /\ recvBuff'[e] = recvBuff[e] \o SubSeq(wire[d], 1, n)
      /\ wire'[d] = SubSeq(wire[d], n + 1, Len(wire[d]))
      /\ recvBuff'[d] = recvBuff[d] /\ wire'[e] = wire[e]
  BY <1>0, <1>1, <1>3 DEF TypeOK
<1>7. recvBuff'[e] \in Seq(Units) /\ Len(recvBuff'[e]) = Len(recvBuff[e]) + n
  <2> DEFINE p == SubSeq(wire[d], 1, n)
             r == recvBuff[e]
  <2>1. p \in Seq(Units) /\ Len(p) = n /\ r \in Seq(Units) /\ recvBuff'[e] = r \o p
    BY <1>4, <1>5, <1>6
  <2> HIDE DEF p, r
  <2>2. r \o p \in Seq(Units) /\ Len(r \o p) = Len(r) + Len(p)
    BY ONLY <2>1, ConcatProperties
  <2> QED
    BY <2>1, <2>2 DEF r
<1>8. ASSUME NEW x \in End PROVE Stream(x)' = Stream(x)
  <2>1. CASE x = d
    <3>1. Stream(x) = (recvBuff[e] \o wire[d]) \o sendBuff[d]
      BY <1>0, <2>1 DEF Stream
    <3>2. Stream(x)' = (recvBuff'[e] \o wire'[d]) \o sendBuff'[d]
      BY <1>0, <2>1 DEF Stream
    <3>3. recvBuff'[e] \o wire'[d] = recvBuff[e] \o wire[d]
      BY ONLY <1>5, <1>6
    <3> QED
      BY <1>2, <3>1, <3>2, <3>3
  <2>2. CASE x = e
    <3>1. Stream(x) = (recvBuff[d] \o wire[e]) \o sendBuff[e]
      BY <1>0, <2>2 DEF Stream, d
    <3>2. Stream(x)' = (recvBuff'[d] \o wire'[e]) \o sendBuff'[e]
      BY <1>0, <2>2 DEF Stream, d
    <3> QED
      BY <1>2, <1>6, <3>1, <3>2
  <2> QED
    BY <1>0, <2>1, <2>2
<1>9. TypeOK'
  <2>1. recvBuff' \in [End -> Seq(Units)] /\ wire' \in [End -> Seq(Units)]
    BY <1>0, <1>1, <1>3, <1>5, <1>6, <1>7 DEF TypeOK
  <2>2. ASSUME NEW x \in End PROVE Len(recvBuff'[x]) <= RecvSize /\ Len(wire'[x]) <= WireSize
    <3>1. Len(recvBuff[e]) \in Nat /\ Len(wire[d]) \in Nat
      BY <1>4, LenProperties
    <3>2. Len(recvBuff'[e]) <= RecvSize
      BY <1>1, <1>7, <3>1, SizesAssumption
    <3>3. Len(wire'[d]) <= WireSize
      BY <1>0, <1>1, <1>3, <1>5, <1>6, <3>1, SizesAssumption DEF TypeOK
    <3> QED
      BY <1>0, <1>3, <1>6, <3>2, <3>3 DEF TypeOK
  <2>3. pc' \in [End -> EndState] /\ writable' \in [End -> BOOLEAN]
    BY <1>1, <1>3 DEF TypeOK, EndState, ToSend, Done
  <2> QED
    BY <1>2, <1>3, <2>1, <2>2, <2>3 DEF TypeOK, modes, ids, clientVars
<1>10. RoomInv'
  <2>1. ~HasMsg(recvBuff[e])
    BY <1>2 DEF IInv, RoomInv, End
  <2>2. CASE e = "client"
    <3>1. pc'["client"] # "msg" => Len(recvBuff'["client"]) = Len(recvBuff["client"])
      BY <1>1, <1>3, <1>4, <1>7, <2>2, LenProperties DEF TypeOK
    <3>2. pc'["server"] = pc["server"] /\ recvBuff'["server"] = recvBuff["server"]
      BY <1>1, <1>3, <2>2 DEF TypeOK, End
    <3> QED
      BY <2>1, <2>2, <3>1, <3>2 DEF IInv, RoomInv, HasMsg
  <2>3. CASE e = "server"
    BY <1>1, <1>3, <2>3 DEF IInv, TypeOK, RoomInv, ToSend, Done, End
  <2> QED
    BY <2>2, <2>3 DEF End
<1>11. ASSUME NEW x \in End PROVE StreamInv(x)' /\ IdInv(x)' /\ ClosedInv(x)'
  <2>1. StreamInv(x) /\ IdInv(x) /\ ClosedInv(x) /\ ClosedInv(e)
    BY DEF IInv
  <2>2. OnWay(x)' = OnWay(x) /\ Stream(x)' = Stream(x)
    BY <1>2, <1>8 DEF OnWay, ids
  <2>3. StreamInv(x)' /\ IdInv(x)'
    BY <1>2, <2>1, <2>2 DEF StreamInv, Follows, IdInv, ids, history
  <2>4. pc'[e] \notin {"closed", "stopped"}
    BY <1>1, <1>3 DEF TypeOK, ToSend, Done
  <2>7. open[e] /\ open' = open
    BY <1>2, <2>1 DEF ClosedInv
  <2>5. CASE x = e
    BY <2>3, <2>4, <2>5, <2>7 DEF ClosedInv
  <2>6. CASE x = d
    BY <1>0, <1>1, <1>2, <1>3, <1>6, <2>1, <2>3, <2>6 DEF ClosedInv, TypeOK
  <2> QED
    BY <1>0, <2>5, <2>6
<1>12. IdOrder' /\ Histories' /\ OneUnderWay'
  BY <1>2 DEF IInv, IdOrder, Histories, OneUnderWay, modes, ids, clientVars, history
<1> QED
  BY <1>9, <1>10, <1>11, <1>12 DEF IInv

\* Units that send() takes are still in the stream, only further on.
LEMMA SendStep ==
  ASSUME IInv, NEW e \in End, Send(e)
  PROVE  IInv'
<1> DEFINE d == Peer(e)
           room == WireSize - Len(wire[e])
           n == IF Len(sendBuff[e]) <= room THEN Len(sendBuff[e]) ELSE room
<1>0. d \in End /\ d # e /\ Peer(d) = e /\ \A x \in End : x = e \/ x = d
  BY Peers
<1>1. /\ wire' = [wire EXCEPT ![e] = @ \o SubSeq(sendBuff[e], 1, n)]
      /\ sendBuff' = [sendBuff EXCEPT ![e] = SubSeq(@, n + 1, Len(@))]
      /\ pc' = [pc EXCEPT ![e] = IF n = Len(sendBuff[e]) THEN Done(e) ELSE "sending"]
  BY DEF Send
<1>2. /\ pc[e] \in {"send", "sending"} /\ Len(wire[e]) < WireSize
      /\ UNCHANGED <<modes, writable, open, recvBuff, ids, clientVars, history>>
  BY DEF Send
<1>3. TypeOK
  BY DEF IInv
<1>4. /\ recvBuff[d] \in Seq(Units) /\ wire[e] \in Seq(Units) /\ sendBuff[e] \in Seq(Units)
      /\ Len(wire[e]) \in Nat /\ Len(sendBuff[e]) \in Nat
  BY <1>0, <1>3, LenProperties DEF TypeOK
<1>5. n \in 0..Len(sendBuff[e]) /\ n <= WireSize - Len(wire[e])
  BY <1>2, <1>4, SizesAssumption
<1> HIDE DEF d, n
<1> DEFINE p == SubSeq(sendBuff[e], 1, n)
           q == SubSeq(sendBuff[e], n + 1, Len(sendBuff[e]))
           r == recvBuff[d]
           w == wire[e]
<1>6. /\ p \in Seq(Units) /\ Len(p) = n /\ q \in Seq(Units) /\ Len(q) = Len(sendBuff[e]) - n
      /\ ((r \o w) \o p) \o q = (r \o w) \o sendBuff[e]
  <2>1. r \o w \in Seq(Units)
    BY <1>4, ConcatProperties
  <2> QED
    BY <1>4, <1>5, <2>1, MoveUnits
<1>7. /\ wire'[e] = w \o p /\ sendBuff'[e] = q
      /\ wire'[d] = wire[d] /\ sendBuff'[d] = sendBuff[d]
  BY <1>0, <1>1, <1>3 DEF TypeOK
<1>8. r \in Seq(Units) /\ w \in Seq(Units)
  BY <1>4
<1> HIDE DEF p, q, r, w
<1>9. /\ w \o p \in Seq(Units) /\ Len(w \o p) = Len(w) + n
      /\ r \o (w \o p) = (r \o w) \o p
  <2>1. w \o p \in Seq(Units) /\ Len(w \o p) = Len(w) + Len(p)
    BY <1>6, <1>8, ConcatProperties
  <2>2. r \in Seq(Units) /\ w \in Seq(Units) /\ p \in Seq(Units)
    BY <1>6, <1>8
  <2>3. (r \o w) \o p = r \o (w \o p)
    BY ONLY <2>2, ConcatAssociative
  <2> QED
    BY <1>6, <2>1, <2>3
<1>10. ASSUME NEW x \in End PROVE Stream(x)' = Stream(x)
  <2>1. CASE x = e
    <3>1. Stream(x) = (r \o w) \o sendBuff[e]
      BY <2>1 DEF Stream, d, r, w
    <3>2. Stream(x)' = (r \o wire'[e]) \o sendBuff'[e]
      BY <1>2, <2>1 DEF Stream, d, r
    <3> QED
      BY <1>6, <1>7, <1>9, <3>1, <3>2
  <2>2. CASE x = d
    <3>1. Stream(x) = (recvBuff[e] \o wire[d]) \o sendBuff[d]
      BY <1>0, <2>2 DEF Stream
    <3>2. Stream(x)' = (recvBuff'[e] \o wire'[d]) \o sendBuff'[d]
      BY <1>0, <2>2 DEF Stream
    <3> QED
      BY <1>2, <1>7, <3>1, <3>2
  <2> QED
    BY <1>0, <2>1, <2>2
<1>11. TypeOK'
  <2>1. wire' \in [End -> Seq(Units)] /\ sendBuff' \in [End -> Seq(Units)]
    BY <1>0, <1>1, <1>3, <1>6, <1>7, <1>9 DEF TypeOK
  <2>2. Len(wire'[e]) <= WireSize
    BY <1>4, <1>5, <1>7, <1>9, SizesAssumption DEF w
  <2>3. Len(sendBuff'[e]) <= SendSize
    BY <1>3, <1>4, <1>5, <1>6, <1>7, SizesAssumption DEF TypeOK
  <2>4. pc' \in [End -> EndState]
    BY <1>1, <1>3 DEF TypeOK, EndState, Done
  <2>5. ASSUME NEW x \in End PROVE Len(wire'[x]) <= WireSize /\ Len(sendBuff'[x]) <= SendSize
    BY <1>0, <1>3, <1>7, <2>2, <2>3 DEF TypeOK
  <2> QED
    BY <1>2, <1>3, <2>1, <2>4, <2>5 DEF TypeOK, modes, ids, clientVars
<1>12. RoomInv'
  <2>1. pc'["client"] = "msg" \/ ~HasMsg(recvBuff["client"])
    BY <1>0, <1>1, <1>2, <1>3 DEF IInv, TypeOK, RoomInv, End
  <2>2. pc'["server"] \notin {"poll", "recv"} \/ ~HasMsg(recvBuff["server"])
    BY <1>0, <1>1, <1>2, <1>3 DEF IInv, TypeOK, RoomInv, Done, End
  <2> QED
    BY <1>2, <2>1, <2>2 DEF RoomInv
<1>13. ASSUME NEW x \in End PROVE StreamInv(x)' /\ IdInv(x)' /\ ClosedInv(x)'
  <2>1. StreamInv(x) /\ IdInv(x) /\ ClosedInv(x) /\ ClosedInv(e)
    BY DEF IInv
  <2>2. OnWay(x)' = OnWay(x) /\ Stream(x)' = Stream(x)
    BY <1>2, <1>10 DEF OnWay, ids
  <2>3. StreamInv(x)' /\ IdInv(x)'
    BY <1>2, <2>1, <2>2 DEF StreamInv, Follows, IdInv, ids, history
  <2>4. pc'[e] \notin {"closed", "stopped"}
    BY <1>1, <1>3 DEF TypeOK, Done
  <2>5. open[e] /\ open' = open
    BY <1>2, <2>1 DEF ClosedInv
  <2>6. CASE x = e
    BY <2>3, <2>4, <2>5, <2>6 DEF ClosedInv
  <2>7. CASE x = d
    BY <1>0, <1>1, <1>2, <1>3, <1>7, <2>1, <2>3, <2>7 DEF ClosedInv, TypeOK
  <2> QED
    BY <1>0, <2>6, <2>7
<1>14. IdOrder' /\ Histories' /\ OneUnderWay'
  BY <1>2 DEF IInv, IdOrder, Histories, OneUnderWay, modes, ids, clientVars, history
<1> QED
  BY <1>11, <1>12, <1>13, <1>14 DEF IInv

\* A connection that is closed loses the end of one stream and all of the other.
LEMMA DestroyStep ==
  ASSUME IInv, NEW e \in End, Destroy(e), NEW c \in {"closed", "stopped"},
         pc' = [pc EXCEPT ![e] = c], nConnect' \in Int, faults' \in 0..MaxFaults,
         UNCHANGED <<modes, writable, ids, bSend, nSendCount, history>>
  PROVE  IInv'
<1> DEFINE d == Peer(e)
<1>0. d \in End /\ d # e /\ Peer(d) = e /\ \A x \in End : x = e \/ x = d
  BY Peers
<1>1. /\ open' = [open EXCEPT ![e] = FALSE]
      /\ sendBuff' = [sendBuff EXCEPT ![e] = << >>]
      /\ recvBuff' = [recvBuff EXCEPT ![e] = << >>]
      /\ wire' = [wire EXCEPT ![d] = << >>]
  BY DEF Destroy
<1> HIDE DEF d
<1>2. TypeOK
  BY DEF IInv
<1>3. << >> \in Seq(Units) /\ Len(<< >>) = 0
  BY EmptySeq
<1>4. /\ open'[e] = FALSE /\ sendBuff'[e] = << >> /\ recvBuff'[e] = << >> /\ wire'[d] = << >>
      /\ open'[d] = open[d] /\ sendBuff'[d] = sendBuff[d] /\ recvBuff'[d] = recvBuff[d]
      /\ wire'[e] = wire[e] /\ pc'[e] = c /\ pc'[d] = pc[d]
  BY <1>0, <1>1, <1>2 DEF TypeOK
<1>5. TypeOK'
  <2>1. /\ sendBuff' \in [End -> Seq(Units)] /\ recvBuff' \in [End -> Seq(Units)]
        /\ wire' \in [End -> Seq(Units)] /\ open' \in [End -> BOOLEAN]
    BY <1>1, <1>2, <1>3 DEF TypeOK
  <2>2. pc' \in [End -> EndState]
    BY <1>2 DEF TypeOK, EndState
  <2>3. ASSUME NEW x \in End
        PROVE  /\ Len(sendBuff'[x]) <= SendSize /\ Len(recvBuff'[x]) <= RecvSize
               /\ Len(wire'[x]) <= WireSize
    <3>1. Len(sendBuff'[x]) = 0 \/ sendBuff'[x] = sendBuff[x]
      BY <1>0, <1>3, <1>4
    <3>2. Len(recvBuff'[x]) = 0 \/ recvBuff'[x] = recvBuff[x]
      BY <1>0, <1>3, <1>4
    <3>3. Len(wire'[x]) = 0 \/ wire'[x] = wire[x]
      BY <1>0, <1>3, <1>4
    <3>4. /\ Len(sendBuff[x]) <= SendSize /\ Len(recvBuff[x]) <= RecvSize
          /\ Len(wire[x]) <= WireSize
      BY <1>2 DEF TypeOK
    <3>5. 0 <= SendSize /\ 0 <= RecvSize /\ 0 <= WireSize
      BY SizesAssumption
    <3> QED
      BY <3>1, <3>2, <3>3, <3>4, <3>5
  <2> QED
    BY <1>2, <2>1, <2>2, <2>3 DEF TypeOK, modes, ids
<1>6. RoomInv'
  <2>1. ~HasMsg(recvBuff'[e])
    BY <1>3, <1>4, SizesAssumption DEF HasMsg
  <2> QED
    BY <1>0, <1>4, <2>1 DEF IInv, RoomInv, End
<1>7. StreamInv(e)'
  <2>1. SUFFICES ASSUME open[d]
                 PROVE  /\ Follows(Stream(e)', nRecvMsgID[d])
                        /\ Len(Stream(e)') <= OnWay(e)
    BY <1>0, <1>4 DEF StreamInv, Follows, OnWay, ids, d
  <2> DEFINE s == recvBuff[d] \o wire[e]
  <2>2. s \in Seq(Units) /\ sendBuff[e] \in Seq(Units)
    BY <1>0, <1>2, ConcatProperties DEF TypeOK
  <2>3. Stream(e)' = s
    <3>1. Stream(e)' = (recvBuff'[d] \o wire'[e]) \o sendBuff'[e]
      BY DEF Stream, d
    <3>2. s \o << >> = s
      BY <2>2, ConcatEmptySeq
    <3> QED
      BY <1>4, <3>1, <3>2
  <2>4. Stream(e) = s \o sendBuff[e]
    BY DEF Stream, d
  <2>5. /\ Follows(s \o sendBuff[e], nRecvMsgID[d]) /\ Len(s \o sendBuff[e]) <= OnWay(e)
        /\ nRecvMsgID[d] \in Nat
    BY <1>0, <1>2, <2>1, <2>4 DEF IInv, StreamInv, TypeOK, d
  <2> HIDE DEF s
  <2>6. Follows(s, nRecvMsgID[d]) /\ Len(s) <= Len(s \o sendBuff[e])
    BY <2>2, <2>5, PrefixFollows
  <2>7. Len(s) \in Nat /\ Len(s \o sendBuff[e]) \in Nat /\ OnWay(e) \in Int
    <3>1. s \o sendBuff[e] \in Seq(Units)
      BY <2>2, ConcatProperties
    <3>2. nSendMsgID[e] - nRecvMsgID[d] \in Int
      BY <1>0, <1>2 DEF TypeOK
    <3> QED
      BY <2>2, <3>1, <3>2, LenProperties, Messagewise DEF OnWay, d
  <2> QED
    BY <2>3, <2>5, <2>6, <2>7
<1>8. StreamInv(d)'
  BY <1>0, <1>4 DEF StreamInv
<1>9. ASSUME NEW x \in End PROVE IdInv(x)' /\ ClosedInv(x)'
  <2>1. IdInv(x)'
    BY DEF IInv, IdInv, ids, history
  <2>2. ClosedInv(e)'
    BY <1>4 DEF ClosedInv
  <2>3. ClosedInv(d)'
    BY <1>0, <1>4 DEF IInv, ClosedInv
  <2> QED
    BY <1>0, <2>1, <2>2, <2>3
<1>10. IdOrder' /\ Histories'
  BY DEF IInv, IdOrder, Histories, ids, history
<1>11. OneUnderWay'
  BY <1>0, <1>4 DEF OneUnderWay, End
<1> QED
  BY <1>0, <1>5, <1>6, <1>7, <1>8, <1>9, <1>10, <1>11 DEF IInv

LEMMA CloseStep ==
  ASSUME IInv,
         \/ \E e \in End : RecvError(e) \/ SendError(e)
         \/ WorkStop \/ ServerDrop
  PROVE  IInv'
<1>0. nConnect \in Int /\ faults \in 0..MaxFaults
  BY DEF IInv, TypeOK
<1>1. ASSUME NEW e \in End, RecvError(e) \/ SendError(e) PROVE IInv'
  <2>1. CloseOnError(e)
    BY <1>1 DEF RecvError, SendError
  <2>2. nConnect' \in Int /\ faults' \in 0..MaxFaults
    BY <1>0, <2>1 DEF CloseOnError
  <2> QED
    BY <2>1, <2>2, DestroyStep DEF CloseOnError
<1>2. CASE WorkStop
  BY <1>0, <1>2, DestroyStep DEF WorkStop, clientVars, End
<1>3. CASE ServerDrop
  BY <1>0, <1>3, DestroyStep DEF ServerDrop, clientVars, End
<1> QED
  BY <1>1, <1>2, <1>3

LEMMA WaitFailStep ==
  ASSUME IInv, WaitFail
  PROVE  IInv'
<1> USE DEF WaitFail
<1>0. nConnect' \in Int /\ faults' \in 0..MaxFaults
  BY MsgBoundsAssumption DEF IInv, TypeOK
<1>1. CASE poller = "select"
  BY <1>0, <1>1, DestroyStep DEF End
<1>2. CASE poller # "select"
  <2>1. TypeOK'
    BY <1>0, <1>2 DEF IInv, TypeOK, EndState, modes, streams, ids, End
  <2>2. RoomInv'
    BY <1>2 DEF IInv, TypeOK, RoomInv, streams, End
  <2>3. ASSUME NEW x \in End PROVE ClosedInv(x)'
    BY <1>2 DEF IInv, TypeOK, ClosedInv, streams, End
  <2> QED
    BY <1>2, <2>1, <2>2, <2>3, QuietStep
<1> QED
  BY <1>1, <1>2

\* A message that SendData accepts follows what is on its way already.
LEMMA PushStream ==
  ASSUME TypeOK, Histories, NEW e \in End, StreamInv(e), IdInv(e), open[e], Fits(e),
         sendBuff'[e] = sendBuff[e] \o Message(nSendMsgID[e]),
         nSendMsgID'[e] = nSendMsgID[e] + 1,
         accepted'[e] = Append(accepted[e], Message(nSendMsgID[e])),
         open' = open, recvBuff'[Peer(e)] = recvBuff[Peer(e)], wire'[e] = wire[e],
         nRecvMsgID'[Peer(e)] = nRecvMsgID[Peer(e)],
         Len(handled'[e]) = nRecvMsgID'[e] - 1
  PROVE  /\ StreamInv(e)' /\ IdInv(e)'
         /\ sendBuff'[e] \in Seq(Units) /\ Len(sendBuff'[e]) <= SendSize
         /\ accepted'[e] \in Seq(Seq(Units))
<1> DEFINE d == Peer(e)
           id == nSendMsgID[e]
           f == nRecvMsgID[d]
           k == id - f
           m == Message(id)
           s == Stream(e)
           a == recvBuff[d] \o wire[e]
           b == sendBuff[e]
<1>0. d \in End /\ id \in Nat \ {0} /\ f \in Nat \ {0} /\ f <= id
  BY Peers DEF TypeOK, IdInv
<1>1. k \in Nat /\ f + k = id
  BY <1>0
<1>2. m \in Seq(Units) /\ Len(m) = MsgLen
  BY <1>0, MessageSeq
<1>3. a \in Seq(Units) /\ b \in Seq(Units) /\ Len(b) \in Nat
  BY <1>0, ConcatProperties, LenProperties DEF TypeOK
<1>4. s = a \o b /\ Stream(e)' = a \o (b \o m)
  BY DEF Stream
<1> HIDE DEF m, a, b, s
<1>5. /\ b \o m \in Seq(Units) /\ Len(b \o m) = Len(b) + MsgLen
      /\ a \o b \in Seq(Units)
      /\ (a \o b) \o m = a \o (b \o m)
      /\ Len((a \o b) \o m) = Len(a \o b) + MsgLen
  <2>1. m \in Seq(Units) /\ a \in Seq(Units) /\ b \in Seq(Units) /\ Len(m) = MsgLen
    BY <1>2, <1>3
  <2>2. (a \o b) \o m = a \o (b \o m)
    BY ONLY <2>1, ConcatAssociative
  <2>3. b \o m \in Seq(Units) /\ Len(b \o m) = Len(b) + MsgLen
    BY ONLY <2>1, ConcatProperties
  <2>4. a \o b \in Seq(Units)
    BY ONLY <2>1, ConcatProperties
  <2>5. Len((a \o b) \o m) = Len(a \o b) + MsgLen
    BY ONLY <2>1, <2>4, ConcatProperties
  <2> QED
    BY <2>2, <2>3, <2>4, <2>5
<1>6. sendBuff'[e] \in Seq(Units) /\ Len(sendBuff'[e]) <= SendSize
  BY <1>5 DEF Fits, m, b
<1>7. StreamInv(e)'
  <2>1. OnWay(e)' \in Int
    <3>1. PICK j \in Int : j = nSendMsgID'[e] - nRecvMsgID'[Peer(e)]
      BY <1>0
    <3>2. OnWay(e)' = j * MsgLen
      BY <3>1 DEF OnWay
    <3> QED
      BY <3>2, Messagewise
  <2>2. ASSUME open[d]
        PROVE  Follows(a \o (b \o m), f) /\ Len(a \o (b \o m)) = OnWay(e)'
    <3>1. Follows(a \o b, f) /\ Len(a \o b) = k * MsgLen
      BY <1>4, <2>2 DEF StreamInv, OnWay, s
    <3>2. Follows((a \o b) \o m, f)
      <4> DEFINE t == a \o b
      <4>1. t \in Seq(Units) /\ Follows(t, f) /\ Len(t) = k * MsgLen
        BY <1>5, <3>1
      <4> HIDE DEF t
      <4>2. Follows(t \o Message(f + k), f)
        BY <1>0, <1>1, <4>1, PushFollows
      <4> QED
        BY <1>1, <4>2 DEF m, t
    <3>3. OnWay(e)' = (k + 1) * MsgLen
      <4>1. nSendMsgID'[e] - nRecvMsgID'[Peer(e)] = k + 1
        BY <1>0
      <4> QED
        BY <4>1 DEF OnWay
    <3>4. (k + 1) * MsgLen = k * MsgLen + MsgLen
      BY <1>1, Messagewise
    <3> QED
      BY <1>5, <3>1, <3>2, <3>3, <3>4
  <2>3. PICK x : x = Stream(e)'
    OBVIOUS
  <2>4. nRecvMsgID'[Peer(e)] = f /\ open'[Peer(e)] = open[d]
    OBVIOUS
  <2>5. StreamInv(e)' <=>
          (open[d] => /\ Follows(x, f) /\ Len(x) <= OnWay(e)'
                      /\ open'[e] => Len(x) = OnWay(e)')
    BY <2>3, <2>4 DEF StreamInv, Follows
  <2>6. x = a \o (b \o m)
    BY <1>4, <2>3
  <2>7. ASSUME open[d] PROVE Follows(x, f) /\ Len(x) = OnWay(e)'
    BY <2>2, <2>6, <2>7
  <2> QED
    BY <2>1, <2>5, <2>7
<1>8. IdInv(e)' /\ accepted'[e] \in Seq(Seq(Units))
  <2>1. nRecvMsgID'[d] <= nSendMsgID'[e]
    BY <1>0
  <2>2. MsgLen <= SendSize
    BY <1>3, SizesAssumption DEF Fits, b
  <2>3. /\ accepted[e] \in Seq(Seq(Units)) /\ Len(accepted[e]) = id - 1
        /\ \A i \in 1..Len(accepted[e]) : accepted[e][i] = Message(i)
    BY DEF IdInv, Histories
  <2>4. /\ accepted'[e] \in Seq(Seq(Units)) /\ Len(accepted'[e]) = id
        /\ \A i \in 1..id : accepted'[e][i] = IF i <= id - 1 THEN accepted[e][i] ELSE m
    BY <1>0, <1>2, <2>3, AppendProperties DEF m
  <2>5. \A i \in 1..id : accepted'[e][i] = Message(i)
    <3> TAKE i \in 1..id
    <3>1. CASE i <= id - 1
      BY <1>0, <2>3, <2>4, <3>1
    <3>2. CASE ~(i <= id - 1)
      BY <1>0, <2>4, <3>2 DEF m
    <3> QED
      BY <3>1, <3>2
  <2>6. (id + 1) - 1 = id
    BY <1>0
  <2> QED
    BY <2>1, <2>2, <2>4, <2>5, <2>6 DEF IdInv, d
<1> QED
  BY <1>6, <1>7, <1>8

\* What an end finds in front of its buffer, and what pop_front_msg leaves.
LEMMA PopStream ==
  ASSUME TypeOK, NEW e \in End, StreamInv(Peer(e)), IdInv(Peer(e)), open[e],
         HasMsg(recvBuff[e])
  PROVE  /\ SubSeq(recvBuff[e], 1, MsgLen) = Message(nRecvMsgID[e])
         /\ nRecvMsgID[e] < nSendMsgID[Peer(e)]
         /\ Pop(recvBuff[e]) \in Seq(Units) /\ Len(Pop(recvBuff[e])) <= RecvSize
         /\ ( /\ recvBuff'[e] = Pop(recvBuff[e])
              /\ nRecvMsgID'[e] = nRecvMsgID[e] + 1
              /\ wire'[Peer(e)] = wire[Peer(e)] /\ sendBuff'[Peer(e)] = sendBuff[Peer(e)]
              /\ nSendMsgID'[Peer(e)] = nSendMsgID[Peer(e)] /\ open' = open )
            => StreamInv(Peer(e))'
<1> DEFINE d == Peer(e)
           f == nRecvMsgID[e]
           k == nSendMsgID[d] - f
           a == recvBuff[e]
           t == wire[d] \o sendBuff[d]
<1>0. d \in End /\ Peer(d) = e
  BY Peers
<1>1. f \in Nat \ {0} /\ nSendMsgID[d] \in Nat \ {0} /\ k \in Nat
  BY <1>0 DEF TypeOK, IdInv
<1>2. /\ a \in Seq(Units) /\ wire[d] \in Seq(Units) /\ sendBuff[d] \in Seq(Units)
  BY <1>0 DEF TypeOK
<1>3. t \in Seq(Units) /\ Len(a) \in Nat /\ Len(t) \in Nat
  BY <1>2, ConcatProperties, LenProperties
<1>4. Stream(d) = a \o t
  <2> DEFINE w == wire[d]
             g == sendBuff[d]
  <2>2. a \in Seq(Units) /\ w \in Seq(Units) /\ g \in Seq(Units)
    BY <1>2
  <2> HIDE DEF a, w, g
  <2>3. (a \o w) \o g = a \o (w \o g)
    BY ONLY <2>2, ConcatAssociative
  <2>1. (a \o wire[d]) \o sendBuff[d] = a \o (wire[d] \o sendBuff[d])
    BY <2>3 DEF w, g
  <2> QED
    BY <1>0, <2>1 DEF Stream, a
<1>5. Follows(a \o t, f) /\ Len(a \o t) <= k * MsgLen /\ (open[d] => Len(a \o t) = k * MsgLen)
  BY <1>0, <1>4 DEF StreamInv, OnWay
<1>6. Len(a) >= MsgLen
  BY DEF HasMsg
<1> HIDE DEF a, t, f, d
<1>7. Len(a \o t) = Len(a) + Len(t)
  BY <1>2, <1>3, ConcatProperties DEF a
<1>8. k >= 1
  BY <1>1, <1>3, <1>5, <1>6, <1>7, Messagewise, SizesAssumption
<1>9. SubSeq(a, 1, MsgLen) = Message(f)
  BY <1>1, <1>2, <1>3, <1>5, <1>6, FrontFollows DEF a
<1>10. /\ Pop(a) \in Seq(Units) /\ Len(Pop(a)) = Len(a) - MsgLen
       /\ Follows(Pop(a) \o t, f + 1) /\ Len(Pop(a) \o t) = Len(a \o t) - MsgLen
  BY <1>1, <1>2, <1>3, <1>5, <1>6, PopFollows DEF a
<1>11. Len(Pop(a)) <= RecvSize
  <2>1. Len(a) <= RecvSize
    BY DEF TypeOK, a
  <2> QED
    BY <1>3, <1>10, <2>1, SizesAssumption
<1>12. ASSUME recvBuff'[e] = Pop(a), nRecvMsgID'[e] = f + 1, wire'[d] = wire[d],
              sendBuff'[d] = sendBuff[d], nSendMsgID'[d] = nSendMsgID[d], open' = open
       PROVE  StreamInv(d)'
  <2> DEFINE b == Pop(a)
  <2>1. b \in Seq(Units)
    BY <1>10
  <2>2. Stream(d)' = b \o t
    <3> DEFINE w == wire[d]
               g == sendBuff[d]
    <3>3. b \in Seq(Units) /\ w \in Seq(Units) /\ g \in Seq(Units)
      BY <1>2, <2>1
    <3> HIDE DEF b, w, g
    <3>4. (b \o w) \o g = b \o (w \o g)
      BY ONLY <3>3, ConcatAssociative
    <3>1. (b \o wire[d]) \o sendBuff[d] = b \o (wire[d] \o sendBuff[d])
      BY <3>4 DEF w, g
    <3>2. Stream(d)' = (b \o wire[d]) \o sendBuff[d]
      BY <1>0, <1>12 DEF Stream, b
    <3> QED
      BY <3>1, <3>2 DEF t
  <2>3. OnWay(d)' = k * MsgLen - MsgLen
    <3>1. OnWay(d)' = (nSendMsgID[d] - (f + 1)) * MsgLen
      BY <1>0, <1>12 DEF OnWay
    <3>2. nSendMsgID[d] - (f + 1) = k - 1 /\ k \in Int
      BY <1>1
    <3> HIDE DEF k
    <3> QED
      BY <3>1, <3>2, Messagewise
  <2>4. k * MsgLen \in Int /\ Len(a \o t) \in Int
    <3> HIDE DEF k
    <3>1. k * MsgLen \in Int
      BY <1>1, Messagewise
    <3>2. Len(a) + Len(t) \in Int
      BY <1>3
    <3> QED
      BY <1>7, <3>1, <3>2
  <2>5. /\ Len(b \o t) <= OnWay(d)'
        /\ open[d] => Len(b \o t) = OnWay(d)'
    BY <1>5, <1>10, <2>3, <2>4, SizesAssumption
  <2> QED
    BY <1>0, <1>10, <1>12, <2>2, <2>5 DEF StreamInv, Follows
<1> QED
  BY <1>1, <1>8, <1>9, <1>10, <1>11, <1>12 DEF a, d, f

LEMMA SendTestStep ==
  ASSUME IInv, SendTest
  PROVE  IInv'
<1> DEFINE c == "client"
           v == "server"
<1>0. /\ pc[c] = "work" /\ CanSendTest /\ Push(c) /\ nSendCount' = nSendCount - 1
      /\ UNCHANGED <<modes, pc, writable, open, recvBuff, wire, nRecvMsgID, nConnect,
                     faults, handled>>
  BY DEF SendTest
<1>12. bSend' = chekSendBack
  BY DEF SendTest
<1>1. c \in End /\ v \in End /\ Peer(c) = v /\ Peer(v) = c /\ \A x \in End : x = c \/ x = v
  BY DEF End, Peer
<1>2. TypeOK /\ Histories /\ StreamInv(c) /\ StreamInv(v) /\ IdInv(c) /\ IdInv(v)
  BY <1>1 DEF IInv
<1>3. /\ sendBuff'[c] = sendBuff[c] \o Message(nSendMsgID[c])
      /\ nSendMsgID'[c] = nSendMsgID[c] + 1
      /\ accepted'[c] = Append(accepted[c], Message(nSendMsgID[c]))
      /\ sendBuff'[v] = sendBuff[v] /\ nSendMsgID'[v] = nSendMsgID[v]
      /\ accepted'[v] = accepted[v]
  BY <1>0, <1>1, <1>2 DEF TypeOK, Push, Histories
<1>4. open[c]
  BY <1>0, <1>1 DEF IInv, ClosedInv
<1>5. /\ StreamInv(c)' /\ IdInv(c)'
      /\ sendBuff'[c] \in Seq(Units) /\ Len(sendBuff'[c]) <= SendSize
      /\ accepted'[c] \in Seq(Seq(Units))
  <2>1. Fits(c)
    BY <1>0 DEF CanSendTest
  <2>2. Len(handled'[c]) = nRecvMsgID'[c] - 1
    BY <1>0, <1>2 DEF IdInv
  <2> QED
    BY <1>0, <1>1, <1>2, <1>3, <1>4, <2>1, <2>2, PushStream
<1>6. TypeOK'
  <2>1. sendBuff' \in [End -> Seq(Units)] /\ nSendMsgID' \in [End -> Nat \ {0}]
    <3>1. /\ sendBuff' = [sendBuff EXCEPT ![c] = sendBuff[c] \o Message(nSendMsgID[c])]
          /\ nSendMsgID' = [nSendMsgID EXCEPT ![c] = nSendMsgID[c] + 1]
      BY <1>0 DEF Push
    <3>2. nSendMsgID[c] + 1 \in Nat \ {0}
      BY <1>1, <1>2 DEF TypeOK
    <3>3. sendBuff[c] \o Message(nSendMsgID[c]) \in Seq(Units)
      BY <1>3, <1>5
    <3> QED
      BY <1>2, <3>1, <3>2, <3>3 DEF TypeOK
  <2>2. \A x \in End : Len(sendBuff'[x]) <= SendSize
    BY <1>1, <1>2, <1>3, <1>5 DEF TypeOK
  <2>3. nSendCount' \in 0..NMsg
    BY <1>0, <1>2, MsgBoundsAssumption DEF CanSendTest, TypeOK
  <2> QED
    BY <1>0, <1>2, <1>12, <2>1, <2>2, <2>3 DEF TypeOK, modes
<1>7. StreamInv(v)' /\ IdInv(v)'
  <2>1. Stream(v)' = Stream(v) /\ OnWay(v)' = OnWay(v)
    BY <1>0, <1>1, <1>3 DEF Stream, OnWay
  <2>2. StreamInv(v)'
    BY <1>0, <1>1, <1>2, <2>1 DEF StreamInv, Follows
  <2> QED
    BY <1>0, <1>1, <1>2, <1>3, <2>2 DEF IdInv
<1>8. ASSUME NEW x \in End PROVE ClosedInv(x)'
  BY <1>0, <1>1, <1>3, <1>4 DEF IInv, ClosedInv
<1>9. RoomInv'
  BY <1>0 DEF IInv, RoomInv
<1>10. IdOrder'
  <2>1. nSendMsgID'[v] <= nRecvMsgID'[v]
    BY <1>0, <1>3 DEF IInv, IdOrder
  <2>2. nSendMsgID[c] <= MaxMsg /\ nSendMsgID'[c] = nSendMsgID[c] + 1
    BY <1>0, <1>3 DEF CanSendTest
  <2>3. nSendMsgID[c] \in Nat /\ MaxMsg \in Nat
    BY <1>1, <1>2, MsgBoundsAssumption DEF TypeOK
  <2>4. nSendMsgID'[c] <= MaxMsg + 1
    BY ONLY <2>2, <2>3
  <2> QED
    BY <2>1, <2>4 DEF IdOrder
<1>13. Histories'
  BY <1>0, <1>1, <1>2, <1>5 DEF Histories, Push
<1>11. OneUnderWay'
  <2>5. chekSendBack => bSend'
    BY <1>12
  <2>1. SUFFICES ASSUME sendBack, chekSendBack, open[c], open[v]
                 PROVE  (nSendMsgID'[c] - nRecvMsgID'[v])
                           + (nSendMsgID'[v] - nRecvMsgID'[c]) = 1
    BY <1>0, <2>5 DEF OneUnderWay, modes
  <2>2. ~bSend
    BY <1>0 DEF CanSendTest
  <2>3. (nSendMsgID[c] - nRecvMsgID[v]) + (nSendMsgID[v] - nRecvMsgID[c]) = 0
    BY <2>1, <2>2 DEF IInv, OneUnderWay
  <2>4. /\ nSendMsgID[c] \in Int /\ nSendMsgID[v] \in Int
        /\ nRecvMsgID[c] \in Int /\ nRecvMsgID[v] \in Int
    BY <1>1, <1>2 DEF TypeOK
  <2>6. nSendMsgID'[c] = nSendMsgID[c] + 1 /\ nSendMsgID'[v] = nSendMsgID[v]
    BY <1>3
  <2>7. nRecvMsgID'[c] = nRecvMsgID[c] /\ nRecvMsgID'[v] = nRecvMsgID[v]
    BY <1>0
  <2> QED
    BY <2>3, <2>4, <2>6, <2>7
<1> QED
  BY <1>13, <1>1, <1>5, <1>6, <1>7, <1>8, <1>9, <1>10, <1>11 DEF IInv

LEMMA ClientMsgStep ==
  ASSUME IInv, ClientMsg
  PROVE  IInv'
<1> DEFINE c == "client"
           v == "server"
<1>0. /\ pc[c] = "msg" /\ HasMsg(recvBuff[c])
      /\ nRecvMsgID' = [nRecvMsgID EXCEPT ![c] = @ + 1]
      /\ handled' = [handled EXCEPT ![c] = Append(@, SubSeq(recvBuff[c], 1, MsgLen))]
      /\ recvBuff' = [recvBuff EXCEPT ![c] = Pop(@)]
      /\ UNCHANGED <<modes, pc, writable, open, sendBuff, wire, nSendMsgID,
                     nSendCount, nConnect, faults, accepted>>
  BY DEF ClientMsg
<1>13. bSend' = FALSE
  BY DEF ClientMsg
<1>1. c \in End /\ v \in End /\ Peer(c) = v /\ Peer(v) = c /\ \A x \in End : x = c \/ x = v
  BY DEF End, Peer
<1>2. TypeOK /\ Histories /\ StreamInv(c) /\ StreamInv(v) /\ IdInv(c) /\ IdInv(v)
  BY <1>1 DEF IInv
<1>3. /\ recvBuff'[c] = Pop(recvBuff[c]) /\ recvBuff'[v] = recvBuff[v]
      /\ nRecvMsgID'[c] = nRecvMsgID[c] + 1 /\ nRecvMsgID'[v] = nRecvMsgID[v]
  BY <1>0, <1>1, <1>2 DEF TypeOK
<1>4. open[c]
  BY <1>0, <1>1 DEF IInv, ClosedInv
<1>5. /\ SubSeq(recvBuff[c], 1, MsgLen) = Message(nRecvMsgID[c])
      /\ nRecvMsgID[c] < nSendMsgID[v]
      /\ Pop(recvBuff[c]) \in Seq(Units) /\ Len(Pop(recvBuff[c])) <= RecvSize
      /\ StreamInv(v)'
  BY <1>0, <1>1, <1>2, <1>3, <1>4, PopStream
<1>6. TypeOK'
  <2>1. recvBuff' \in [End -> Seq(Units)] /\ nRecvMsgID' \in [End -> Nat \ {0}]
    <3>1. /\ recvBuff' = [recvBuff EXCEPT ![c] = Pop(recvBuff[c])]
          /\ nRecvMsgID' = [nRecvMsgID EXCEPT ![c] = nRecvMsgID[c] + 1]
      BY <1>0
    <3>2. nRecvMsgID[c] + 1 \in Nat \ {0}
      BY <1>1, <1>2 DEF TypeOK
    <3> QED
      BY <1>2, <1>5, <3>1, <3>2 DEF TypeOK
  <2>2. \A x \in End : Len(recvBuff'[x]) <= RecvSize
    BY <1>1, <1>2, <1>3, <1>5 DEF TypeOK
  <2> QED
    BY <1>0, <1>2, <1>13, <2>1, <2>2 DEF TypeOK, modes
<1>7. StreamInv(c)'
  <2>1. Stream(c)' = Stream(c) /\ OnWay(c)' = OnWay(c)
    BY <1>0, <1>1, <1>3 DEF Stream, OnWay
  <2> QED
    BY <1>0, <1>1, <1>2, <1>3, <2>1 DEF StreamInv, Follows
<1>8. IdInv(c)' /\ IdInv(v)' /\ Histories'
  <2>1. Message(nRecvMsgID[c]) \in Seq(Units)
    BY <1>1, <1>2, MessageSeq DEF TypeOK
  <2>2. handled'[v] = handled[v] /\ handled'[c] = Append(handled[c], Message(nRecvMsgID[c]))
    BY <1>0, <1>1, <1>2, <1>5 DEF Histories
  <2>3. handled[c] \in Seq(Seq(Units)) /\ Len(handled[c]) = nRecvMsgID[c] - 1
    BY <1>1, <1>2 DEF IdInv, Histories
  <2>4. handled'[c] \in Seq(Seq(Units)) /\ Len(handled'[c]) = nRecvMsgID'[c] - 1
    <3>1. /\ handled'[c] \in Seq(Seq(Units))
          /\ Len(handled'[c]) = Len(handled[c]) + 1
      BY <2>1, <2>2, <2>3, AppendProperties
    <3>2. nRecvMsgID'[c] = nRecvMsgID[c] + 1 /\ nRecvMsgID[c] \in Nat
      BY <1>1, <1>2, <1>3 DEF TypeOK
    <3>3. Len(handled'[c]) = nRecvMsgID'[c] - 1
      BY <2>3, <3>1, <3>2
    <3> QED
      BY <3>1, <3>3
  <2>5. Histories'
    BY <1>0, <1>2, <2>4 DEF Histories
  <2>6. IdInv(c)'
    BY <1>0, <1>1, <1>2, <1>3, <2>4 DEF IdInv
  <2>7. nRecvMsgID'[c] <= nSendMsgID'[v]
    BY <1>0, <1>1, <1>2, <1>3, <1>5 DEF TypeOK
  <2>8. IdInv(v)'
    BY <1>0, <1>1, <1>2, <1>3, <2>2, <2>7 DEF IdInv
  <2> QED
    BY <2>5, <2>6, <2>8
<1>9. ASSUME NEW x \in End PROVE ClosedInv(x)'
  BY <1>0, <1>1, <1>3, <1>4 DEF IInv, ClosedInv
<1>10. RoomInv'
  BY <1>0, <1>3 DEF IInv, RoomInv
<1>11. IdOrder'
  BY <1>0, <1>1, <1>3 DEF IInv, IdOrder
<1>12. OneUnderWay'
  <2>1. SUFFICES ASSUME sendBack, chekSendBack, open[c], open[v]
                 PROVE  (nSendMsgID[c] - nRecvMsgID[v])
                           + (nSendMsgID[v] - (nRecvMsgID[c] + 1)) = 0
    BY <1>0, <1>3, <1>13 DEF OneUnderWay, modes
  <2>2. (nSendMsgID[c] - nRecvMsgID[v]) + (nSendMsgID[v] - nRecvMsgID[c])
           = IF bSend THEN 1 ELSE 0
    BY <2>1 DEF IInv, OneUnderWay
  <2>3. nRecvMsgID[v] <= nSendMsgID[c]
    BY <1>1, <1>2 DEF IdInv
  <2>4. /\ nSendMsgID[c] \in Int /\ nSendMsgID[v] \in Int
        /\ nRecvMsgID[c] \in Int /\ nRecvMsgID[v] \in Int
    BY <1>1, <1>2 DEF TypeOK
  <2> QED
    BY <1>5, <2>2, <2>3, <2>4
<1> QED
  BY <1>1, <1>5, <1>6, <1>7, <1>8, <1>9, <1>10, <1>11, <1>12 DEF IInv

\* An answer is never dropped while its request is waited for: the send
\* buffer is empty then.
LEMMA ServerMsgStep ==
  ASSUME IInv, ServerMsg
  PROVE  IInv'
<1> DEFINE c == "client"
           v == "server"
<1>0. /\ pc[v] = "msg" /\ HasMsg(recvBuff[v]) /\ Answer
      /\ nRecvMsgID' = [nRecvMsgID EXCEPT ![v] = @ + 1]
      /\ handled' = [handled EXCEPT ![v] = Append(@, SubSeq(recvBuff[v], 1, MsgLen))]
      /\ recvBuff' = [recvBuff EXCEPT ![v] = Pop(@)]
      /\ UNCHANGED <<modes, pc, writable, open, wire, clientVars>>
  BY DEF ServerMsg
<1>1. c \in End /\ v \in End /\ Peer(c) = v /\ Peer(v) = c /\ \A x \in End : x = c \/ x = v
  BY DEF End, Peer
<1>2. TypeOK /\ Histories /\ StreamInv(c) /\ StreamInv(v) /\ IdInv(c) /\ IdInv(v)
  BY <1>1 DEF IInv
<1>3. /\ recvBuff'[v] = Pop(recvBuff[v]) /\ recvBuff'[c] = recvBuff[c]
      /\ nRecvMsgID'[v] = nRecvMsgID[v] + 1 /\ nRecvMsgID'[c] = nRecvMsgID[c]
  BY <1>0, <1>1, <1>2 DEF TypeOK
<1>4. open[v]
  BY <1>0, <1>1 DEF IInv, ClosedInv
<1>5. \/ /\ sendBack /\ Fits(v)
         /\ sendBuff' = [sendBuff EXCEPT ![v] = sendBuff[v] \o Message(nSendMsgID[v])]
         /\ nSendMsgID' = [nSendMsgID EXCEPT ![v] = nSendMsgID[v] + 1]
         /\ accepted' = [accepted EXCEPT ![v] = Append(accepted[v], Message(nSendMsgID[v]))]
      \/ /\ ~(sendBack /\ Fits(v))
         /\ UNCHANGED <<sendBuff, nSendMsgID, accepted>>
  BY <1>0 DEF Answer, Push
<1>6. /\ sendBuff'[c] = sendBuff[c] /\ nSendMsgID'[c] = nSendMsgID[c]
      /\ accepted'[c] = accepted[c]
  BY <1>1, <1>2, <1>5 DEF TypeOK, Histories
<1>7. /\ SubSeq(recvBuff[v], 1, MsgLen) = Message(nRecvMsgID[v])
      /\ nRecvMsgID[v] < nSendMsgID[c]
      /\ Pop(recvBuff[v]) \in Seq(Units) /\ Len(Pop(recvBuff[v])) <= RecvSize
      /\ StreamInv(c)'
  BY <1>0, <1>1, <1>2, <1>3, <1>4, <1>6, PopStream
<1>8. /\ nSendMsgID[c] \in Nat \ {0} /\ nSendMsgID[v] \in Nat \ {0}
      /\ nRecvMsgID[c] \in Nat \ {0} /\ nRecvMsgID[v] \in Nat \ {0}
  BY <1>1, <1>2 DEF TypeOK
<1>9. /\ handled'[c] = handled[c]
      /\ handled'[v] \in Seq(Seq(Units)) /\ Len(handled'[v]) = nRecvMsgID'[v] - 1
  <2>1. Message(nRecvMsgID[v]) \in Seq(Units)
    BY <1>8, MessageSeq
  <2>2. handled'[c] = handled[c] /\ handled'[v] = Append(handled[v], Message(nRecvMsgID[v]))
    BY <1>0, <1>1, <1>2, <1>7 DEF Histories
  <2>3. handled[v] \in Seq(Seq(Units)) /\ Len(handled[v]) = nRecvMsgID[v] - 1
    BY <1>1, <1>2 DEF IdInv, Histories
  <2> QED
    BY <1>3, <1>8, <2>1, <2>2, <2>3, AppendProperties
<1>10. IdInv(c)'
  <2>1. nRecvMsgID'[v] <= nSendMsgID'[c]
    BY <1>3, <1>6, <1>7, <1>8
  <2> QED
    BY <1>1, <1>2, <1>3, <1>6, <1>9, <2>1 DEF IdInv
<1>11. /\ StreamInv(v)' /\ IdInv(v)'
       /\ sendBuff'[v] \in Seq(Units) /\ Len(sendBuff'[v]) <= SendSize
       /\ accepted'[v] \in Seq(Seq(Units))
       /\ nSendMsgID'[v] \in Nat \ {0} /\ nSendMsgID'[v] <= nRecvMsgID'[v]
  <2>0. nSendMsgID[v] <= nRecvMsgID[v]
    BY DEF IInv, IdOrder
  <2>1. CASE sendBack /\ Fits(v)
    <3>1. /\ sendBuff'[v] = sendBuff[v] \o Message(nSendMsgID[v])
          /\ nSendMsgID'[v] = nSendMsgID[v] + 1
          /\ accepted'[v] = Append(accepted[v], Message(nSendMsgID[v]))
      BY <1>1, <1>2, <1>5, <2>1 DEF TypeOK, Histories
    <3>2. /\ StreamInv(v)' /\ IdInv(v)'
          /\ sendBuff'[v] \in Seq(Units) /\ Len(sendBuff'[v]) <= SendSize
          /\ accepted'[v] \in Seq(Seq(Units))
      <4>1. TypeOK /\ Histories /\ v \in End /\ StreamInv(v) /\ IdInv(v) /\ open[v] /\ Fits(v)
        BY <1>1, <1>2, <1>4, <2>1
      <4>2. /\ open' = open /\ recvBuff'[Peer(v)] = recvBuff[Peer(v)] /\ wire'[v] = wire[v]
            /\ nRecvMsgID'[Peer(v)] = nRecvMsgID[Peer(v)]
        BY <1>0, <1>1, <1>3
      <4>3. Len(handled'[v]) = nRecvMsgID'[v] - 1
        BY <1>9
      <4> QED
        BY ONLY <3>1, <4>1, <4>2, <4>3, PushStream
    <3>3. nSendMsgID'[v] \in Nat \ {0} /\ nSendMsgID'[v] <= nRecvMsgID'[v]
      BY <1>3, <1>8, <2>0, <3>1
    <3> QED
      BY <3>2, <3>3
  <2>2. CASE ~(sendBack /\ Fits(v))
    <3>1. sendBuff' = sendBuff /\ nSendMsgID' = nSendMsgID /\ accepted' = accepted
      BY <1>5, <2>2
    <3>2. Stream(v)' = Stream(v) /\ OnWay(v)' = OnWay(v)
      BY <1>0, <1>1, <1>3, <3>1 DEF Stream, OnWay
    <3>3. StreamInv(v)'
      BY <1>0, <1>1, <1>2, <1>3, <3>2 DEF StreamInv, Follows
    <3>4. IdInv(v)'
      BY <1>1, <1>2, <1>3, <1>9, <3>1 DEF IdInv
    <3>5. /\ sendBuff[v] \in Seq(Units) /\ Len(sendBuff[v]) <= SendSize
          /\ accepted[v] \in Seq(Seq(Units))
      BY <1>1, <1>2 DEF TypeOK, Histories
    <3> QED
      BY <1>3, <1>8, <2>0, <3>1, <3>3, <3>4, <3>5
  <2> QED
    BY <2>1, <2>2
<1>12. TypeOK'
  <2>1. recvBuff' \in [End -> Seq(Units)]
    BY <1>0, <1>2, <1>7 DEF TypeOK
  <2>2. nRecvMsgID' \in [End -> Nat \ {0}]
    <3>1. nRecvMsgID' = [nRecvMsgID EXCEPT ![v] = nRecvMsgID[v] + 1]
      BY <1>0
    <3>2. nRecvMsgID[v] + 1 \in Nat \ {0}
      BY <1>8
    <3> QED
      BY <1>2, <3>1, <3>2 DEF TypeOK
  <2>3. sendBuff' \in [End -> Seq(Units)] /\ nSendMsgID' \in [End -> Nat \ {0}]
    <3>1. sendBuff[v] \o Message(nSendMsgID[v]) \in Seq(Units)
      BY <1>1, <1>2, <1>8, MessageSeq, ConcatProperties DEF TypeOK
    <3>2. nSendMsgID[v] + 1 \in Nat \ {0}
      BY <1>8
    <3>3. CASE sendBack /\ Fits(v)
      <4>1. /\ sendBuff' = [sendBuff EXCEPT ![v] = sendBuff[v] \o Message(nSendMsgID[v])]
            /\ nSendMsgID' = [nSendMsgID EXCEPT ![v] = nSendMsgID[v] + 1]
        BY <1>5, <3>3
      <4>2. sendBuff \in [End -> Seq(Units)] /\ nSendMsgID \in [End -> Nat \ {0}]
        BY <1>2 DEF TypeOK
      <4> QED
        BY ONLY <3>1, <3>2, <4>1, <4>2
    <3>4. CASE ~(sendBack /\ Fits(v))
      BY <1>2, <1>5, <3>4 DEF TypeOK
    <3> QED
      BY <3>3, <3>4
  <2>4. ASSUME NEW x \in End
        PROVE  Len(recvBuff'[x]) <= RecvSize /\ Len(sendBuff'[x]) <= SendSize
    BY <1>1, <1>2, <1>3, <1>6, <1>7, <1>11 DEF TypeOK
  <2> QED
    BY <1>0, <1>2, <2>1, <2>2, <2>3, <2>4 DEF TypeOK, modes, clientVars
<1>13. Histories'
  <2>1. Append(accepted[v], Message(nSendMsgID[v])) \in Seq(Seq(Units))
    <3>1. Message(nSendMsgID[v]) \in Seq(Units) /\ accepted[v] \in Seq(Seq(Units))
      BY <1>1, <1>2, <1>8, MessageSeq DEF Histories
    <3> QED
      BY <3>1, AppendProperties
  <2>2. accepted' \in [End -> Seq(Seq(Units))]
    BY <1>2, <1>5, <2>1 DEF Histories
  <2>3. handled' \in [End -> Seq(Seq(Units))]
    BY <1>0, <1>1, <1>2, <1>9 DEF Histories
  <2> QED
    BY <2>2, <2>3 DEF Histories
<1>14. ASSUME NEW x \in End PROVE ClosedInv(x)'
  BY <1>0, <1>1, <1>3, <1>4, <1>6 DEF IInv, ClosedInv
<1>15. RoomInv'
  BY <1>0, <1>3 DEF IInv, RoomInv
<1>16. IdOrder'
  BY <1>6, <1>11 DEF IInv, IdOrder
<1>17. OneUnderWay'
  <2>1. SUFFICES ASSUME sendBack, chekSendBack, open[c], open[v]
                 PROVE  (nSendMsgID[c] - (nRecvMsgID[v] + 1))
                           + (nSendMsgID'[v] - nRecvMsgID[c]) = IF bSend THEN 1 ELSE 0
    BY <1>0, <1>3, <1>6 DEF OneUnderWay, modes, clientVars
  <2>2. (nSendMsgID[c] - nRecvMsgID[v]) + (nSendMsgID[v] - nRecvMsgID[c])
           = IF bSend THEN 1 ELSE 0
    BY <2>1 DEF IInv, OneUnderWay
  <2>3. nRecvMsgID[c] <= nSendMsgID[v]
    BY <1>1, <1>2 DEF IdInv
  <2>4. nSendMsgID[v] - nRecvMsgID[c] = 0
    BY <1>7, <1>8, <2>2, <2>3
  <2>5. Len(Stream(v)) = 0
    <3>1. OnWay(v) = 0
      BY <1>1, <2>4, SizesAssumption DEF OnWay
    <3> QED
      BY <1>1, <1>2, <2>1, <3>1 DEF StreamInv
  <2>6. Fits(v)
    <3> DEFINE a == recvBuff[c] \o wire[v]
               b == sendBuff[v]
    <3>1. a \in Seq(Units) /\ b \in Seq(Units) /\ Stream(v) = a \o b
      BY <1>1, <1>2, ConcatProperties DEF TypeOK, Stream
    <3> HIDE DEF a, b
    <3>4. Len(a \o b) = Len(a) + Len(b) /\ Len(a) \in Nat /\ Len(b) \in Nat
      BY ONLY <3>1, ConcatProperties, LenProperties
    <3>2. Len(sendBuff[v]) = 0
      BY <2>5, <3>1, <3>4 DEF b
    <3>3. MsgLen <= SendSize
      BY <1>1, <1>2, <1>7, <1>8 DEF IdInv
    <3> QED
      BY <3>2, <3>3, SizesAssumption DEF Fits
  <2>7. nSendMsgID'[v] = nSendMsgID[v] + 1
    BY <1>1, <1>2, <1>5, <2>1, <2>6 DEF TypeOK
  <2> QED
    BY <1>8, <2>2, <2>7
<1> QED
  BY <1>1, <1>7, <1>10, <1>11, <1>12, <1>13, <1>14, <1>15, <1>16, <1>17 DEF IInv
-----------------------------------------------------------------------------
(* The theorems.                                                           *)

LEMMA NextStep ==
  ASSUME IInv, [Next]_vars
  PROVE  IInv'
<1>1. ASSUME NEW e \in End, Run(e) PROVE IInv'
  BY <1>1, PollStep, RecvStep, CloseStep, MsgEndStep, SendStep DEF Run
<1>2. CASE ClientStep
  <2>1. "client" \in End
    BY DEF End
  <2> QED
    BY <1>1, <1>2, <2>1, ClientMsgStep, WorkStep, SendTestStep DEF ClientStep
<1>3. CASE ServerStep
  <2>1. "server" \in End
    BY DEF End
  <2> QED
    BY <1>1, <1>3, <2>1, ServerMsgStep DEF ServerStep
<1>4. CASE \E e \in End : SendPart(e)
  BY <1>4, SendPartStep
<1>5. CASE WorkStop \/ ServerDrop
  BY <1>5, CloseStep
<1>6. CASE WaitFail
  BY <1>6, WaitFailStep
<1>7. CASE UNCHANGED vars
  BY <1>7, WorkStep
<1> QED
  BY <1>2, <1>3, <1>4, <1>5, <1>6, <1>7 DEF Next

\* The inductive invariant holds: whatever is cut where, what is on its way
\* continues the messages handled so far, and is all of what is still owed.
THEOREM Inductive == Spec => []IInv
<1> QED
  BY InitIInv, NextStep, PTL DEF Spec

\* Types, and no buffer of either Client ever holds more than its _nSize.
THEOREM TypeCorrect == Spec => []TypeOK
<1>1. IInv => TypeOK
  BY DEF IInv
<1> QED
  BY <1>1, Inductive, PTL

\* The message in front of either receive buffer is the one OnNetMsg expects
\* next, for every size of the buffers and every way send() and recv() cut.
THEOREM IdsAgree == Spec => []IdsConsecutive
<1>1. ASSUME IInv PROVE IdsConsecutive
  <2> SUFFICES ASSUME NEW e \in End, HasMsg(recvBuff[e])
               PROVE  SubSeq(recvBuff[e], 1, MsgLen) = Message(nRecvMsgID[e])
    BY DEF IdsConsecutive
  <2>1. Peer(e) \in End /\ Peer(Peer(e)) = e
    BY Peers
  <2>2. TypeOK /\ StreamInv(Peer(e)) /\ IdInv(Peer(e)) /\ ClosedInv(e)
    BY <1>1, <2>1 DEF IInv
  <2>3. open[e]
    <3>1. Len(<< >>) = 0
      OBVIOUS
    <3>2. recvBuff[e] # << >>
      BY <3>1, SizesAssumption DEF HasMsg
    <3> QED
      BY <2>2, <3>2 DEF ClosedInv
  <2> QED
    BY <2>2, <2>3, PopStream
<1> QED
  BY <1>1, Inductive, PTL

\* A poll never finds a whole message left over, so a round of reading has room.
THEOREM RoomLeft == Spec => []RoomToRead
<1>1. IInv => RoomToRead
  BY DEF IInv, RoomInv, RoomToRead, End
<1> QED
  BY <1>1, Inductive, PTL

\* With -sendBack and -chekSendBack one message is under way, no more and no less.
THEOREM OneMessage == Spec => []OneUnderWay
<1>1. IInv => OneUnderWay
  BY DEF IInv
<1> QED
  BY <1>1, Inductive, PTL

\* An end is inside a send() that cannot return: its peer's share of the kernel
\* is full and the peer has not closed.
Blocked(e) ==
    pc[e] \in {"send", "sending"} /\ open[Peer(e)] /\ Len(wire[e]) = WireSize

\* What e has accepted, and its peer has not taken from the kernel.
Leaving(e) == wire[e] \o sendBuff[e]

\* With an answer for each request and none sent ahead, data goes one way at a time.
OneWay ==
    sendBack /\ chekSendBack /\ open["client"] /\ open["server"] =>
        Leaving("client") = << >> \/ Leaving("server") = << >>

LEMMA LongerThanNothing ==
  ASSUME NEW a \in Seq(Units), NEW b \in Seq(Units), NEW c \in Seq(Units), b \o c # << >>
  PROVE  Len((a \o b) \o c) > 0
<1>1. Len(a) \in Nat /\ Len(b) \in Nat /\ Len(c) \in Nat
  BY LenProperties
<1>2. Len((a \o b) \o c) = Len(a) + Len(b) + Len(c) /\ Len(b \o c) = Len(b) + Len(c)
  OBVIOUS
<1>3. b \o c \in Seq(Units) /\ Len(b \o c) # 0
  BY EmptySeq
<1> QED
  BY <1>1, <1>2, <1>3

\* A direction in which something leaves has a message on its way.
LEMMA LeavingOnWay ==
  ASSUME TypeOK, NEW e \in End, StreamInv(e), open[e], open[Peer(e)], Leaving(e) # << >>,
         nRecvMsgID[Peer(e)] <= nSendMsgID[e]
  PROVE  nSendMsgID[e] - nRecvMsgID[Peer(e)] >= 1
<1>1. /\ recvBuff[Peer(e)] \in Seq(Units) /\ wire[e] \in Seq(Units) /\ sendBuff[e] \in Seq(Units)
      /\ nSendMsgID[e] \in Nat /\ nRecvMsgID[Peer(e)] \in Nat
  BY Peers DEF TypeOK
<1>2. Len(Stream(e)) > 0
  <2>1. wire[e] \o sendBuff[e] # << >>
    BY DEF Leaving
  <2> QED
    BY ONLY <1>1, <2>1, LongerThanNothing DEF Stream
<1>3. OnWay(e) > 0
  BY <1>2 DEF StreamInv
<1>4. nSendMsgID[e] - nRecvMsgID[Peer(e)] # 0
  BY <1>1, <1>3, SizesAssumption DEF OnWay
<1> QED
  BY <1>1, <1>4

\* For every size of the buffers and of the kernel's share: with -sendBack and
\* -chekSendBack only one end ever has something to send, whatever is cut.
THEOREM OneWayAtATime == Spec => []OneWay
<1>1. ASSUME IInv PROVE OneWay
  <2> SUFFICES ASSUME sendBack, chekSendBack, open["client"], open["server"],
                      Leaving("client") # << >>, Leaving("server") # << >>
               PROVE  FALSE
    BY DEF OneWay
  <2>1. /\ TypeOK /\ StreamInv("client") /\ StreamInv("server")
        /\ nRecvMsgID["server"] <= nSendMsgID["client"]
        /\ nRecvMsgID["client"] <= nSendMsgID["server"]
    BY <1>1 DEF IInv, IdInv, End, Peer
  <2>2. /\ nSendMsgID["client"] - nRecvMsgID["server"] >= 1
        /\ nSendMsgID["server"] - nRecvMsgID["client"] >= 1
    BY <2>1, LeavingOnWay DEF End, Peer
  <2>3. /\ nSendMsgID["client"] \in Nat /\ nRecvMsgID["server"] \in Nat
        /\ nSendMsgID["server"] \in Nat /\ nRecvMsgID["client"] \in Nat
    BY <2>1 DEF TypeOK, End
  <2>4. (nSendMsgID["client"] - nRecvMsgID["server"]) + (nSendMsgID["server"] - nRecvMsgID["client"])
          = IF bSend THEN 1 ELSE 0
    BY <1>1 DEF IInv, OneUnderWay
  <2> QED
    BY <2>2, <2>3, <2>4
<1> QED
  BY <1>1, Inductive, PTL

\* The deadlock of two ends that both wait in send() for the other to read, which
\* the run msg_blocked shows, cannot happen with -sendBack and -chekSendBack
\* (Buffer.hpp:104, client.cpp:94-101).
THEOREM NeverBothBlocked ==
    Spec => [](sendBack /\ chekSendBack => ~(Blocked("client") /\ Blocked("server")))
<1>1. ASSUME IInv, OneWay, sendBack, chekSendBack
      PROVE  ~(Blocked("client") /\ Blocked("server"))
  <2> SUFFICES ASSUME Blocked("client"), Blocked("server") PROVE FALSE
    OBVIOUS
  <2>1. /\ open["client"] /\ open["server"]
        /\ Len(wire["client"]) = WireSize /\ Len(wire["server"]) = WireSize
    BY DEF Blocked, Peer
  <2>2. ASSUME NEW e \in End, Len(wire[e]) = WireSize PROVE Leaving(e) # << >>
    <3>1. wire[e] \in Seq(Units) /\ sendBuff[e] \in Seq(Units)
      BY <1>1 DEF IInv, TypeOK
    <3>2. Len(Leaving(e)) = WireSize + Len(sendBuff[e]) /\ Len(sendBuff[e]) \in Nat
      BY <2>2, <3>1, ConcatProperties, LenProperties DEF Leaving
    <3>3. Len(<< >>) = 0
      OBVIOUS
    <3> QED
      BY <3>2, <3>3, SizesAssumption
  <2> QED
    BY <1>1, <2>1, <2>2 DEF OneWay, End
<1> QED
  BY <1>1, Inductive, OneWayAtATime, PTL
-----------------------------------------------------------------------------
(* Refinement: what each step does to the two channels.                    *)

\* The steps in which no message is accepted or handled.
LEMMA OtherSteps ==
  ASSUME [Next]_vars, ~SendTest, ~ClientMsg, ~ServerMsg
  PROVE  UNCHANGED history
<1>1. ASSUME NEW e \in End, Run(e) \/ SendPart(e) PROVE UNCHANGED history
  BY <1>1 DEF Run, Poll, Recv, RecvError, MsgEnd, Send, SendError, SendPart, CloseOnError
<1>2. ASSUME LoopTest \/ SendTestEnd \/ CheckSend PROVE UNCHANGED history
  BY <1>2 DEF LoopTest, SendTestEnd, CheckSend
<1>3. ASSUME WorkStop \/ WaitFail \/ ServerDrop PROVE UNCHANGED history
  BY <1>3 DEF WorkStop, WaitFail, ServerDrop
<1>4. ASSUME UNCHANGED vars PROVE UNCHANGED history
  BY <1>4 DEF vars
<1>5. "client" \in End /\ "server" \in End
  BY DEF End
<1> QED
  BY <1>1, <1>2, <1>3, <1>4, <1>5 DEF Next, ClientStep, ServerStep

\* A message that is handled is the next one the other end accepted.
LEMMA Handled ==
  ASSUME IInv, NEW e \in End, HasMsg(recvBuff[e]), open[e]
  PROVE  /\ Len(handled[e]) < Len(accepted[Peer(e)])
         /\ SubSeq(recvBuff[e], 1, MsgLen) = accepted[Peer(e)][Len(handled[e]) + 1]
<1>1. Peer(e) \in End /\ Peer(Peer(e)) = e
  BY Peers
<1>2. TypeOK /\ StreamInv(Peer(e)) /\ IdInv(Peer(e)) /\ IdInv(e)
  BY <1>1 DEF IInv
<1>3. /\ SubSeq(recvBuff[e], 1, MsgLen) = Message(nRecvMsgID[e])
      /\ nRecvMsgID[e] < nSendMsgID[Peer(e)]
  BY <1>1, <1>2, PopStream
<1>4. nRecvMsgID[e] \in Nat \ {0} /\ nSendMsgID[Peer(e)] \in Nat \ {0}
  BY <1>1, <1>2 DEF TypeOK
<1>5. Len(handled[e]) = nRecvMsgID[e] - 1 /\ Len(accepted[Peer(e)]) = nSendMsgID[Peer(e)] - 1
  BY <1>1, <1>2 DEF IdInv
<1>6. accepted[Peer(e)][nRecvMsgID[e]] = Message(nRecvMsgID[e])
  BY <1>2, <1>3, <1>4, <1>5 DEF IdInv
<1>7. Len(handled[e]) + 1 = nRecvMsgID[e]
  BY <1>4, <1>5
<1> QED
  BY <1>3, <1>4, <1>5, <1>6, <1>7

LEMMA SendTestMaps ==
  ASSUME IInv, SendTest
  PROVE  Up!Next /\ UNCHANGED Down!vars
<1>1. "client" \in End /\ "server" \in End /\ "client" # "server"
  BY DEF End
<1>2. Histories /\ TypeOK
  BY DEF IInv
<1>3. /\ accepted' = [accepted EXCEPT !["client"] =
                         Append(@, Message(nSendMsgID["client"]))]
      /\ handled' = handled /\ nSendMsgID["client"] <= MaxMsg
  BY DEF SendTest, Push, CanSendTest
<1>4. Message(nSendMsgID["client"]) \in Messages
  BY <1>1, <1>2, <1>3, MsgBoundsAssumption DEF Messages, TypeOK
<1>5. Up!Put(Message(nSendMsgID["client"]))
  BY <1>1, <1>2, <1>3 DEF Up!Put, Histories
<1> QED
  BY <1>1, <1>2, <1>3, <1>4, <1>5 DEF Up!Next, Down!vars, Histories

LEMMA ClientMsgMaps ==
  ASSUME IInv, ClientMsg
  PROVE  Down!Next /\ UNCHANGED Up!vars
<1>1. "client" \in End /\ "server" \in End /\ "client" # "server" /\ Peer("client") = "server"
  BY DEF End, Peer
<1>2. Histories
  BY DEF IInv
<1>3. /\ handled' = [handled EXCEPT !["client"] = Append(@, SubSeq(recvBuff["client"], 1, MsgLen))]
      /\ accepted' = accepted /\ pc["client"] = "msg" /\ HasMsg(recvBuff["client"])
  BY DEF ClientMsg
<1>4. open["client"]
  BY <1>1, <1>3 DEF IInv, ClosedInv
<1>5. /\ Len(handled["client"]) < Len(accepted["server"])
      /\ SubSeq(recvBuff["client"], 1, MsgLen) = accepted["server"][Len(handled["client"]) + 1]
  BY <1>1, <1>3, <1>4, Handled
<1>6. Down!Get
  BY <1>1, <1>2, <1>3, <1>5 DEF Down!Get, Histories
<1> QED
  BY <1>1, <1>2, <1>3, <1>6 DEF Down!Next, Up!vars, Histories

LEMMA ServerMsgMaps ==
  ASSUME IInv, ServerMsg
  PROVE  Up!Next /\ [Down!Next]_(Down!vars)
<1>1. "client" \in End /\ "server" \in End /\ "client" # "server" /\ Peer("server") = "client"
  BY DEF End, Peer
<1>2. Histories /\ TypeOK
  BY DEF IInv
<1>3. /\ handled' = [handled EXCEPT !["server"] = Append(@, SubSeq(recvBuff["server"], 1, MsgLen))]
      /\ pc["server"] = "msg" /\ HasMsg(recvBuff["server"])
  BY DEF ServerMsg
<1>4. \/ accepted' = [accepted EXCEPT !["server"] = Append(@, Message(nSendMsgID["server"]))]
      \/ accepted' = accepted
  BY DEF ServerMsg, Answer, Push
<1>5. open["server"]
  BY <1>1, <1>3 DEF IInv, ClosedInv
<1>6. /\ Len(handled["server"]) < Len(accepted["client"])
      /\ SubSeq(recvBuff["server"], 1, MsgLen) = accepted["client"][Len(handled["server"]) + 1]
  BY <1>1, <1>3, <1>5, Handled
<1>7. Up!Next
  <2>1. accepted'["client"] = accepted["client"]
    BY <1>1, <1>2, <1>4 DEF Histories
  <2> QED
    BY <1>1, <1>2, <1>3, <1>6, <2>1 DEF Up!Next, Up!Get, Histories
<1>8. Message(nSendMsgID["server"]) \in Messages
  <2>1. IdInv("client") /\ IdInv("server") /\ IdOrder
    BY <1>1 DEF IInv
  <2>2. nRecvMsgID["server"] < nSendMsgID["client"]
    BY <1>1, <1>2, <1>6, <2>1 DEF IdInv, TypeOK
  <2>3. /\ nSendMsgID["server"] \in Nat \ {0} /\ nSendMsgID["client"] \in Nat
        /\ nRecvMsgID["server"] \in Nat
    BY <1>1, <1>2 DEF TypeOK
  <2>4. nSendMsgID["server"] \in 1..MaxMsg
    BY <2>1, <2>2, <2>3, MsgBoundsAssumption DEF IdOrder
  <2> QED
    BY <2>4 DEF Messages
<1>9. [Down!Next]_(Down!vars)
  <2>0. handled'["client"] = handled["client"]
    BY <1>1, <1>2, <1>3 DEF Histories
  <2>1. CASE accepted' = accepted
    BY <2>0, <2>1 DEF Down!vars
  <2>2. CASE accepted' = [accepted EXCEPT !["server"] = Append(@, Message(nSendMsgID["server"]))]
    <3>1. Down!Put(Message(nSendMsgID["server"]))
      BY <1>1, <1>2, <2>0, <2>2 DEF Down!Put, Histories
    <3> QED
      BY <1>8, <3>1 DEF Down!Next
  <2> QED
    BY <1>4, <2>1, <2>2
<1> QED
  BY <1>7, <1>9

\* Each direction implements MsgChannel: what OnNetMsg handles is what SendData
\* accepted at the other end, whole, in order and once.
THEOREM Refinement == Spec => ImplementsChannels
<1>1. Init => Up!Init /\ Down!Init
  BY DEF Init, Up!Init, Down!Init, End
<1>2. ASSUME IInv, [Next]_vars
      PROVE  [Up!Next]_(Up!vars) /\ [Down!Next]_(Down!vars)
  <2>1. CASE SendTest
    BY <1>2, <2>1, SendTestMaps
  <2>2. CASE ClientMsg
    BY <1>2, <2>2, ClientMsgMaps
  <2>3. CASE ServerMsg
    BY <1>2, <2>3, ServerMsgMaps
  <2>4. CASE ~SendTest /\ ~ClientMsg /\ ~ServerMsg
    BY <1>2, <2>4, OtherSteps DEF history, Up!vars, Down!vars
  <2> QED
    BY <2>1, <2>2, <2>3, <2>4
<1> QED
  BY <1>1, <1>2, Inductive, PTL DEF Spec, ImplementsChannels, Up!Spec, Down!Spec
===============================================================================
