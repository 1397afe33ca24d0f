------------------------------- MODULE MsgStream -------------------------------
(***************************************************************************)
(* One connection between the load generator and the echo server:          *)
(* MyClient and WorkThread (TcpClient/client.cpp) over TcpClient and its   *)
(* two pollers, MyServer (TcpServer/server.cpp) over one cell, and at both *)
(* ends a Client with its two Buffers (Client.hpp, Buffer.hpp).            *)
(*                                                                         *)
(* A message is cut into MsgLen units, which travel one after the other    *)
(* through the sender's send buffer, the kernel and the receiver's receive *)
(* buffer.  Both messages the programs exchange, netmsg_Login and          *)
(* netmsg_LoginR, have the same length, which hasMsg finds in the header,  *)
(* the start of a message.  The sockets are blocking (make_nonblocking is  *)
(* never called): send() returns when the kernel has taken everything, or  *)
(* early with a part when a signal interrupts it.  A poll may miss what    *)
(* is on its way but not there yet.                                        *)
(***************************************************************************)
EXTENDS Integers, Sequences

CONSTANTS
    MsgLen,         \* units in a message
    SendSize,       \* _nSize of both send buffers (nSendBuffSize)
    RecvSize,       \* _nSize of both receive buffers (nRecvBuffSize)
    WireSize,       \* units the kernel holds in one direction
    NMsg,           \* nMsg of the load generator
    SendBacks,      \* the values of _bSendBack considered, within BOOLEAN
    ChekSendBacks,  \* the values of bChekSendBack considered
    Pollers,        \* the builds considered, within {"epoll", "select"}
    MaxMsg,         \* bound: Login messages a client sends
    MaxFaults       \* bound: waits of the client that fail

ASSUME SizesAssumption ==
    /\ MsgLen \in Nat \ {0} /\ SendSize \in Nat \ {0}
    /\ RecvSize \in Nat \ {0} /\ WireSize \in Nat \ {0}
    /\ MsgLen <= RecvSize
ASSUME ModesAssumption ==
    /\ SendBacks \subseteq BOOLEAN /\ ChekSendBacks \subseteq BOOLEAN
    /\ Pollers \subseteq {"epoll", "select"}
ASSUME MsgBoundsAssumption == NMsg \in Nat /\ MaxMsg \in Nat /\ MaxFaults \in Nat

End == {"client", "server"}
Peer(e) == IF e = "client" THEN "server" ELSE "client"

VARIABLES
    sendBack,       \* MyServer::_bSendBack
    chekSendBack,   \* bChekSendBack
    poller,         \* which TcpClient was built
    pc,             \* per end: where its thread stands, see EndState
    writable,       \* per end: the poll also reported the socket writable
    open,           \* per end: its socket is open
    sendBuff,       \* per end: what _sendBuff holds and send() has not taken
    recvBuff,       \* per end: _recvBuff
    wire,           \* per end: what it has sent and the peer has not received
    nSendMsgID,     \* per end: the id of its next message
    nRecvMsgID,     \* per end: the id it expects next
    bSend,          \* MyClient::_bSend, it waits for an answer
    nSendCount,     \* MyClient::_nSendCount
    nConnect,       \* nConnect
    faults,         \* waits that have failed so far
    accepted,       \* history, per end: messages SendData accepted
    handled         \* history, per end: messages OnNetMsg was called with

modes == <<sendBack, chekSendBack, poller>>
streams == <<sendBuff, recvBuff, wire>>
ids == <<nSendMsgID, nRecvMsgID>>
clientVars == <<bSend, nSendCount, nConnect, faults>>
history == <<accepted, handled>>
vars == <<modes, pc, writable, open, streams, ids, clientVars, history>>

\* loop: the while test of WorkThread; work: the calls of SendTest; poll: the
\* call of OnRun, or DoNetEvents; recv: RecvData; msg: DoMsg; send: about to
\* call send(); sending: inside it; rest: checkSend; closed: the socket is
\* gone; stopped: WorkThread has left its loop.
EndState == {"loop", "work", "poll", "recv", "msg", "send", "sending", "rest",
             "closed", "stopped"}

\* A unit names its message and its place in it.
Units == (Nat \ {0}) \X (1..MsgLen)
Message(id) == [p \in 1..MsgLen |-> <<id, p>>]
Messages == {Message(id) : id \in 1..MaxMsg}

\* Variant of HasMsg with the comparison off by one.
HasMsgMore(b) == Len(b) > MsgLen

\* Buffer::hasMsg.
HasMsg(b) == Len(b) >= MsgLen

\* Variant of Fits that only asks whether there is any room.
FitsSome(e) == Len(sendBuff[e]) < SendSize

\* The test of Buffer::push.
Fits(e) == Len(sendBuff[e]) + MsgLen <= SendSize

\* Where an end goes when the events of its round are handled.
Done(e) == IF e = "client" THEN "rest" ELSE "msg"

Init ==
    /\ sendBack \in SendBacks
    /\ chekSendBack \in ChekSendBacks
    /\ poller \in Pollers
    /\ pc = [e \in End |-> IF e = "client" THEN "loop" ELSE "poll"]
    /\ writable = [e \in End |-> FALSE]
    /\ open = [e \in End |-> TRUE]
    /\ sendBuff = [e \in End |-> << >>]
    /\ recvBuff = [e \in End |-> << >>]
    /\ wire = [e \in End |-> << >>]
    /\ nSendMsgID = [e \in End |-> 1]
    /\ nRecvMsgID = [e \in End |-> 1]
    /\ bSend = FALSE
    /\ nSendCount = 0
    /\ nConnect = 1
    /\ faults = 0
    /\ accepted = [e \in End |-> << >>]
    /\ handled = [e \in End |-> << >>]
-----------------------------------------------------------------------------
\* Client::SendData of the end's next message: all of it goes into the buffer.
Push(e) ==
    /\ sendBuff' = [sendBuff EXCEPT ![e] = @ \o Message(nSendMsgID[e])]
    /\ nSendMsgID' = [nSendMsgID EXCEPT ![e] = @ + 1]
    /\ accepted' = [accepted EXCEPT ![e] = Append(@, Message(nSendMsgID[e]))]

\* The end deletes its Client: the buffers and the socket go, and with the
\* socket what the peer had sent.
Destroy(e) ==
    /\ open' = [open EXCEPT ![e] = FALSE]
    /\ sendBuff' = [sendBuff EXCEPT ![e] = << >>]
    /\ recvBuff' = [recvBuff EXCEPT ![e] = << >>]
    /\ wire' = [wire EXCEPT ![Peer(e)] = << >>]

\* An error of recv() or send(): TcpClient::Close, or the cell removes the
\* client.  OnRun of the select client returns false and WorkThread counts
\* the lost connection; OnRun of the epoll client still returns true.
CloseOnError(e) ==
    /\ Destroy(e)
    /\ pc' = [pc EXCEPT ![e] = "closed"]
    /\ nConnect' = IF e = "client" /\ poller = "select" THEN nConnect - 1 ELSE nConnect
    /\ UNCHANGED <<modes, writable, ids, bSend, nSendCount, faults, history>>
-----------------------------------------------------------------------------
(* Both ends.                                                              *)

CanRead(e) == wire[Peer(e)] # << >> \/ ~open[Peer(e)]
CanWrite(e) ==
    /\ sendBuff[e] # << >>
    /\ Len(wire[e]) < WireSize \/ ~open[Peer(e)]

\* The poll at the start of a round.  Writability is asked for only when the
\* send buffer holds something (needWrite).
Poll(e, in, out) ==
    /\ pc[e] = "poll"
    /\ in => CanRead(e)
    /\ out => CanWrite(e)
    /\ pc' = [pc EXCEPT ![e] = IF in THEN "recv" ELSE IF out THEN "send" ELSE Done(e)]
    /\ writable' = [writable EXCEPT ![e] = in /\ out]
    /\ UNCHANGED <<modes, open, streams, ids, clientVars, history>>

\* Where an end goes when it has read: on to the write event, if there is one.
ToSend(e) == IF writable[e] THEN "send" ELSE Done(e)

\* read4socket: some of what has come, as far as there is room; nothing, and
\* no error, when the buffer is full.  The client goes on to DoMsg at once if
\* it got something, the server after all events.
Recv(e) ==
    /\ pc[e] = "recv"
    /\ \E n \in 0..Len(wire[Peer(e)]) :
          /\ n <= RecvSize - Len(recvBuff[e])
          /\ n = 0 => Len(recvBuff[e]) = RecvSize
          /\ recvBuff' = [recvBuff EXCEPT ![e] = @ \o SubSeq(wire[Peer(e)], 1, n)]
          /\ wire' = [wire EXCEPT ![Peer(e)] = SubSeq(@, n + 1, Len(@))]
          /\ IF e = "client" /\ n > 0
             THEN pc' = [pc EXCEPT ![e] = "msg"] /\ UNCHANGED writable
             ELSE /\ pc' = [pc EXCEPT ![e] = ToSend(e)]
                  /\ writable' = [writable EXCEPT ![e] = FALSE]
    /\ UNCHANGED <<modes, open, sendBuff, ids, clientVars, history>>

\* recv() reports that the peer is gone: at the end of the data it sent, or
\* before that when the connection was reset.
RecvError(e) ==
    /\ pc[e] = "recv"
    /\ ~open[Peer(e)]
    /\ CloseOnError(e)

\* Variant of Pop that forgets what was received of the next message.
PopAll(b) == << >>

\* pop_front_msg: what is left moves to the front of the buffer.
Pop(b) == SubSeq(b, MsgLen + 1, Len(b))

\* MyClient::OnNetMsg with an answer; the message is then popped.
ClientMsg ==
    /\ pc["client"] = "msg"
    /\ HasMsg(recvBuff["client"])
    /\ bSend' = FALSE
    /\ nRecvMsgID' = [nRecvMsgID EXCEPT !["client"] = @ + 1]
    /\ handled' = [handled EXCEPT !["client"] =
                     Append(@, SubSeq(recvBuff["client"], 1, MsgLen))]
    /\ recvBuff' = [recvBuff EXCEPT !["client"] = Pop(@)]
    /\ UNCHANGED <<modes, pc, writable, open, sendBuff, wire, nSendMsgID,
                   nSendCount, nConnect, faults, accepted>>

\* Variant of Answer in which a dropped answer uses up its id.
AnswerCountsDropped ==
    IF sendBack /\ Fits("server")
    THEN Push("server")
    ELSE /\ nSendMsgID' = [nSendMsgID EXCEPT !["server"] = @ + 1]
         /\ UNCHANGED <<sendBuff, accepted>>

\* The answer goes into the send buffer, or is dropped when it does not fit,
\* and its id is kept for the next one.
Answer ==
    IF sendBack /\ Fits("server")
    THEN Push("server")
    ELSE UNCHANGED <<sendBuff, nSendMsgID, accepted>>

\* MyServer::OnNetMsg with a Login, which is then popped.
ServerMsg ==
    /\ pc["server"] = "msg"
    /\ HasMsg(recvBuff["server"])
    /\ nRecvMsgID' = [nRecvMsgID EXCEPT !["server"] = @ + 1]
    /\ Answer
    /\ handled' = [handled EXCEPT !["server"] =
                     Append(@, SubSeq(recvBuff["server"], 1, MsgLen))]
    /\ recvBuff' = [recvBuff EXCEPT !["server"] = Pop(@)]
    /\ UNCHANGED <<modes, pc, writable, open, wire, clientVars>>

\* Variant of MsgEnd that leaves messages behind ("if" for "while").
MsgEndEarly(e) ==
    /\ pc[e] = "msg"
    /\ pc' = [pc EXCEPT ![e] = IF e = "client" THEN ToSend(e) ELSE "poll"]
    /\ writable' = [writable EXCEPT ![e] = FALSE]
    /\ UNCHANGED <<modes, open, streams, ids, clientVars, history>>

\* The while loop of DoMsg ends.
MsgEnd(e) ==
    /\ pc[e] = "msg"
    /\ ~HasMsg(recvBuff[e])
    /\ pc' = [pc EXCEPT ![e] = IF e = "client" THEN ToSend(e) ELSE "poll"]
    /\ writable' = [writable EXCEPT ![e] = FALSE]
    /\ UNCHANGED <<modes, open, streams, ids, clientVars, history>>

\* write2socket: send() hands the kernel what it has room for, and waits for
\* room for the rest.
Send(e) ==
    /\ pc[e] \in {"send", "sending"}
    /\ Len(wire[e]) < WireSize
    /\ open[Peer(e)]
    /\ LET room == WireSize - Len(wire[e])
           n == IF Len(sendBuff[e]) <= room THEN Len(sendBuff[e]) ELSE room
       IN  /\ wire' = [wire EXCEPT ![e] = @ \o SubSeq(sendBuff[e], 1, n)]
           /\ sendBuff' = [sendBuff EXCEPT ![e] = SubSeq(@, n + 1, Len(@))]
           /\ pc' = [pc EXCEPT ![e] =
                       IF n = Len(sendBuff[e]) THEN Done(e) ELSE "sending"]
    /\ UNCHANGED <<modes, writable, open, recvBuff, ids, clientVars, history>>

\* A signal interrupts the wait: send() returns the part that was taken and
\* the rest moves to the front of the buffer.
SendPart(e) ==
    /\ pc[e] = "sending"
    /\ pc' = [pc EXCEPT ![e] = Done(e)]
    /\ UNCHANGED <<modes, writable, open, streams, ids, clientVars, history>>

\* send() reports that the peer is gone.
SendError(e) ==
    /\ pc[e] \in {"send", "sending"}
    /\ ~open[Peer(e)]
    /\ CloseOnError(e)
-----------------------------------------------------------------------------
(* The client's WorkThread, with one MyClient.                             *)

\* The test of the while loop; SendTest and OnRun are skipped for a client
\* that is not running.
LoopTest ==
    /\ pc["client"] = "loop"
    /\ pc' = [pc EXCEPT !["client"] = "work"]
    /\ UNCHANGED <<modes, writable, open, streams, ids, clientVars, history>>

\* The thread was told to stop: the client is closed and deleted.
WorkStop ==
    /\ pc["client"] = "loop"
    /\ Destroy("client")
    /\ pc' = [pc EXCEPT !["client"] = "stopped"]
    /\ UNCHANGED <<modes, writable, ids, clientVars, history>>

\* Variant of CanSendTest that does not wait for the answer.
CanSendTestUnanswered ==
    nSendCount > 0 /\ Fits("client") /\ nSendMsgID["client"] <= MaxMsg

CanSendTest ==
    nSendCount > 0 /\ ~bSend /\ Fits("client") /\ nSendMsgID["client"] <= MaxMsg

\* A SendTest that sends.  The calls of one round are nMsg, and nSendCount is
\* never more, so it ends the round's sending before the calls do.
SendTest ==
    /\ pc["client"] = "work"
    /\ CanSendTest
    /\ Push("client")
    /\ bSend' = chekSendBack
    /\ nSendCount' = nSendCount - 1
    /\ UNCHANGED <<modes, pc, writable, open, recvBuff, wire, nRecvMsgID, nConnect,
                   faults, handled>>

\* The remaining calls of the round change nothing.
SendTestEnd ==
    /\ pc["client"] = "work"
    /\ ~CanSendTest
    /\ pc' = [pc EXCEPT !["client"] = "poll"]
    /\ UNCHANGED <<modes, writable, open, streams, ids, clientVars, history>>

\* The wait of OnRun fails: it returns false, which WorkThread counts as a
\* lost connection.  Only the select client closes it.
WaitFail ==
    /\ pc["client"] = "poll"
    /\ faults < MaxFaults
    /\ faults' = faults + 1
    /\ nConnect' = nConnect - 1
    /\ IF poller = "select"
       THEN Destroy("client") /\ pc' = [pc EXCEPT !["client"] = "closed"]
       ELSE pc' = [pc EXCEPT !["client"] = "loop"] /\ UNCHANGED <<open, streams>>
    /\ UNCHANGED <<modes, writable, ids, bSend, nSendCount, history>>

\* checkSend: every nSendSleep the client may send nMsg messages again.
CheckSend ==
    /\ pc["client"] = "rest"
    /\ pc' = [pc EXCEPT !["client"] = "loop"]
    /\ nSendCount' \in {nSendCount, NMsg}
    /\ UNCHANGED <<modes, writable, open, streams, ids, bSend, nConnect, faults, history>>
-----------------------------------------------------------------------------
\* The cell closes the client for a reason of its own: a missed heartbeat, a
\* failed wait, or Close.
ServerDrop ==
    /\ pc["server"] = "poll"
    /\ Destroy("server")
    /\ pc' = [pc EXCEPT !["server"] = "closed"]
    /\ UNCHANGED <<modes, writable, ids, clientVars, history>>

\* What the thread of an end does of itself.
Run(e) ==
    \/ \E in, out \in BOOLEAN : Poll(e, in, out)
    \/ Recv(e) \/ RecvError(e) \/ MsgEnd(e) \/ Send(e) \/ SendError(e)

ClientStep ==
    \/ Run("client")
    \/ ClientMsg \/ LoopTest \/ SendTest \/ SendTestEnd \/ CheckSend

ServerStep == Run("server") \/ ServerMsg

Next ==
    \/ ClientStep
    \/ ServerStep
    \/ \E e \in End : SendPart(e)
    \/ WorkStop
    \/ WaitFail
    \/ ServerDrop

\* The two threads go on unless send() waits; the network delivers and
\* makes room, so a poll that could report an event reports it some time.
Fairness ==
    /\ WF_vars(ClientStep)
    /\ WF_vars(ServerStep)
    /\ \A e \in End : SF_vars(\E out \in BOOLEAN : Poll(e, TRUE, out))
    /\ \A e \in End : SF_vars(\E in \in BOOLEAN : Poll(e, in, TRUE))

Spec == Init /\ [][Next]_vars
FairSpec == Spec /\ Fairness
-----------------------------------------------------------------------------
(* Properties.                                                             *)

\* Types: no buffer holds more than its size, the kernel no more than its own.
TypeOK ==
    /\ sendBack \in BOOLEAN /\ chekSendBack \in BOOLEAN
    /\ poller \in {"epoll", "select"}
    /\ pc \in [End -> EndState]
    /\ writable \in [End -> BOOLEAN]
    /\ open \in [End -> BOOLEAN]
    /\ sendBuff \in [End -> Seq(Units)]
    /\ recvBuff \in [End -> Seq(Units)]
    /\ wire \in [End -> Seq(Units)]
    /\ \A e \in End :
          /\ Len(sendBuff[e]) <= SendSize
          /\ Len(recvBuff[e]) <= RecvSize
          /\ Len(wire[e]) <= WireSize
    /\ nSendMsgID \in [End -> Nat \ {0}]
    /\ nRecvMsgID \in [End -> Nat \ {0}]
    /\ bSend \in BOOLEAN
    /\ nSendCount \in 0..NMsg
    /\ nConnect \in Int
    /\ faults \in 0..MaxFaults

\* Each direction is a channel: the messages OnNetMsg handles are those
\* SendData accepted, whole and in order, however they were cut up.
Up == INSTANCE MsgChannel WITH put <- accepted["client"], got <- handled["server"]
Down == INSTANCE MsgChannel WITH put <- accepted["server"], got <- handled["client"]
ImplementsChannels == Up!Spec /\ Down!Spec

\* The check of -checkMsgID never fails at either end: the message in front
\* of the buffer is the one expected, also when the server drops answers.
IdsConsecutive ==
    \A e \in End :
        HasMsg(recvBuff[e]) => SubSeq(recvBuff[e], 1, MsgLen) = Message(nRecvMsgID[e])

\* What DoMsg leaves is less than a message, so the next round finds room for
\* the rest of it: read4socket never returns 0 for a full buffer.
RoomToRead == \A e \in End : pc[e] = "poll" => ~HasMsg(recvBuff[e])

\* A client that sends only after an answer has exactly one message under way,
\* its request or the answer to it, while it waits, and none otherwise: no
\* answer was dropped and there is nothing it waits for in vain.
OneUnderWay ==
    sendBack /\ chekSendBack /\ open["client"] /\ open["server"] =>
        LET requests == nSendMsgID["client"] - nRecvMsgID["server"]
            answers == nSendMsgID["server"] - nRecvMsgID["client"]
        IN  requests + answers = IF bSend THEN 1 ELSE 0

\* Such a client gets its answer, unless the connection is closed.
AnswerArrives ==
    (sendBack /\ chekSendBack /\ bSend)
        ~> (~bSend \/ ~open["client"] \/ ~open["server"])

\* OnRun(0) returns whatever the state of the connection ("returns at once
\* when select has looked at the state", client.cpp).
OnRunReturns == pc["client"] = "sending" ~> pc["client"] # "sending"
===============================================================================
