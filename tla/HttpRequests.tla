----------------------------- MODULE HttpRequests -----------------------------
(***************************************************************************)
(* TcpHttpClient.hpp: requests queued by get and post, sent one at a time  *)
(* over one TcpEpollClient, each with a callback that takes the answer or  *)
(* nullptr.  Everything runs in the thread that calls OnRun again and      *)
(* again; get and post are called between two OnRuns or from a callback,   *)
(* and differ only in the text they send.                                  *)
(*                                                                         *)
(* Requests are numbered as they are issued.  A host stands for host and   *)
(* port.  The server, which answers what it was asked in order and may     *)
(* close at any time, is the environment.  Bytes are abstracted: a request *)
(* takes one slot of the send buffer, and an answer is taken from the      *)
(* connection when hasMsg finds it complete, so a poll or a read that      *)
(* brings only a part of it changes nothing here.                          *)
(***************************************************************************)
EXTENDS Integers, Sequences

CONSTANTS
    Hosts,          \* the servers
    NoHost,         \* no server
    SendSlots,      \* requests the send buffer holds
    MaxReq,         \* bound: requests issued
    MaxAddrs,       \* bound: addresses a name resolves to
    MaxFails,       \* bound: failed resolutions and connections
    MaxDrops        \* bound: connections the server closes unasked

ASSUME HostsAssumption == NoHost \notin Hosts
ASSUME SlotsAssumption == SendSlots \in Nat \ {0}
ASSUME HttpBoundsAssumption ==
    /\ MaxReq \in Nat /\ MaxAddrs \in Nat /\ MaxFails \in Nat /\ MaxDrops \in Nat

NoReq == 0              \* no request, and the nullptr a callback is given
maxQuestCount == 1      \* Event::maxQuestCount, which nothing changes

VARIABLES
    queue,          \* _eventQueue, each request with its questCount
    bNextRequest,   \* _b_nextRequest
    onResponseCall, \* the request _onResponseCall belongs to
    hostBack,       \* _host_back and _port_back
    client,         \* _pClient: "none", "made", or "run" (isRun)
    sendBuff,       \* requests in its send buffer
    asked,          \* requests on their way to the server or waiting there
    answers,        \* answers on their way back, with their keep-alive
    peer,           \* the server's end of the connection is open
    pc,             \* where the thread stands, see ThreadState
    writable,       \* the poll also reported the socket writable
    addrs,          \* addresses connect2ip has not tried yet
    fails, drops,   \* what the bounds count
    hosts,          \* history: the host of each request issued
    calls,          \* history: the callbacks called, <<request, answer>>
    overlap         \* history: a request was issued with another one pending

link == <<client, sendBuff, asked, answers, peer>>
history == <<hosts, calls, overlap>>
vars == <<queue, bNextRequest, onResponseCall, hostBack, link, pc, writable,
          addrs, fails, drops, history>>

Requests == 1..MaxReq
Issued == 1..Len(hosts)
Called == {calls[i][1] : i \in DOMAIN calls}
Pending == Issued \ Called

\* idle: between two OnRuns; connect: the loop over the addresses; request:
\* url2get or url2post; poll: TcpEpollClient::OnRun; recv: RecvData; msg:
\* DoMsg; send: SendDataReal; crashed: the process is gone.
ThreadState == {"idle", "connect", "request", "poll", "recv", "msg", "send", "crashed"}

Init ==
    /\ queue = << >>
    /\ bNextRequest = FALSE
    /\ onResponseCall = NoReq
    /\ hostBack = NoHost
    /\ client = "none"
    /\ sendBuff = << >> /\ asked = << >> /\ answers = << >> /\ peer = FALSE
    /\ pc = "idle"
    /\ writable = FALSE
    /\ addrs = 0
    /\ fails = 0 /\ drops = 0
    /\ hosts = << >> /\ calls = << >> /\ overlap = FALSE
-----------------------------------------------------------------------------
(* What get, post and the callbacks do.                                    *)

\* The queue after a request to h has been issued; NoHost: none was.
Queued(h) ==
    IF h = NoHost THEN queue
    ELSE Append(queue, [req |-> Len(hosts) + 1, questCount |-> 0])

Issue(h, pending) ==
    IF h = NoHost
    THEN UNCHANGED <<hosts, overlap>>
    ELSE /\ Len(hosts) < MaxReq
         /\ hosts' = Append(hosts, h)
         /\ overlap' = (overlap \/ pending # {})

\* _onResponseCall is called, if there is one, and reset.  The callback may
\* issue one request itself, to the host more.
CallBack(answer, more) ==
    IF onResponseCall = NoReq
    THEN more = NoHost /\ UNCHANGED <<onResponseCall, history>>
    ELSE /\ calls' = Append(calls, <<onResponseCall, answer>>)
         /\ onResponseCall' = NoReq
         /\ Issue(more, Pending \ {onResponseCall})

\* get, post, between two OnRuns.
get(h) ==
    /\ pc = "idle"
    /\ queue' = Queued(h)
    /\ bNextRequest' = TRUE
    /\ Issue(h, Pending)
    /\ UNCHANGED <<onResponseCall, hostBack, link, pc, writable, addrs, fails, drops, calls>>

\* Variant of OnDisConnect that does not reset _onResponseCall.
OnDisConnectAgain(more) ==
    /\ IF onResponseCall = NoReq
       THEN more = NoHost /\ UNCHANGED <<onResponseCall, history>>
       ELSE /\ calls' = Append(calls, <<onResponseCall, NoReq>>)
            /\ Issue(more, Pending \ {onResponseCall})
            /\ UNCHANGED onResponseCall
    /\ queue' = Queued(more)
    /\ bNextRequest' = TRUE

OnDisConnect(more) ==
    /\ CallBack(NoReq, more)
    /\ queue' = Queued(more)
    /\ bNextRequest' = TRUE

\* Variant of DropBuffers in which the next connection gets the old answers.
DropBuffersOfSender ==
    sendBuff' = << >> /\ asked' = << >> /\ UNCHANGED answers

\* The Client is deleted with its buffers, and the connection with what is on
\* its way in it.
DropBuffers ==
    sendBuff' = << >> /\ asked' = << >> /\ answers' = << >>

\* TcpClient::Close, with a client.
Close(more) ==
    /\ client' = "none"
    /\ peer' = FALSE
    /\ DropBuffers
    /\ OnDisConnect(more)
-----------------------------------------------------------------------------
(* OnRun: nextRequest, when _b_nextRequest is set.                         *)

\* Nothing to do: on to the poll.
NextNone ==
    /\ pc = "idle"
    /\ bNextRequest => queue = << >>
    /\ bNextRequest' = FALSE
    /\ pc' = "poll"
    /\ UNCHANGED <<queue, onResponseCall, hostBack, link, writable, addrs, fails, drops, history>>

\* Variant of TriedEnough with the comparison off by one.
TriedEnoughEarly == Head(queue).questCount + 1 >= maxQuestCount

TriedEnough == Head(queue).questCount + 1 > maxQuestCount

\* Variant of NextDrop that leaves the next request for a later event.
NextDropAndRest ==
    /\ pc = "idle"
    /\ bNextRequest /\ queue # << >> /\ TriedEnough
    /\ queue' = Tail(queue)
    /\ bNextRequest' = FALSE
    /\ pc' = "poll"
    /\ UNCHANGED <<onResponseCall, hostBack, link, writable, addrs, fails, drops, history>>

\* The request in front has been sent maxQuestCount times: it is given up,
\* and the next OnRun looks at the one behind it.
NextDrop ==
    /\ pc = "idle"
    /\ bNextRequest /\ queue # << >> /\ TriedEnough
    /\ queue' = Tail(queue)
    /\ UNCHANGED bNextRequest
    /\ pc' = "poll"
    /\ UNCHANGED <<onResponseCall, hostBack, link, writable, addrs, fails, drops, history>>

Front == Head(queue).req

\* Variant of Connected that forgets to compare the host.
ConnectedAnywhere == client = "run"

\* hostname2ip need not connect: the connection to this host is there.
Connected == client = "run" /\ hostBack = hosts[Front]

\* The request in front is tried: sent at once over the connection there is,
\* or after getaddrinfo, which finds some addresses or fails.
NextTry ==
    /\ pc = "idle"
    /\ bNextRequest /\ queue # << >> /\ ~TriedEnough
    /\ bNextRequest' = FALSE
    /\ queue' = [queue EXCEPT ![1].questCount = @ + 1]
    /\ \/ Connected /\ pc' = "request" /\ UNCHANGED <<addrs, fails>>
       \/ ~Connected /\ pc' = "connect" /\ addrs' \in 1..MaxAddrs /\ UNCHANGED fails
       \/ ~Connected /\ pc' = "poll" /\ fails < MaxFails /\ fails' = fails + 1 /\ UNCHANGED addrs
    /\ UNCHANGED <<onResponseCall, hostBack, link, writable, drops, history>>

\* getnameinfo fails for an address, which is skipped; if it was the last one
\* hostname2ip returns the error and nothing is sent.
SkipAddress ==
    /\ pc = "connect"
    /\ fails < MaxFails /\ fails' = fails + 1
    /\ addrs' = addrs - 1
    /\ pc' = IF addrs = 1 THEN "poll" ELSE "connect"
    /\ UNCHANGED <<queue, bNextRequest, onResponseCall, hostBack, link, writable, drops, history>>

\* InitSocket: the client of an earlier address or request is closed.
CloseOld(more) ==
    IF client = "none"
    THEN more = NoHost /\ UNCHANGED <<queue, bNextRequest, onResponseCall, history>>
    ELSE OnDisConnect(more)

\* connect2ip succeeds.
Connect(more) ==
    /\ pc = "connect"
    /\ CloseOld(more)
    /\ DropBuffers
    /\ client' = "run"
    /\ peer' = TRUE
    /\ hostBack' = hosts[Front]
    /\ pc' = "request"
    /\ addrs' = 0
    /\ UNCHANGED <<writable, fails, drops>>

\* connect2ip fails, in socket() or in connect().  After the last address
\* hostname2ip still returns 0, the result of getnameinfo.
ConnectFail(result, more) ==
    /\ pc = "connect"
    /\ fails < MaxFails /\ fails' = fails + 1
    /\ CloseOld(more)
    /\ DropBuffers
    /\ client' = result
    /\ peer' = FALSE
    /\ addrs' = addrs - 1
    /\ pc' = IF addrs = 1 THEN "request" ELSE "connect"
    /\ UNCHANGED <<hostBack, writable, drops>>

\* Variant of Fits without the test of Buffer::push.
FitsAlways == client = "run"

\* SendData takes the request.
Fits == client = "run" /\ Len(sendBuff) < SendSlots

\* Variant of Request that keeps the callback only of a request it could send.
RequestIfSent ==
    /\ pc = "request"
    /\ sendBuff' = IF Fits THEN Append(sendBuff, Front) ELSE sendBuff
    /\ onResponseCall' = IF Fits THEN Front ELSE onResponseCall
    /\ pc' = "poll"
    /\ UNCHANGED <<queue, bNextRequest, hostBack, client, asked, answers, peer, writable,
                   addrs, fails, drops, history>>

\* url2get, url2post; the callback waits for the answer even if SendData
\* refused the request.
Request ==
    /\ pc = "request"
    /\ sendBuff' = IF Fits THEN Append(sendBuff, Front) ELSE sendBuff
    /\ onResponseCall' = Front
    /\ pc' = "poll"
    /\ UNCHANGED <<queue, bNextRequest, hostBack, client, asked, answers, peer, writable,
                   addrs, fails, drops, history>>
-----------------------------------------------------------------------------
(* TcpEpollClient::OnRun.                                                  *)

\* Not running, no event, or a failed wait.
PollIdle ==
    /\ pc = "poll"
    /\ pc' = "idle"
    /\ UNCHANGED <<queue, bNextRequest, onResponseCall, hostBack, link, writable, addrs,
                   fails, drops, history>>

Poll(in, out) ==
    /\ pc = "poll" /\ client = "run"
    /\ in \/ out
    /\ in => answers # << >> \/ ~peer
    /\ out => sendBuff # << >>
    /\ pc' = IF in THEN "recv" ELSE "send"
    /\ writable' = (in /\ out)
    /\ UNCHANGED <<queue, bNextRequest, onResponseCall, hostBack, link, addrs, fails, drops,
                   history>>

\* recv() returns data.
Recv ==
    /\ pc = "recv"
    /\ answers # << >>
    /\ pc' = "msg"
    /\ UNCHANGED <<queue, bNextRequest, onResponseCall, hostBack, link, writable, addrs,
                   fails, drops, history>>

\* recv() or send() reports the end of the connection.
LinkError(more) ==
    /\ pc \in {"recv", "send"}
    /\ ~peer
    /\ Close(more)
    /\ pc' = "idle"
    /\ writable' = FALSE
    /\ UNCHANGED <<hostBack, addrs, fails, drops>>

\* OnNetMsg with the answer in front: the callback, then the request in front
\* of the queue is removed, whichever it is by now.
Answered(more) ==
    /\ pc = "msg"
    /\ answers # << >>
    /\ CallBack(Head(answers).req, more)
    /\ queue' = IF Queued(more) = << >> THEN << >> ELSE Tail(Queued(more))
    /\ bNextRequest' = TRUE
    /\ UNCHANGED <<hostBack, addrs, fails, drops>>

OnNetMsg(more) ==
    /\ Answered(more)
    /\ Head(answers).keep
    /\ answers' = Tail(answers)
    /\ UNCHANGED <<client, sendBuff, asked, peer, pc, writable>>

\* An answer without keep-alive: DoMsg closes the client; no callback waits
\* any more.  OnRun goes on to read events[i], which Close has deleted, and
\* calls the deleted client if it finds EPOLLOUT there.
OnNetMsgClose(more) ==
    /\ Answered(more)
    /\ ~Head(answers).keep
    /\ client' = "none"
    /\ peer' = FALSE
    /\ DropBuffers
    /\ pc' \in {"idle", "crashed"}
    /\ writable' = FALSE

\* hasMsg finds no complete answer.
MsgEnd ==
    /\ pc = "msg"
    /\ pc' = IF writable THEN "send" ELSE "idle"
    /\ writable' = FALSE
    /\ UNCHANGED <<queue, bNextRequest, onResponseCall, hostBack, link, addrs, fails, drops,
                   history>>

\* send() takes all of the buffer, or less when a signal interrupts it.
Send ==
    /\ pc = "send"
    /\ \E n \in 0..Len(sendBuff) :
          /\ sendBuff' = SubSeq(sendBuff, n + 1, Len(sendBuff))
          /\ asked' = IF peer THEN asked \o SubSeq(sendBuff, 1, n) ELSE asked
    /\ pc' = "idle"
    /\ UNCHANGED <<queue, bNextRequest, onResponseCall, hostBack, client, answers, peer,
                   writable, addrs, fails, drops, history>>
-----------------------------------------------------------------------------
(* The server.                                                             *)

\* It answers; after an answer without keep-alive it may close at once.
Answer(keep) ==
    /\ peer /\ asked # << >>
    /\ answers' = Append(answers, [req |-> Head(asked), keep |-> keep])
    /\ asked' = Tail(asked)
    /\ peer' \in IF keep THEN {TRUE} ELSE BOOLEAN
    /\ UNCHANGED <<queue, bNextRequest, onResponseCall, hostBack, client, sendBuff, pc,
                   writable, addrs, fails, drops, history>>

ServerClose ==
    /\ peer
    /\ drops < MaxDrops /\ drops' = drops + 1
    /\ peer' = FALSE
    /\ UNCHANGED <<queue, bNextRequest, onResponseCall, hostBack, client, sendBuff, asked,
                   answers, pc, writable, addrs, fails, history>>
-----------------------------------------------------------------------------
\* The steps of OnRun.
OnRun ==
    \/ NextNone \/ NextDrop \/ NextTry \/ SkipAddress \/ Request
    \/ PollIdle \/ Recv \/ MsgEnd \/ Send
    \/ \E in, out \in BOOLEAN : Poll(in, out)
    \/ \E more \in Hosts \cup {NoHost} :
          \/ Connect(more)
          \/ \E result \in {"none", "made"} : ConnectFail(result, more)
          \/ LinkError(more) \/ OnNetMsg(more) \/ OnNetMsgClose(more)

Next ==
    \/ \E h \in Hosts : get(h)
    \/ OnRun
    \/ \E keep \in BOOLEAN : Answer(keep)
    \/ ServerClose

\* OnRun is called again and again; the server answers; what is there to be
\* read or sent is reported some time, and an answer is complete some time.
Fairness ==
    /\ WF_vars(OnRun)
    /\ WF_vars(\E keep \in BOOLEAN : Answer(keep))
    /\ SF_vars(\E out \in BOOLEAN : Poll(TRUE, out))
    /\ SF_vars(\E in \in BOOLEAN : Poll(in, TRUE))
    /\ SF_vars(\E more \in Hosts \cup {NoHost} : OnNetMsg(more) \/ OnNetMsgClose(more))
    /\ SF_vars(Send /\ sendBuff' # sendBuff)

Spec == Init /\ [][Next]_vars
FairSpec == Spec /\ Fairness
-----------------------------------------------------------------------------
(* Properties.                                                             *)

\* Types; the send buffer never holds more than its size.
TypeOK ==
    /\ queue \in Seq([req : Nat \ {0}, questCount : 0..maxQuestCount])
    /\ bNextRequest \in BOOLEAN
    /\ onResponseCall \in Nat
    /\ hostBack \in Hosts \cup {NoHost}
    /\ client \in {"none", "made", "run"}
    /\ sendBuff \in Seq(Nat \ {0}) /\ Len(sendBuff) <= SendSlots
    /\ asked \in Seq(Nat \ {0})
    /\ answers \in Seq([req : Nat \ {0}, keep : BOOLEAN])
    /\ peer \in BOOLEAN
    /\ pc \in ThreadState
    /\ writable \in BOOLEAN
    /\ addrs \in 0..MaxAddrs
    /\ fails \in 0..MaxFails /\ drops \in 0..MaxDrops
    /\ hosts \in Seq(Hosts)
    /\ calls \in Seq((Nat \ {0}) \X Nat)
    /\ overlap \in BOOLEAN

\* Every callback is called at most once, and the callbacks in the order of
\* the requests, whatever is dropped, closed or issued meanwhile.
CallsInOrder ==
    \A i, j \in DOMAIN calls : i < j => calls[i][1] < calls[j][1]

\* What goes over a connection was meant for the server it leads to, also
\* after failed attempts to connect to another one.
RightServer ==
    /\ \A i \in DOMAIN sendBuff : hosts[sendBuff[i]] = hostBack
    /\ \A i \in DOMAIN asked : hosts[asked[i]] = hostBack
    /\ \A i \in DOMAIN answers : hosts[answers[i].req] = hostBack

\* A program that issues a request only when it waits for no other gets its
\* own answer in each callback, or nullptr, whatever closes and reconnects.
OwnAnswer ==
    ~overlap => \A i \in DOMAIN calls : calls[i][2] \in {calls[i][1], NoReq}

\* A request that still has a future: its callback has been called or waits,
\* or it is still to be tried, or is being tried.
Kept(r) ==
    \/ r \in Called
    \/ r = onResponseCall
    \/ \E i \in DOMAIN queue :
          /\ queue[i].req = r
          /\ \/ queue[i].questCount = 0
             \/ i = 1 /\ pc \in {"connect", "request"}

Lost(r) == r \in Issued /\ ~Kept(r)

\* Another request is sent while r's callback waits, and takes its place.
Overtaken(r) == Request /\ r = onResponseCall /\ Front # r

\* r is tried, and no address of its server can be had.
NoAddress(r) == (NextTry \/ SkipAddress) /\ r = Front /\ pc' = "poll"

\* OnNetMsg takes r off the queue, in place of the request that was answered
\* and is no longer there, and r has not been tried.  It may be the request that
\* the callback has issued in this very step.
PoppedUntried(r) ==
    /\ \E more \in Hosts \cup {NoHost} : OnNetMsg(more) \/ OnNetMsgClose(more)
    /\ IF queue = << >> THEN r = Len(hosts) + 1
       ELSE r = Front /\ Head(queue).questCount = 0

LossOK ==
    \A r \in Issued' :
        Lost(r)' => Lost(r) \/ Overtaken(r) \/ NoAddress(r) \/ PoppedUntried(r)

\* Whatever program, servers and network do, a request loses its future in one
\* of three ways and in no other: the next request takes the place of its
\* callback (TcpHttpClient.hpp:88, 119, 247), no address of its server can be
\* had (219), or OnNetMsg pops it untried for an answer that was not its own
\* (63).  A closed connection, a refused SendData or connect(), and the drop in
\* nextRequest lose none.
LossKnown == [][LossOK]_vars

OneHost == \A i, j \in Issued : hosts[i] = hosts[j]

\* No request is forgotten while one is issued at a time, to one server that
\* can be reached, though the server may close as it likes.
NothingLost ==
    ~overlap /\ OneHost /\ fails = 0 => \A r \in Issued : Kept(r)

\* In the same case each callback is called some time, with the answer or with
\* nullptr, unless the process dies of the use after Close.
CallbackComes ==
    \A r \in Requests :
        r \in Issued ~> \/ r \in Called
                        \/ overlap \/ ~OneHost \/ fails > 0 \/ pc = "crashed"

\* As the comment in nextRequest has it, a request is given up only after an
\* error: not as long as every connection succeeds and stays open.
GivenUpAfterError ==
    fails = 0 /\ drops = 0 => \A r \in Issued : Kept(r)
===============================================================================
