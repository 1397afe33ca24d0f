----------------------------- MODULE HttpConnection -----------------------------
(***************************************************************************)
(* One connection to the HTTP server: HttpClientS, TcpHttpServer and       *)
(* MyServer (HttpServer/server.cpp) over a round of a cell, with the       *)
(* timers of Client.hpp, and at the other end the recognition of an answer *)
(* in HttpClientC.                                                         *)
(*                                                                         *)
(* A text is a sequence of units: a word of its first line, a header, the  *)
(* end of a line, a body.  TCP may cut a text between any two units.  A    *)
(* text ends with an empty line and the body its Content-Length announces. *)
(* Parsing a request writes ends of strings ("nul") over the ends of lines *)
(* of all that has been received, also of what belongs to the next request *)
(* (SplitString.hpp), and the search for an empty line stops at a nul.     *)
(* What lies in the buffer behind the data has no end of line left that    *)
(* was not overwritten so, and does not appear here.                       *)
(*                                                                         *)
(* The kernel takes at most WireSize units of answers; that the cell waits *)
(* inside send() is the subject of MsgStream.                              *)
(***************************************************************************)
EXTENDS Integers, Sequences

CONSTANTS
    Polite,     \* well formed requests, see WellFormed
    Odd,        \* requests of other clients, which may be anything
    Modes,      \* the values of <<manner, timed>> considered
    MinLen,     \* the least length of a text, 20 bytes in the code
    SendSize,   \* _nSize of the send buffer of the server
    RecvSize,   \* _nSize of the receive buffers of both ends
    WireSize,   \* units of answers the kernel holds
    DeadTime,   \* CLIENT_HREAT_DEAD_TIME
    MaxDt,      \* bound: the time a round takes
    MaxReq      \* bound: requests a client sends

\* serial: polite, asks again only after the answer (HttpRequests.tla); eager:
\* polite, does not wait; odd: sends what it likes when it likes.
MannerSet == {"serial", "eager", "odd"}

Kinds == {"GET", "POST", "PUT", "HTTP", "args", "eol", "keep", "close", "host", "len",
          "body", "nul"}

\* n is the path (1 for /add) or the status of a first line, the value of args
\* and body, and the number a Content-Length announces.
Unit == [t : Kinds, n : Int]
U(t, n) == [t |-> t, n |-> n]
-----------------------------------------------------------------------------
(* Recognition of a text: checkHttpRequest and checkHttpResponse.          *)

\* What the string functions see of the buffer.
Seen(b) == {i \in 1..Len(b) : \A j \in 1..i : b[j].t # "nul"}

\* Where empty lines end, and where lengths are announced, in a body as well.
Blanks(b) == {i \in Seen(b) : i > 1 /\ b[i].t = "eol" /\ b[i - 1].t = "eol"}
Lengths(b) == {i \in Seen(b) : b[i].t = "len"}

Least(S) == CHOOSE i \in S : \A j \in S : i <= j
HeaderLen(b) == Least(Blanks(b))
BodyLen(b) == IF b[1].t = "GET" THEN 0 ELSE b[Least(Lengths(b))].n
TextLen(b) == HeaderLen(b) + BodyLen(b)

Headed(b) == Len(b) >= MinLen /\ Blanks(b) # {}

\* The end of a line is behind the length announced.  Anything else in between
\* makes it longer than the six digits accepted.
NumberEnds(b) ==
    LET l == Least(Lengths(b)) IN l + 1 \in Seen(b) /\ b[l + 1].t = "eol"

\* The text has a length, and one the buffer could hold.
Measured(b) ==
    \/ b[1].t = "GET"
    \/ /\ Lengths(b) # {} /\ NumberEnds(b)
       /\ BodyLen(b) >= 0 /\ TextLen(b) <= RecvSize

\* Variant of Whole with the comparison off by one.
WholeLess(b, kinds) ==
    Headed(b) /\ b[1].t \in kinds /\ Measured(b) /\ TextLen(b) <= Len(b) + 1

Whole(b, kinds) ==
    Headed(b) /\ b[1].t \in kinds /\ Measured(b) /\ TextLen(b) <= Len(b)

HasRequest(b) == Whole(b, {"GET", "POST"})
HasAnswer(b) == Whole(b, {"HTTP"})

\* checkHttpRequest returns -1 or -2.
BadRequest(b) == Headed(b) /\ ~(b[1].t \in {"GET", "POST"} /\ Measured(b))
-----------------------------------------------------------------------------
(* A request is parsed and answered: getRequestInfo, OnNetMsgHttp.         *)

Front(b) == SubSeq(b, 1, TextLen(b))
Behind(b) == SubSeq(b, TextLen(b) + 1, Len(b))

\* No end of a line between positions i and j.
SameLine(b, i, j) == \A k \in i..j : b[k].t # "eol"

\* The arguments splitUrlArgs sees: those of the first line and, if there is a
\* body, those of the text from the body to the next end of a line.
Arguments(b) ==
    {i \in Seen(b) : /\ b[i].t \in {"args", "body"}
                     /\ \/ SameLine(b, 1, i)
                        \/ BodyLen(b) > 0 /\ i > HeaderLen(b)
                           /\ SameLine(b, HeaderLen(b) + 1, i)}

\* A later argument replaces an earlier one in _args_map.
Value(b) ==
    IF Arguments(b) = {} THEN 0
    ELSE b[CHOOSE i \in Arguments(b) : \A j \in Arguments(b) : i >= j].n

\* writeResponse announces the body and always says Keep-Alive.
Header(status) == <<U("HTTP", status), U("eol", 0), U("len", 1), U("eol", 0), U("eol", 0)>>
Body(n) == <<U("body", n)>>

Status(b) == IF b[1].n = 1 THEN 200 ELSE 404
Content(b) == IF b[1].n = 1 THEN Value(b) ELSE 0
AnswerTo(b) == Header(Status(b)) \o Body(Content(b))

\* The last Connection header of all that is seen decides.
Connections(b) == {i \in Seen(b) : b[i].t \in {"keep", "close"}}
Keeps(b) == \E i \in Connections(b) : b[i].t = "keep" /\ \A j \in Connections(b) : j <= i

\* What parsing does to the next request: every end of a line is overwritten
\* and, after a body, also what separates arguments in the first line.
Split(b, withBody) ==
    [i \in 1..Len(b) |->
        IF b[i].t = "eol" \/ (withBody /\ b[i].t = "args" /\ SameLine(b, 1, i))
        THEN U("nul", 0) ELSE b[i]]

\* Variant of Fits that only asks whether there is any room.
FitsSome(b, text) == Len(b) < SendSize

\* Variant of Fits with the comparison of canWrite.
FitsLess(b, text) == Len(b) + Len(text) < SendSize

\* The test of Buffer::push.
Fits(b, text) == Len(b) + Len(text) <= SendSize

\* Client::SendData: all of the text or, when it does not fit, nothing.
Pushed(b, text) == IF Fits(b, text) THEN b \o text ELSE b

\* writeResponse pushes the header and the body one after the other.
Written(b, status, n) == Pushed(Pushed(b, Header(status)), Body(n))
-----------------------------------------------------------------------------
WellFormed(r) ==
    /\ r \in Seq(Unit)
    /\ \A i \in 1..Len(r) : r[i].t # "nul"
    /\ HasRequest(r) /\ Len(r) = TextLen(r)
    /\ Len(r) <= RecvSize
    /\ r[1].t = "POST" => Least(Lengths(r)) < HeaderLen(r)

ASSUME SizesAssumption ==
    /\ MinLen \in 2..6 /\ SendSize \in Nat /\ RecvSize \in Nat /\ WireSize \in Nat \ {0}
    /\ SendSize >= 6 /\ RecvSize >= 6
ASSUME PoliteAssumption == \A r \in Polite : WellFormed(r)
ASSUME OddAssumption == Odd \subseteq Seq(Unit)
ASSUME ModesAssumption == Modes \subseteq MannerSet \X BOOLEAN
ASSUME HeartAssumption == DeadTime \in Nat \ {0} /\ MaxDt \in Nat /\ MaxReq \in Nat

VARIABLES
    manner,     \* which kind of client it is
    timed,      \* whether time passes: if not, no timer ever runs out
    pc,         \* where the cell stands, see CellState
    writable,   \* the poll also reported the socket writable
    up,         \* sent by the client and not received
    recvBuff,   \* _recvBuff of the server
    sendBuff,   \* _sendBuff of the server
    down,       \* sent by the server and not received
    clientBuff, \* _recvBuff of the client
    clientOpen, \* the socket of the client is open
    keepalive,  \* _keepalive
    closing,    \* isClose
    dtHeart,    \* _dtHeart
    ended,      \* history: the cell has left its loop, see LoopEnds
    asked,      \* history: the requests the client has sent
    handled,    \* history: the requests answered so far
    taken       \* history: the answers the client has taken

modes == <<manner, timed>>
clientVars == <<clientBuff, clientOpen, asked, taken>>
flags == <<keepalive, closing, dtHeart, handled>>
vars == <<modes, pc, writable, up, recvBuff, sendBuff, down, clientVars, flags, ended>>

\* check: CheckTime; poll, recv, send: DoNetEvents; msg: DoMsg; gone: the
\* Client is deleted.
CellState == {"check", "poll", "recv", "send", "msg", "gone"}

Init ==
    /\ \E mode \in Modes : manner = mode[1] /\ timed = mode[2]
    /\ pc = "check"
    /\ writable = FALSE
    /\ up = << >> /\ recvBuff = << >> /\ sendBuff = << >> /\ down = << >>
    /\ clientBuff = << >>
    /\ clientOpen = TRUE
    /\ keepalive = TRUE
    /\ closing = FALSE
    /\ dtHeart = 0
    /\ ended = FALSE
    /\ asked = << >>
    /\ handled = 0
    /\ taken = << >>
-----------------------------------------------------------------------------
(* The client.                                                             *)

Ask(r) ==
    /\ clientOpen
    /\ Len(asked) < MaxReq
    /\ r \in IF manner = "odd" THEN Odd ELSE Polite
    /\ manner = "serial" => Len(taken) = Len(asked)
    /\ asked' = Append(asked, r)
    /\ up' = IF pc = "gone" THEN up ELSE up \o r
    /\ UNCHANGED <<modes, ended, pc, writable, recvBuff, sendBuff, down,
                   clientBuff, clientOpen, taken, flags>>

\* read4socket of the client, after its DoMsg has taken every whole answer.  An
\* odd client is not an HttpClientC, and drops what it reads.
ClientRecv ==
    /\ clientOpen
    /\ ~HasAnswer(clientBuff)
    /\ \E n \in 1..Len(down) :
          /\ Len(clientBuff) + n <= RecvSize
          /\ clientBuff' = IF manner = "odd" THEN << >>
                           ELSE clientBuff \o SubSeq(down, 1, n)
          /\ down' = SubSeq(down, n + 1, Len(down))
    /\ UNCHANGED <<modes, ended, pc, writable, up, recvBuff, sendBuff,
                   clientOpen, asked, taken, flags>>

\* Variant of ClientTake that does not pop the answer.
ClientTakeKeeps ==
    /\ clientOpen
    /\ HasAnswer(clientBuff)
    /\ Len(taken) < MaxReq
    /\ taken' = Append(taken, Front(clientBuff))
    /\ UNCHANGED <<modes, ended, pc, writable, up, recvBuff, sendBuff, down,
                   clientBuff, clientOpen, asked, flags>>

\* An answer is handled and popped.  The client ends the string behind the
\* header of the answer, so it leaves the next answer alone.
ClientTake ==
    /\ clientOpen
    /\ HasAnswer(clientBuff)
    /\ taken' = Append(taken, Front(clientBuff))
    /\ clientBuff' = Behind(clientBuff)
    /\ UNCHANGED <<modes, ended, pc, writable, up, recvBuff, sendBuff, down,
                   clientOpen, asked, flags>>

ClientClose ==
    /\ clientOpen
    /\ clientOpen' = FALSE
    /\ clientBuff' = << >>
    /\ down' = << >>
    /\ UNCHANGED <<modes, ended, pc, writable, up, recvBuff, sendBuff, asked,
                   taken, flags>>
-----------------------------------------------------------------------------
(* The cell.                                                               *)

\* The cell deletes the Client.  What has been sent still arrives, unless
\* requests lie unread: then the kernel resets the connection.
Remove ==
    /\ pc' = "gone"
    /\ writable' = FALSE
    /\ up' = << >> /\ recvBuff' = << >> /\ sendBuff' = << >>
    /\ \E n \in 0..Len(down) :
          /\ up = << >> => n = Len(down)
          /\ down' = SubSeq(down, 1, n)

\* CheckTime charges the time of the round, and removes a client that is
\* closed or has been silent too long.
CheckTime(dt) ==
    /\ pc = "check"
    /\ dt > 0 => timed
    /\ dtHeart' = IF closing THEN dtHeart ELSE dtHeart + dt
    /\ IF closing \/ dtHeart + dt >= DeadTime
       THEN Remove
       ELSE pc' = "poll" /\ UNCHANGED <<writable, up, recvBuff, sendBuff, down>>
    /\ UNCHANGED <<modes, ended, clientVars, keepalive, closing, handled>>

\* The cell leaves its loop, at the test because the server is being closed or
\* after a wait that fails, and ClearClients deletes the Client.
LoopEnds ==
    /\ pc \in {"check", "poll"}
    /\ ended' = TRUE
    /\ Remove
    /\ UNCHANGED <<modes, clientVars, flags>>

CanRead == up # << >> \/ ~clientOpen
CanWrite == sendBuff # << >> /\ (Len(down) < WireSize \/ ~clientOpen)

\* The poll; it may miss what is still on its way.
Poll(in, out) ==
    /\ pc = "poll"
    /\ in => CanRead
    /\ out => CanWrite
    /\ pc' = IF in THEN "recv" ELSE IF out THEN "send" ELSE "msg"
    /\ writable' = (in /\ out)
    /\ UNCHANGED <<modes, ended, up, recvBuff, sendBuff, down, clientVars,
                   flags>>

\* read4socket: some of what has come, or nothing when the buffer is full.
Recv ==
    /\ pc = "recv"
    /\ \E n \in 0..Len(up) :
          /\ Len(recvBuff) + n <= RecvSize
          /\ n = 0 => Len(recvBuff) = RecvSize
          /\ recvBuff' = recvBuff \o SubSeq(up, 1, n)
          /\ up' = SubSeq(up, n + 1, Len(up))
    /\ pc' = IF writable THEN "send" ELSE "msg"
    /\ writable' = FALSE
    /\ UNCHANGED <<modes, ended, sendBuff, down, clientVars, flags>>

\* Variant of Send that closes before everything is sent.
SendCloses ==
    /\ pc = "send"
    /\ clientOpen
    /\ \E n \in 1..Len(sendBuff) :
          /\ Len(down) + n <= WireSize
          /\ down' = down \o SubSeq(sendBuff, 1, n)
          /\ sendBuff' = SubSeq(sendBuff, n + 1, Len(sendBuff))
          /\ closing' = (closing \/ ~keepalive)
    /\ pc' = "msg"
    /\ UNCHANGED <<modes, ended, writable, up, recvBuff, clientVars, keepalive,
                   dtHeart, handled>>

\* SendDataReal: the kernel takes all, or a part when a signal interrupts it.
\* onSendComplete closes a connection that is not to be kept.
Send ==
    /\ pc = "send"
    /\ clientOpen
    /\ \E n \in 1..Len(sendBuff) :
          /\ Len(down) + n <= WireSize
          /\ down' = down \o SubSeq(sendBuff, 1, n)
          /\ sendBuff' = SubSeq(sendBuff, n + 1, Len(sendBuff))
          /\ closing' = (closing \/ (n = Len(sendBuff) /\ ~keepalive))
    /\ pc' = "msg"
    /\ UNCHANGED <<modes, ended, writable, up, recvBuff, clientVars, keepalive,
                   dtHeart, handled>>

\* recv() or send() reports that the client is gone.
SocketError ==
    /\ pc \in {"recv", "send"}
    /\ ~clientOpen
    /\ Remove
    /\ UNCHANGED <<modes, ended, clientVars, flags>>

\* OnNetMsg with the request in front of the buffer, which is then popped.
OnNetMsg ==
    /\ pc = "msg"
    /\ HasRequest(recvBuff)
    /\ keepalive' = Keeps(recvBuff)
    /\ dtHeart' = 0
    /\ sendBuff' = Written(sendBuff, Status(recvBuff), Content(recvBuff))
    /\ recvBuff' = Split(Behind(recvBuff), BodyLen(recvBuff) > 0)
    /\ handled' = handled + 1
    /\ UNCHANGED <<modes, ended, pc, writable, up, down, clientVars, closing>>

\* Variant of MsgEnd that resets the timer for a request it refuses.
MsgEndResets ==
    /\ pc = "msg"
    /\ ~HasRequest(recvBuff)
    /\ sendBuff' = IF BadRequest(recvBuff) THEN Written(sendBuff, 400, 0) ELSE sendBuff
    /\ dtHeart' = IF BadRequest(recvBuff) THEN 0 ELSE dtHeart
    /\ pc' = "check"
    /\ UNCHANGED <<modes, ended, writable, up, recvBuff, down, clientVars,
                   keepalive, closing, handled>>

\* hasMsg finds nothing to handle.  A request it cannot accept is refused, and
\* stays where it is, to be refused again in the next round.
MsgEnd ==
    /\ pc = "msg"
    /\ ~HasRequest(recvBuff)
    /\ sendBuff' = IF BadRequest(recvBuff) THEN Written(sendBuff, 400, 0) ELSE sendBuff
    /\ pc' = "check"
    /\ UNCHANGED <<modes, ended, writable, up, recvBuff, down, clientVars,
                   flags>>
-----------------------------------------------------------------------------
CellStep ==
    \/ \E dt \in 0..MaxDt : CheckTime(dt)
    \/ \E in, out \in BOOLEAN : Poll(in, out)
    \/ Recv \/ Send \/ SocketError \/ OnNetMsg \/ MsgEnd

Next ==
    \/ \E r \in Polite \union Odd : Ask(r)
    \/ ClientRecv \/ ClientTake \/ ClientClose
    \/ CellStep
    \/ LoopEnds

Spec == Init /\ [][Next]_vars

\* The cell's thread goes on as long as it is in its loop, which nothing need
\* make it leave: its other clients, if it has any, read what they are sent
\* (CellServer and MsgStream have those that do not).  So does the client's
\* thread.  The network delivers, so a poll that could report an event reports
\* it some time; and time passes.
Fairness ==
    /\ WF_vars(CellStep)
    /\ WF_vars(ClientRecv \/ ClientTake)
    /\ SF_vars(\E out \in BOOLEAN : Poll(TRUE, out))
    /\ SF_vars(\E in \in BOOLEAN : Poll(in, TRUE))
    /\ SF_vars(\E dt \in 1..MaxDt : CheckTime(dt))

FairSpec == Spec /\ Fairness
-----------------------------------------------------------------------------
(* Properties.                                                             *)

\* Types: no buffer holds more than its size, and of a deleted Client nothing
\* is left.
TypeOK ==
    /\ manner \in MannerSet /\ timed \in BOOLEAN
    /\ pc \in CellState /\ writable \in BOOLEAN
    /\ up \in Seq(Unit) /\ recvBuff \in Seq(Unit) /\ sendBuff \in Seq(Unit)
    /\ down \in Seq(Unit) /\ clientBuff \in Seq(Unit)
    /\ Len(recvBuff) <= RecvSize /\ Len(sendBuff) <= SendSize
    /\ Len(down) <= WireSize /\ Len(clientBuff) <= RecvSize
    /\ pc = "gone" => up = << >> /\ recvBuff = << >> /\ sendBuff = << >>
    /\ clientOpen \in BOOLEAN /\ keepalive \in BOOLEAN /\ closing \in BOOLEAN
    /\ dtHeart \in Nat /\ handled \in Nat /\ ended \in BOOLEAN
    /\ asked \in Seq(Polite \union Odd)
    /\ taken \in Seq(Seq(Unit))

\* The request a polite client waits for next is recognised exactly when all
\* of it has come, with its own length, however it was cut and whatever came
\* with it: never a part of it, never something that earlier parsing has torn
\* (HttpClientS.hpp:31-97, 99-156).
ExactlyWhole ==
    manner # "odd" =>
        LET due == handled < Len(asked)
            r == asked[handled + 1]
        IN  /\ HasRequest(recvBuff) <=>
                  due /\ Len(r) <= Len(recvBuff) /\ SubSeq(recvBuff, 1, Len(r)) = r
            /\ HasRequest(recvBuff) => TextLen(recvBuff) = Len(r)

\* The server closes a connection only when the whole answer is sent, to a
\* request that did not ask to keep it (HttpClientS.hpp:143-155, 334-340).
CloseAfterAnswer ==
    manner = "serial" /\ closing =>
        sendBuff = << >> /\ handled > 0 /\ ~Keeps(asked[handled])

\* To a client that asks one thing at a time the connection is a channel of
\* answers: what it takes are the answers to its requests, whole and in order.
Channel ==
    INSTANCE MsgChannel WITH
        Messages <- {AnswerTo(r) : r \in Polite},
        put <- IF manner = "serial" THEN [i \in 1..handled |-> AnswerTo(asked[i])] ELSE << >>,
        got <- IF manner = "serial" THEN taken ELSE << >>
AnswersInOrder == Channel!Spec

\* Such a client gets an answer to what it asks, unless it closes, an earlier
\* request did not ask to keep the connection, or the cell leaves its loop,
\* whose ClearClients deletes clients with their answers unsent (the timers
\* aside; HttpClientS.hpp:28-40, 246-270, Server.hpp:51-89).
AnswerComes ==
    \A i \in 1..MaxReq :
        (manner = "serial" /\ ~timed /\ Len(asked) >= i) ~>
            (Len(taken) >= i \/ ~clientOpen \/ (pc = "gone" /\ (~keepalive \/ ended)))

\* A connection the server cannot go on with, because what is in front of its
\* buffer is refused, torn, too short or too long, is given up: either another
\* request is recognised or the client is removed (HttpClientS.hpp:28-40,
\* Client.hpp:135-148).
StuckRemoved == timed ~> (HasRequest(recvBuff) \/ pc = "gone")
===============================================================================
