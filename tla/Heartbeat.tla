------------------------------- MODULE Heartbeat -------------------------------
(***************************************************************************)
(* The heartbeat of one cell: how Server::OnRun and CheckTime (Server.hpp) *)
(* charge the time that passes to its clients, and remove one whose timer  *)
(* reaches CLIENT_HREAT_DEAD_TIME (Client.hpp).                            *)
(*                                                                         *)
(* The cell reads the clock once a round and charges every client of its   *)
(* map the time since it last did, whatever happened to the client in      *)
(* between: one that joined a moment ago pays for time before it existed,  *)
(* one that waited in the buffer during a round does not pay for that, and *)
(* a message counts when it is handled, a round after it came at worst.    *)
(* A message is one that resets the timer: Login or Heart at the echo      *)
(* server, a whole request at the HTTP server.                             *)
(*                                                                         *)
(* The clock may advance between any two steps.  It is taken not to go     *)
(* back.  The history variables (lastSent, gap, lastHeard, looked,         *)
(* longest) record what the properties speak of; no guard reads them.      *)
(***************************************************************************)
EXTENDS Integers

CONSTANTS
    Clients,    \* the clients followed; the cell may have others
    DeadTime,   \* CLIENT_HREAT_DEAD_TIME
    MaxTime,    \* bound: the clock stops here
    MaxFaults   \* bound: interrupted polls

ASSUME DeadTimeAssumption == DeadTime \in Nat \ {0}
ASSUME TimeBoundsAssumption == MaxTime \in Nat /\ MaxFaults \in Nat

VARIABLES
    now,        \* Time::getNowInMilliSec
    oldTime,    \* _oldTime
    pc,         \* where the thread of the cell stands, see CellState
    ready,      \* clients with a read event not handled yet
    faults,     \* polls interrupted so far
    conn,       \* per client: see ConnState
    closed,     \* per client: isClose
    dtHeart,    \* per client: _dtHeart
    unread,     \* per client: when the messages in its socket came
    inBuff,     \* per client: its receive buffer holds a message
    lastSent,   \* history: when its last message came, at first its creation
    gap,        \* history: the longest time between two of its messages
    lastHeard,  \* history: its last resetDTHeart, at first its creation
    looked,     \* history: the CheckTime of the last round that polled it
    longest     \* history: the longest time _oldTime went without refresh

cell == <<oldTime, pc, ready, faults, longest>>
messages == <<unread, inBuff, lastSent, gap>>
vars == <<now, cell, conn, closed, dtHeart, messages, lastHeard, looked>>

\* top: the loop test; idle: Sleep; check: CheckTime; poll, recv: DoNetEvents;
\* msg: DoMsg.
CellState == {"top", "idle", "check", "poll", "recv", "msg"}

\* out: not connected; buffered: in _clientsBuff; joined: in _clients; expired:
\* removed for its timer; left: removed for another reason.
ConnState == {"out", "buffered", "joined", "expired", "left"}

Joined == {c \in Clients : conn[c] = "joined"}
Larger(m, n) == IF m >= n THEN m ELSE n

Init ==
    /\ now = 0 /\ oldTime = 0 /\ longest = 0
    /\ pc = "top"
    /\ ready = {}
    /\ faults = 0
    /\ conn = [c \in Clients |-> "out"]
    /\ closed = [c \in Clients |-> FALSE]
    /\ dtHeart = [c \in Clients |-> 0]
    /\ unread = [c \in Clients |-> {}]
    /\ inBuff = [c \in Clients |-> FALSE]
    /\ lastSent = [c \in Clients |-> 0]
    /\ gap = [c \in Clients |-> 0]
    /\ lastHeard = [c \in Clients |-> 0]
    /\ looked = [c \in Clients |-> 0]
-----------------------------------------------------------------------------
(* The clock and the clients.                                              *)

Tick ==
    /\ now < MaxTime
    /\ now' = now + 1
    /\ UNCHANGED <<cell, conn, closed, dtHeart, messages, lastHeard, looked>>

\* The accept thread makes the Client, which resets its timer, and puts it
\* into the buffer of the cell.
AddClient(c) ==
    /\ conn[c] = "out"
    /\ conn' = [conn EXCEPT ![c] = "buffered"]
    /\ dtHeart' = [dtHeart EXCEPT ![c] = 0]
    /\ lastSent' = [lastSent EXCEPT ![c] = now]
    /\ lastHeard' = [lastHeard EXCEPT ![c] = now]
    /\ looked' = [looked EXCEPT ![c] = now]
    /\ UNCHANGED <<now, cell, closed, unread, inBuff, gap>>

\* A message of the client comes to its socket.
Send(c) ==
    /\ conn[c] \in {"buffered", "joined"}
    /\ unread' = [unread EXCEPT ![c] = @ \union {now}]
    /\ gap' = [gap EXCEPT ![c] = Larger(@, now - lastSent[c])]
    /\ lastSent' = [lastSent EXCEPT ![c] = now]
    /\ UNCHANGED <<now, cell, conn, closed, dtHeart, inBuff, lastHeard, looked>>
-----------------------------------------------------------------------------
(* The cell: a round of Server::OnRun.                                     *)

\* The whole buffer into the map; a cell without clients skips the round.  A
\* client matters to another only here, so it may be one that is not followed.
Top ==
    /\ pc = "top"
    /\ conn' = [c \in Clients |-> IF conn[c] = "buffered" THEN "joined" ELSE conn[c]]
    /\ \/ pc' = "check"
       \/ pc' = "idle" /\ \A c \in Clients : conn[c] \notin {"buffered", "joined"}
    /\ UNCHANGED <<now, oldTime, ready, faults, longest, closed, dtHeart, messages,
                   lastHeard, looked>>

\* _oldTime is read again, here and in CheckTime.
Refresh ==
    /\ oldTime' = now
    /\ longest' = Larger(longest, now - oldTime)

\* Sleep(1) has returned.
Idle ==
    /\ pc = "idle"
    /\ Refresh
    /\ pc' = "top"
    /\ UNCHANGED <<now, ready, faults, conn, closed, dtHeart, messages, lastHeard, looked>>

\* Variant of Dead that asks for more than the limit.
DeadLater(c, dt) == dtHeart[c] + dt > DeadTime

\* checkHeart: the timer, charged dt, has reached the limit.
Dead(c, dt) == dtHeart[c] + dt >= DeadTime

\* CheckTime: a closed client is removed whatever its timer says.
CheckTime ==
    LET dt == now - oldTime IN
    /\ pc = "check"
    /\ conn' = [c \in Clients |-> IF conn[c] # "joined" THEN conn[c]
                                  ELSE IF closed[c] THEN "left"
                                  ELSE IF Dead(c, dt) THEN "expired"
                                  ELSE "joined"]
    /\ dtHeart' = [c \in Clients |-> IF conn[c] = "joined" /\ ~closed[c]
                                     THEN dtHeart[c] + dt ELSE dtHeart[c]]
    /\ Refresh
    /\ pc' = "poll"
    /\ UNCHANGED <<now, ready, faults, closed, messages, lastHeard, looked>>

\* The poll looks at every client of the map and reports those with unread
\* messages.
Poll ==
    /\ pc = "poll"
    /\ ready' = {c \in Joined : unread[c] # {}}
    /\ looked' = [c \in Clients |-> IF conn[c] = "joined" THEN oldTime ELSE looked[c]]
    /\ pc' = "recv"
    /\ UNCHANGED <<now, oldTime, faults, longest, conn, closed, dtHeart, messages,
                   lastHeard>>

\* select was interrupted (EINTR): DoNetEvents returns true with nothing done.
PollInterrupted ==
    /\ pc = "poll"
    /\ faults < MaxFaults
    /\ faults' = faults + 1
    /\ pc' = "msg"
    /\ UNCHANGED <<now, oldTime, ready, longest, conn, closed, dtHeart, messages,
                   lastHeard, looked>>

\* RecvData: what the socket holds, or the older part of it.  A message fits
\* into the buffer, which holds no whole message before (MsgStream.tla).
Recv(c) ==
    /\ pc = "recv"
    /\ c \in ready
    /\ ready' = ready \ {c}
    /\ \E last \in unread[c] :
          unread' = [unread EXCEPT ![c] = {t \in @ : t > last}]
    /\ inBuff' = [inBuff EXCEPT ![c] = TRUE]
    /\ UNCHANGED <<now, oldTime, pc, faults, longest, conn, closed, dtHeart, lastSent,
                   gap, lastHeard, looked>>

\* A recv() or send() of the client fails: it is removed.
SocketError(c) ==
    /\ pc = "recv"
    /\ conn[c] = "joined"
    /\ conn' = [conn EXCEPT ![c] = "left"]
    /\ ready' = ready \ {c}
    /\ UNCHANGED <<now, oldTime, pc, faults, longest, closed, dtHeart, messages,
                   lastHeard, looked>>

\* onSendComplete of an HTTP client that did not ask to be kept: onClose.
OnClose(c) ==
    /\ pc = "recv"
    /\ conn[c] = "joined"
    /\ ~closed[c]
    /\ closed' = [closed EXCEPT ![c] = TRUE]
    /\ UNCHANGED <<now, cell, conn, dtHeart, messages, lastHeard, looked>>

NetDone ==
    /\ pc = "recv"
    /\ ready = {}
    /\ pc' = "msg"
    /\ UNCHANGED <<now, oldTime, ready, faults, longest, conn, closed, dtHeart, messages,
                   lastHeard, looked>>

\* Variant of OnNetMsg that does not reset the timer.
OnNetMsgSilent(c) ==
    /\ pc = "msg"
    /\ conn[c] = "joined"
    /\ inBuff[c]
    /\ lastHeard' = [lastHeard EXCEPT ![c] = now]
    /\ inBuff' = [inBuff EXCEPT ![c] = FALSE]
    /\ UNCHANGED <<now, cell, conn, closed, dtHeart, unread, lastSent, gap, looked>>

\* OnNetMsg resets the timer, for all the messages in the buffer.
OnNetMsg(c) ==
    /\ pc = "msg"
    /\ conn[c] = "joined"
    /\ inBuff[c]
    /\ dtHeart' = [dtHeart EXCEPT ![c] = 0]
    /\ lastHeard' = [lastHeard EXCEPT ![c] = now]
    /\ inBuff' = [inBuff EXCEPT ![c] = FALSE]
    /\ UNCHANGED <<now, cell, conn, closed, unread, lastSent, gap, looked>>

MsgDone ==
    /\ pc = "msg"
    /\ \A c \in Joined : ~inBuff[c]
    /\ pc' = "top"
    /\ UNCHANGED <<now, oldTime, ready, faults, longest, conn, closed, dtHeart, messages,
                   lastHeard, looked>>
-----------------------------------------------------------------------------
Next ==
    \/ Tick
    \/ \E c \in Clients :
          \/ AddClient(c) \/ Send(c)
          \/ Recv(c) \/ SocketError(c) \/ OnClose(c) \/ OnNetMsg(c)
    \/ Top \/ Idle \/ CheckTime \/ Poll \/ PollInterrupted \/ NetDone \/ MsgDone

Spec == Init /\ [][Next]_vars
-----------------------------------------------------------------------------
(* Properties.                                                             *)

\* Types; the clock is never behind what was read from it, and a timer that
\* has reached the limit is never kept (Client.hpp:135-148).
TypeOK ==
    /\ now \in Nat /\ oldTime \in 0..now /\ longest \in 0..now
    /\ pc \in CellState
    /\ ready \subseteq Joined
    /\ faults \in 0..MaxFaults
    /\ conn \in [Clients -> ConnState]
    /\ closed \in [Clients -> BOOLEAN]
    /\ dtHeart \in [Clients -> Nat]
    /\ \A c \in Clients : conn[c] \in {"buffered", "joined"} => dtHeart[c] < DeadTime
    /\ unread \in [Clients -> SUBSET (0..now)]
    /\ inBuff \in [Clients -> BOOLEAN]
    /\ lastSent \in [Clients -> 0..now]
    /\ gap \in [Clients -> Nat]
    /\ lastHeard \in [Clients -> 0..now]
    /\ looked \in [Clients -> 0..now]

\* A client that keeps sending is kept.  One removed for its timer was silent,
\* now or between two messages, for nearly the limit: all that can be missing
\* is one round, charged too much, and the time since the round that last
\* polled it, when what it sent was not read yet (Server.hpp:51-120).
RegularStays ==
    [][\A c \in Clients : conn[c] # "expired" /\ conn'[c] = "expired" =>
          Larger(gap[c], now - lastSent[c]) + longest' + (now - looked[c]) >= DeadTime]_vars

\* A silent client goes.  One that is still in the map has been heard of less
\* than the limit before the cell last looked at the clock, give or take the
\* one round it may have spent in the buffer (Server.hpp:51-120).
SilentRemoved == \A c \in Joined : oldTime - lastHeard[c] < DeadTime + longest
===============================================================================
