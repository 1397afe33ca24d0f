---------------------------- MODULE HeartbeatProofs ----------------------------
(***************************************************************************)
(* Heartbeat.tla, for every set of clients, every limit and every passing  *)
(* of time: its types, that a client which keeps sending is kept, and that *)
(* a silent one goes.                                                      *)
(***************************************************************************)
EXTENDS Heartbeat, TLAPS

Live(c) == conn[c] \in {"buffered", "joined"}

\* What was reported is handled and what was read is answered within a round,
\* and the cell sleeps only when its map is empty.
RoundEnds ==
    /\ pc # "recv" => ready = {}
    /\ pc \notin {"recv", "msg"} => \A c \in Joined : ~inBuff[c]
    /\ pc = "idle" => Joined = {}

\* A client sends nothing before it connects.
OutBlank == \A c \in Clients : conn[c] = "out" => unread[c] = {} /\ ~inBuff[c]

\* A buffered client is new: its timer is still, and it has missed at most one
\* reading of the clock.
BufferedNew ==
    \A c \in Clients : conn[c] = "buffered" =>
        /\ dtHeart[c] = 0 /\ ~inBuff[c]
        /\ oldTime - lastHeard[c] <= longest
        /\ pc \in {"check", "idle"} => lastHeard[c] >= oldTime

\* The timer is at most the silence of the client and the round in which it
\* joined or was last heard.
ChargedAtMost ==
    \A c \in Clients : Live(c) =>
        \/ dtHeart[c] <= oldTime - lastHeard[c] + longest
        \/ dtHeart[c] <= now - lastHeard[c]

\* The timer is at least that silence less the round spent in the buffer.
ChargedAtLeast ==
    \A c \in Clients : conn[c] = "joined" => oldTime - lastHeard[c] <= dtHeart[c] + longest

\* A client none of whose messages wait was heard after the last of them.
AllHeard ==
    \A c \in Clients :
        Live(c) /\ unread[c] = {} /\ ~inBuff[c] => lastSent[c] <= lastHeard[c]

\* The oldest message that waits came within the gap after the last heard.
OldestWithinGap ==
    \A c \in Clients :
        Live(c) /\ unread[c] # {} /\ ~inBuff[c] =>
            \E t \in unread[c] : t <= lastHeard[c] + gap[c]

\* A message that waits came after the last poll, or one before it is being
\* handled, or has been since.
UnreadIsNew ==
    \A c \in Clients : \A t \in unread[c] : Live(c) =>
        t >= looked[c] \/ c \in ready \/ inBuff[c] \/ lastHeard[c] >= looked[c]

IInv ==
    /\ TypeOK
    /\ RoundEnds
    /\ OutBlank
    /\ BufferedNew
    /\ ChargedAtMost
    /\ ChargedAtLeast
    /\ AllHeard
    /\ OldestWithinGap
    /\ UnreadIsNew

USE DeadTimeAssumption, TimeBoundsAssumption

\* Larger is the maximum.
LEMMA LargerIs ==
  ASSUME NEW m \in Int, NEW n \in Int
  PROVE  Larger(m, n) \in Int /\ Larger(m, n) >= m /\ Larger(m, n) >= n
         /\ (Larger(m, n) = m \/ Larger(m, n) = n)
BY DEF Larger

\* The initial state: nobody is connected.
LEMMA InitIInv == Init => IInv
BY DEF Init, IInv, TypeOK, RoundEnds, OutBlank, BufferedNew, ChargedAtMost,
       ChargedAtLeast, AllHeard, OldestWithinGap, UnreadIsNew, Live, Joined, CellState, ConnState

\* Time passes.
LEMMA TickStep == IInv /\ Tick => IInv'
<1> SUFFICES ASSUME IInv, Tick PROVE IInv'
  OBVIOUS
<1> USE DEF Tick, cell, messages, IInv
<1>1. now \in Nat /\ now' = now + 1
  BY DEF TypeOK
<1>2. TypeOK'
  BY <1>1 DEF TypeOK, Joined
<1>3. /\ RoundEnds' /\ OutBlank' /\ BufferedNew' /\ ChargedAtLeast'
      /\ AllHeard' /\ OldestWithinGap' /\ UnreadIsNew'
  BY DEF RoundEnds, OutBlank, BufferedNew, ChargedAtLeast, AllHeard, OldestWithinGap, UnreadIsNew,
         Live, Joined
<1>4. ChargedAtMost'
  BY <1>1 DEF TypeOK, ChargedAtMost, Live
<1> QED
  BY <1>2, <1>3, <1>4

\* A client connects.
LEMMA AddClientStep == ASSUME IInv, NEW c \in Clients, AddClient(c) PROVE IInv'
<1> USE DEF AddClient, cell, IInv
<1>1. TypeOK'
  BY DEF TypeOK, Joined, ConnState
<1>2. /\ c \notin Joined /\ Joined' = Joined
      /\ \A d \in Clients : d # c =>
            /\ conn'[d] = conn[d] /\ dtHeart'[d] = dtHeart[d] /\ lastSent'[d] = lastSent[d]
            /\ lastHeard'[d] = lastHeard[d] /\ looked'[d] = looked[d]
      /\ conn'[c] = "buffered" /\ dtHeart'[c] = 0 /\ lastSent'[c] = now
      /\ lastHeard'[c] = now /\ looked'[c] = now
  BY DEF TypeOK, Joined
<1>3. RoundEnds' /\ OutBlank' /\ BufferedNew'
  BY <1>1, <1>2 DEF TypeOK, RoundEnds, OutBlank, BufferedNew
<1>4. ChargedAtMost' /\ ChargedAtLeast'
  BY <1>1, <1>2 DEF TypeOK, ChargedAtMost, ChargedAtLeast, Live
<1>5. AllHeard' /\ OldestWithinGap' /\ UnreadIsNew'
  BY <1>1, <1>2 DEF TypeOK, AllHeard, OldestWithinGap, UnreadIsNew, OutBlank, Live
<1> QED
  BY <1>1, <1>3, <1>4, <1>5

\* A message comes.
LEMMA SendStep == ASSUME IInv, NEW c \in Clients, Send(c) PROVE IInv'
<1> USE DEF Send, cell, IInv
<1>1. /\ \A d \in Clients : d # c =>
            unread'[d] = unread[d] /\ gap'[d] = gap[d] /\ lastSent'[d] = lastSent[d]
      /\ unread'[c] = unread[c] \union {now}
      /\ gap'[c] = Larger(gap[c], now - lastSent[c])
      /\ lastSent'[c] = now
      /\ conn[c] # "out"
  BY DEF TypeOK
<1>2. gap'[c] \in Nat /\ gap'[c] >= gap[c] /\ gap'[c] >= now - lastSent[c]
  <2>1. gap[c] \in Nat /\ now \in Nat /\ lastSent[c] \in 0..now
    BY DEF TypeOK
  <2>2. gap[c] \in Int /\ now - lastSent[c] \in Int
    BY <2>1
  <2>3. /\ Larger(gap[c], now - lastSent[c]) \in Int
        /\ Larger(gap[c], now - lastSent[c]) >= gap[c]
        /\ Larger(gap[c], now - lastSent[c]) >= now - lastSent[c]
    BY <2>2, LargerIs
  <2> QED
    BY <1>1, <2>1, <2>3
<1>3. TypeOK'
  <2>1. gap' \in [Clients -> Nat]
    BY <1>1, <1>2 DEF TypeOK
  <2>2. unread' \in [Clients -> SUBSET (0..now)] /\ lastSent' \in [Clients -> 0..now]
    BY DEF TypeOK
  <2> QED
    BY <2>1, <2>2 DEF TypeOK, Joined
<1>4. RoundEnds' /\ OutBlank' /\ BufferedNew' /\ ChargedAtMost' /\ ChargedAtLeast'
  BY <1>1 DEF RoundEnds, OutBlank, BufferedNew, ChargedAtMost, ChargedAtLeast, Live, Joined
<1>5. AllHeard'
  BY <1>1 DEF AllHeard, Live
<1>6. OldestWithinGap'
  <2> SUFFICES ASSUME NEW d \in Clients, Live(d), unread'[d] # {}, ~inBuff[d]
               PROVE  \E t \in unread'[d] : t <= lastHeard[d] + gap'[d]
    BY DEF OldestWithinGap, Live
  <2>1. CASE d # c
    BY <1>1, <2>1 DEF OldestWithinGap
  <2>2. CASE d = c /\ unread[c] = {}
    <3>1. lastSent[c] <= lastHeard[c]
      BY <2>2 DEF AllHeard
    <3>2. now <= lastHeard[c] + gap'[c]
      BY <1>2, <3>1 DEF TypeOK
    <3> QED
      BY <1>1, <2>2, <3>2
  <2>3. CASE d = c /\ unread[c] # {}
    <3>1. PICK t \in unread[c] : t <= lastHeard[c] + gap[c]
      BY <2>3 DEF OldestWithinGap
    <3>2. t <= lastHeard[c] + gap'[c]
      BY <1>2, <3>1 DEF TypeOK
    <3> QED
      BY <1>1, <2>3, <3>2
  <2> QED
    BY <2>1, <2>2, <2>3
<1>7. UnreadIsNew'
  BY <1>1 DEF TypeOK, UnreadIsNew, Live
<1> QED
  BY <1>3, <1>4, <1>5, <1>6, <1>7

\* The buffer is moved into the map.
LEMMA TopStep == IInv /\ Top => IInv'
<1> SUFFICES ASSUME IInv, Top PROVE IInv'
  OBVIOUS
<1> USE DEF Top, messages, IInv
<1>1. \A c \in Clients :
         /\ conn'[c] \in ConnState /\ conn'[c] # "buffered"
         /\ conn'[c] = "joined" <=> Live(c)
         /\ conn[c] \notin {"buffered", "joined"} => conn'[c] = conn[c]
  BY DEF TypeOK, ConnState, Live
<1>2. TypeOK'
  BY <1>1 DEF TypeOK, Joined, Live, CellState
<1>3. RoundEnds' /\ OutBlank' /\ BufferedNew'
  BY <1>1 DEF RoundEnds, OutBlank, BufferedNew, Live, Joined
<1>4. ChargedAtMost'
  BY <1>1 DEF ChargedAtMost, Live
<1>5. ChargedAtLeast'
  BY <1>1 DEF TypeOK, ChargedAtLeast, BufferedNew, Live
<1>6. AllHeard' /\ OldestWithinGap' /\ UnreadIsNew'
  BY <1>1 DEF AllHeard, OldestWithinGap, UnreadIsNew, Live
<1> QED
  BY <1>2, <1>3, <1>4, <1>5, <1>6

\* The clock is read again: longest bounds how long that took.
LEMMA RefreshStep ==
  ASSUME TypeOK, Refresh
  PROVE  /\ oldTime' = now /\ longest' \in 0..now
         /\ longest' >= longest /\ longest' >= now - oldTime
<1>1. now \in Nat /\ oldTime \in 0..now /\ longest \in 0..now
  BY DEF TypeOK
<1>2. longest' = longest \/ longest' = now - oldTime
  BY <1>1, LargerIs DEF Refresh
<1>3. longest' >= longest /\ longest' >= now - oldTime
  BY <1>1, LargerIs DEF Refresh
<1> QED
  BY <1>1, <1>2, <1>3 DEF Refresh

\* The cell has slept.
LEMMA IdleStep == IInv /\ Idle => IInv'
<1> SUFFICES ASSUME IInv, Idle PROVE IInv'
  OBVIOUS
<1> USE DEF IInv
<1>0. /\ pc = "idle" /\ pc' = "top"
      /\ UNCHANGED <<now, ready, faults, conn, closed, dtHeart, messages, lastHeard, looked>>
  BY DEF Idle
<1>1. /\ oldTime' = now /\ longest' \in 0..now
      /\ longest' >= longest /\ longest' >= now - oldTime
  BY RefreshStep DEF Idle
<1> USE DEF messages
<1>2. TypeOK'
  BY <1>0, <1>1 DEF TypeOK, Joined, CellState
<1>3. RoundEnds' /\ OutBlank' /\ AllHeard' /\ OldestWithinGap' /\ UnreadIsNew'
  BY <1>0 DEF RoundEnds, OutBlank, AllHeard, OldestWithinGap, UnreadIsNew, Live, Joined
<1>4. BufferedNew'
  BY <1>0, <1>1 DEF TypeOK, BufferedNew
<1>5. ChargedAtMost' /\ ChargedAtLeast'
  BY <1>0, <1>1 DEF TypeOK, RoundEnds, BufferedNew, ChargedAtMost, ChargedAtLeast, Live, Joined
<1> QED
  BY <1>2, <1>3, <1>4, <1>5

\* CheckTime removes the closed and the overdue, and charges the others.
LEMMA CheckTimeStep == IInv /\ CheckTime => IInv'
<1> SUFFICES ASSUME IInv, CheckTime PROVE IInv'
  OBVIOUS
<1> USE DEF IInv
<1> DEFINE dt == now - oldTime
<1>0. /\ pc = "check" /\ pc' = "poll"
      /\ UNCHANGED <<now, ready, faults, closed, messages, lastHeard, looked>>
  BY DEF CheckTime
<1>1. /\ oldTime' = now /\ longest' \in 0..now
      /\ longest' >= longest /\ longest' >= dt
  BY RefreshStep DEF CheckTime
<1>2. now \in Nat /\ dt \in Nat
  BY DEF TypeOK
<1>3. \A c \in Clients :
         /\ conn'[c] \in ConnState /\ dtHeart'[c] \in Nat
         /\ conn[c] # "joined" => conn'[c] = conn[c] /\ dtHeart'[c] = dtHeart[c]
         /\ conn[c] = "joined" => conn'[c] \in {"left", "expired", "joined"}
         /\ conn'[c] = "joined" =>
               conn[c] = "joined" /\ dtHeart'[c] = dtHeart[c] + dt /\ dtHeart'[c] < DeadTime
  <2> TAKE c \in Clients
  <2>1. /\ conn'[c] = IF conn[c] # "joined" THEN conn[c]
                      ELSE IF closed[c] THEN "left"
                      ELSE IF Dead(c, dt) THEN "expired"
                      ELSE "joined"
        /\ dtHeart'[c] = IF conn[c] = "joined" /\ ~closed[c]
                         THEN dtHeart[c] + dt ELSE dtHeart[c]
    BY DEF CheckTime
  <2>2. conn[c] \in ConnState /\ dtHeart[c] \in Nat
    BY DEF TypeOK
  <2>3. dtHeart'[c] \in Nat
    BY <1>2, <2>1, <2>2
  <2>4. ~Dead(c, dt) => dtHeart[c] + dt < DeadTime
    BY <1>2, <2>2 DEF Dead
  <2> QED
    BY <2>1, <2>2, <2>3, <2>4 DEF ConnState
<1> USE DEF messages
<1> HIDE DEF dt
<1>4. TypeOK'
  <2>1. conn' \in [Clients -> ConnState] /\ dtHeart' \in [Clients -> Nat]
    BY <1>3 DEF CheckTime
  <2>2. \A c \in Clients : conn'[c] \in {"buffered", "joined"} => dtHeart'[c] < DeadTime
    BY <1>3 DEF TypeOK
  <2>3. ready' \subseteq Joined'
    BY <1>0 DEF RoundEnds
  <2> QED
    BY <1>0, <1>1, <2>1, <2>2, <2>3 DEF TypeOK, CellState
<1>5. RoundEnds' /\ OutBlank'
  BY <1>0, <1>3 DEF RoundEnds, OutBlank, Joined
<1>6. BufferedNew'
  BY <1>0, <1>1, <1>3 DEF TypeOK, BufferedNew, dt
<1>7. ChargedAtMost'
  <2> SUFFICES ASSUME NEW c \in Clients, Live(c)'
               PROVE  dtHeart'[c] <= now - lastHeard[c] + longest'
    BY <1>0, <1>1 DEF ChargedAtMost
  <2>1. Live(c) /\ (dtHeart'[c] = dtHeart[c] \/ dtHeart'[c] = dtHeart[c] + dt)
    BY <1>3 DEF Live
  <2>2. dtHeart[c] <= oldTime - lastHeard[c] + longest \/ dtHeart[c] <= now - lastHeard[c]
    BY <2>1 DEF ChargedAtMost
  <2> QED
    BY <1>1, <1>2, <2>1, <2>2 DEF TypeOK, dt
<1>8. ChargedAtLeast'
  <2> SUFFICES ASSUME NEW c \in Clients, conn'[c] = "joined"
               PROVE  now - lastHeard[c] <= dtHeart'[c] + longest'
    BY <1>0, <1>1 DEF ChargedAtLeast
  <2>1. conn[c] = "joined" /\ dtHeart'[c] = dtHeart[c] + dt
    BY <1>3
  <2>2. oldTime - lastHeard[c] <= dtHeart[c] + longest
    BY <2>1 DEF ChargedAtLeast
  <2> QED
    BY <1>1, <2>1, <2>2 DEF TypeOK, dt
<1>9. AllHeard' /\ OldestWithinGap' /\ UnreadIsNew'
  BY <1>0, <1>3 DEF AllHeard, OldestWithinGap, UnreadIsNew, Live
<1> QED
  BY <1>4, <1>5, <1>6, <1>7, <1>8, <1>9

\* A poll that looked, or was interrupted.
LEMMA PollStep == IInv /\ (Poll \/ PollInterrupted) => IInv'
<1>1. ASSUME IInv, Poll PROVE IInv'
  <2> USE <1>1 DEF Poll, messages, IInv
  <2>1. TypeOK'
    BY DEF TypeOK, Joined, CellState
  <2>2. RoundEnds' /\ OutBlank' /\ BufferedNew' /\ ChargedAtMost' /\ ChargedAtLeast'
    BY DEF RoundEnds, OutBlank, BufferedNew, ChargedAtMost, ChargedAtLeast, Live, Joined
  <2>3. AllHeard' /\ OldestWithinGap'
    BY DEF AllHeard, OldestWithinGap, Live
  <2>4. UnreadIsNew'
    BY DEF UnreadIsNew, RoundEnds, BufferedNew, Live, Joined
  <2> QED
    BY <2>1, <2>2, <2>3, <2>4
<1>2. ASSUME IInv, PollInterrupted PROVE IInv'
  <2> USE <1>2 DEF PollInterrupted, messages, IInv
  <2>1. TypeOK'
    BY DEF TypeOK, Joined, CellState
  <2>2. RoundEnds' /\ OutBlank' /\ BufferedNew' /\ ChargedAtMost' /\ ChargedAtLeast'
    BY DEF RoundEnds, OutBlank, BufferedNew, ChargedAtMost, ChargedAtLeast, Live, Joined
  <2>3. AllHeard' /\ OldestWithinGap' /\ UnreadIsNew'
    BY DEF AllHeard, OldestWithinGap, UnreadIsNew, Live
  <2> QED
    BY <2>1, <2>2, <2>3
<1> QED
  BY <1>1, <1>2

\* Messages are read from the socket.
LEMMA RecvStep == ASSUME IInv, NEW c \in Clients, Recv(c) PROVE IInv'
<1> USE DEF IInv
<1>0. /\ pc = "recv" /\ c \in ready /\ ready' = ready \ {c}
      /\ inBuff' = [inBuff EXCEPT ![c] = TRUE]
      /\ UNCHANGED <<now, oldTime, pc, faults, longest, conn, closed, dtHeart, lastSent,
                     gap, lastHeard, looked>>
  BY DEF Recv
<1>1. PICK last \in unread[c] : unread' = [unread EXCEPT ![c] = {t \in @ : t > last}]
  BY DEF Recv
<1>2. conn[c] = "joined"
  BY <1>0 DEF TypeOK, Joined
<1>3. /\ \A d \in Clients : d # c => unread'[d] = unread[d] /\ inBuff'[d] = inBuff[d]
      /\ unread'[c] \subseteq unread[c] /\ inBuff'[c]
  BY <1>0, <1>1 DEF TypeOK
<1>4. TypeOK'
  BY <1>0, <1>1 DEF TypeOK, Joined
<1>5. RoundEnds' /\ OutBlank' /\ BufferedNew'
  BY <1>0, <1>2, <1>3 DEF RoundEnds, OutBlank, BufferedNew
<1>6. ChargedAtMost' /\ ChargedAtLeast'
  BY <1>0 DEF ChargedAtMost, ChargedAtLeast, Live
<1>7. AllHeard' /\ OldestWithinGap'
  BY <1>0, <1>3 DEF AllHeard, OldestWithinGap, Live
<1>8. UnreadIsNew'
  BY <1>0, <1>3 DEF UnreadIsNew, Live
<1> QED
  BY <1>4, <1>5, <1>6, <1>7, <1>8

\* A client leaves, or is closed.
LEMMA GoneStep == ASSUME IInv, NEW c \in Clients, SocketError(c) \/ OnClose(c) PROVE IInv'
<1>1. CASE SocketError(c)
  <2> USE <1>1 DEF SocketError, messages, IInv
  <2>1. /\ conn'[c] = "left" /\ \A d \in Clients : d # c => conn'[d] = conn[d]
        /\ conn' \in [Clients -> ConnState]
    BY DEF TypeOK, ConnState
  <2>2. TypeOK'
    BY <2>1 DEF TypeOK, Joined
  <2>3. RoundEnds' /\ OutBlank' /\ BufferedNew'
    BY <2>1 DEF RoundEnds, OutBlank, BufferedNew, Joined
  <2>4. ChargedAtMost' /\ ChargedAtLeast' /\ AllHeard' /\ OldestWithinGap' /\ UnreadIsNew'
    BY <2>1 DEF ChargedAtMost, ChargedAtLeast, AllHeard, OldestWithinGap, UnreadIsNew, Live
  <2> QED
    BY <2>2, <2>3, <2>4
<1>2. CASE OnClose(c)
  BY <1>2 DEF OnClose, cell, messages, IInv, TypeOK, RoundEnds, OutBlank, BufferedNew,
         ChargedAtMost, ChargedAtLeast, AllHeard, OldestWithinGap, UnreadIsNew, Live, Joined
<1> QED
  BY <1>1, <1>2

\* Messages are handled.
LEMMA OnNetMsgStep == ASSUME IInv, NEW c \in Clients, OnNetMsg(c) PROVE IInv'
<1> USE DEF OnNetMsg, cell, IInv
<1>1. /\ \A d \in Clients : d # c => /\ dtHeart'[d] = dtHeart[d] /\ inBuff'[d] = inBuff[d]
                                   /\ lastHeard'[d] = lastHeard[d]
      /\ dtHeart'[c] = 0 /\ ~inBuff'[c] /\ lastHeard'[c] = now
  BY DEF TypeOK
<1>2. TypeOK'
  BY <1>1 DEF TypeOK, Joined
<1>3. RoundEnds' /\ OutBlank' /\ BufferedNew'
  BY <1>1 DEF RoundEnds, OutBlank, BufferedNew, Joined
<1>4. ChargedAtMost' /\ ChargedAtLeast'
  BY <1>1 DEF TypeOK, ChargedAtMost, ChargedAtLeast, Live
<1>5. AllHeard'
  BY <1>1 DEF TypeOK, AllHeard, Live
<1>6. OldestWithinGap'
  <2> SUFFICES ASSUME NEW d \in Clients, Live(d), unread[d] # {}, ~inBuff'[d]
               PROVE  \E t \in unread[d] : t <= lastHeard'[d] + gap[d]
    BY DEF OldestWithinGap, Live
  <2>1. CASE d # c
    BY <1>1, <2>1 DEF OldestWithinGap
  <2>2. CASE d = c
    BY <1>1, <2>2 DEF TypeOK
  <2> QED
    BY <2>1, <2>2
<1>7. UnreadIsNew'
  BY <1>1 DEF TypeOK, UnreadIsNew, Live
<1> QED
  BY <1>2, <1>3, <1>4, <1>5, <1>6, <1>7

\* The phases of a round end.
LEMMA DoneStep == IInv /\ (NetDone \/ MsgDone) => IInv'
BY DEF NetDone, MsgDone, messages, IInv, TypeOK, RoundEnds, OutBlank, BufferedNew,
       ChargedAtMost, ChargedAtLeast, AllHeard, OldestWithinGap, UnreadIsNew, Live, Joined,
       CellState

\* Nothing happens.
LEMMA StutterStep == IInv /\ UNCHANGED vars => IInv'
BY DEF vars, cell, messages, IInv, TypeOK, RoundEnds, OutBlank, BufferedNew,
       ChargedAtMost, ChargedAtLeast, AllHeard, OldestWithinGap, UnreadIsNew, Live, Joined

\* The invariant is inductive.
LEMMA NextIInv == IInv /\ [Next]_vars => IInv'
BY TickStep, AddClientStep, SendStep, TopStep, IdleStep, CheckTimeStep, PollStep, RecvStep,
   GoneStep, OnNetMsgStep, DoneStep, StutterStep DEF Next

\* Every reachable state is of the invariant.
LEMMA AlwaysIInv == Spec => []IInv
BY InitIInv, NextIInv, PTL DEF Spec

\* Types, for every set of clients and every limit: in particular a timer that
\* has reached the limit is never kept.
THEOREM TypesKept == Spec => []TypeOK
<1>1. IInv => TypeOK
  BY DEF IInv
<1> QED
  BY <1>1, AlwaysIInv, PTL

\* A silent client goes: the timer is at least its silence less one round, and
\* below the limit.
THEOREM SilentClientGoes == Spec => []SilentRemoved
<1>1. ASSUME IInv, NEW c \in Joined PROVE oldTime - lastHeard[c] < DeadTime + longest
  <2>1. c \in Clients /\ conn[c] = "joined"
    BY DEF Joined
  <2>2. /\ dtHeart[c] \in Nat /\ dtHeart[c] < DeadTime /\ longest \in Nat /\ oldTime \in Nat
        /\ lastHeard[c] \in Nat
    BY <1>1, <2>1 DEF IInv, TypeOK
  <2>3. oldTime - lastHeard[c] <= dtHeart[c] + longest
    BY <1>1, <2>1 DEF IInv, ChargedAtLeast
  <2> QED
    BY <2>2, <2>3
<1>2. IInv => SilentRemoved
  BY <1>1 DEF SilentRemoved
<1> QED
  BY <1>2, AlwaysIInv, PTL

\* Only CheckTime expires a client, one whose timer has reached the limit with
\* what is charged now.
LEMMA ExpiredByCheck ==
  ASSUME IInv, [Next]_vars, NEW c \in Clients, conn[c] # "expired", conn'[c] = "expired"
  PROVE  CheckTime /\ conn[c] = "joined" /\ dtHeart[c] + (now - oldTime) >= DeadTime
<1>1. CheckTime
  <2>1. conn' # conn /\ conn \in [Clients -> ConnState]
    BY DEF IInv, TypeOK
  <2>2. \A d \in Clients : ~AddClient(d) /\ ~SocketError(d)
    BY <2>1 DEF AddClient, SocketError
  <2>3. ~Top
    BY DEF Top
  <2> QED
    BY <2>1, <2>2, <2>3 DEF Next, vars, cell, messages, Tick, Send, Recv, OnClose, OnNetMsg,
       Idle, Poll, PollInterrupted, NetDone, MsgDone
<1>2. conn'[c] = IF conn[c] # "joined" THEN conn[c]
                 ELSE IF closed[c] THEN "left"
                 ELSE IF Dead(c, now - oldTime) THEN "expired"
                 ELSE "joined"
  BY <1>1 DEF CheckTime
<1>3. conn[c] = "joined" /\ Dead(c, now - oldTime)
  BY <1>2
<1> QED
  BY <1>1, <1>3 DEF Dead

\* A client that keeps sending is kept, for every limit and however time
\* passes.
THEOREM RegularClientStays == Spec => RegularStays
<1> DEFINE Late(c) == Larger(gap[c], now - lastSent[c]) + longest' + (now - looked[c]) >= DeadTime
<1>1. ASSUME IInv, [Next]_vars, NEW c \in Clients, conn[c] # "expired", conn'[c] = "expired"
      PROVE  Late(c)
  <2> USE <1>1 DEF IInv
  <2>1. CheckTime /\ conn[c] = "joined" /\ dtHeart[c] + (now - oldTime) >= DeadTime
    BY ExpiredByCheck
  <2>2. longest' >= longest /\ longest' >= now - oldTime /\ longest' \in 0..now
    BY <2>1, RefreshStep DEF CheckTime
  <2>3. pc = "check" /\ ready = {} /\ ~inBuff[c] /\ Live(c)
    BY <2>1 DEF CheckTime, RoundEnds, Joined, Live
  <2>4. /\ now \in Nat /\ gap[c] \in Nat /\ lastSent[c] \in 0..now /\ oldTime \in 0..now
        /\ lastHeard[c] \in 0..now /\ looked[c] \in 0..now /\ dtHeart[c] \in Nat
        /\ longest \in Nat /\ DeadTime \in Nat /\ unread[c] \subseteq 0..now
    BY DEF TypeOK
  <2>5. now - lastHeard[c] + longest' >= DeadTime
    <3>1. dtHeart[c] <= oldTime - lastHeard[c] + longest \/ dtHeart[c] <= now - lastHeard[c]
      BY <2>3 DEF ChargedAtMost
    <3> QED
      BY <2>1, <2>2, <2>4, <3>1
  <2>6. gap[c] >= now - lastHeard[c] - (now - looked[c])
        \/ now - lastSent[c] >= now - lastHeard[c]
    <3>1. CASE unread[c] = {}
      <4>1. lastSent[c] <= lastHeard[c]
        BY <2>3, <3>1 DEF AllHeard
      <4> QED
        BY <2>4, <4>1
    <3>2. CASE unread[c] # {}
      <4>1. PICK t \in unread[c] : t <= lastHeard[c] + gap[c]
        BY <2>3, <3>2 DEF OldestWithinGap
      <4>2. t >= looked[c] \/ lastHeard[c] >= looked[c]
        BY <2>3, <4>1 DEF UnreadIsNew
      <4> QED
        BY <2>4, <4>1, <4>2
    <3> QED
      BY <3>1, <3>2
  <2>7. /\ Larger(gap[c], now - lastSent[c]) >= gap[c]
        /\ Larger(gap[c], now - lastSent[c]) >= now - lastSent[c]
        /\ Larger(gap[c], now - lastSent[c]) \in Int
    <3>1. gap[c] \in Int /\ now - lastSent[c] \in Int
      BY <2>4
    <3> QED
      BY <3>1, LargerIs
  <2> QED
    BY <2>2, <2>4, <2>5, <2>6, <2>7
<1>2. IInv /\ [Next]_vars => [\A c \in Clients : conn[c] # "expired" /\ conn'[c] = "expired" =>
                                Late(c)]_vars
  BY <1>1
<1> QED
  BY <1>2, AlwaysIInv, PTL DEF Spec, RegularStays
===============================================================================
