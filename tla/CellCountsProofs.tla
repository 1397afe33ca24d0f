---------------------------- MODULE CellCountsProofs ----------------------------
(***************************************************************************)
(* What the counters of the server are worth, and what Close leaves open,  *)
(* for any number of cells, descriptors and connections: the connection    *)
(* limit holds, _clientAccept and _clientJoin tell the truth while every   *)
(* cell is in its loop, Close closes every socket, none is lost and no     *)
(* client is deleted twice.                                                *)
(*                                                                         *)
(* A count is the cardinality of a set of connections or of a set of       *)
(* cells.  Each step opens or closes at most one socket, and moves at most *)
(* one cell from one label to another, until a cell leaves its loop.       *)
(***************************************************************************)
EXTENDS CellServerProofs, FiniteSetTheorems

\* The client in hand is open until its delete, and closed from then on; it
\* stays in the map until its erasure where leaving and deleting come first.
RemovalOK(s) ==
    /\ pc[s] \in {"ckDelete", "rdDelete", "rmLeave", "rmDelete"} => sock[cur[s]] # NoFd
    /\ pc[s] \in {"ckErase", "rdErase"} => sock[cur[s]] = NoFd
    /\ pc[s] \in {"ckDelete", "ckErase", "rdDelete", "rdErase"} => cur[s] \in Members(s)

\* While the buffer is moved, exactly its first idx clients are in the map.
JoinOK(s) ==
    pc[s] = "join" =>
        /\ idx[s] <= Len(clientsBuff[s])
        /\ \A i \in 1..Len(clientsBuff[s]) : clientsBuff[s][i] \in Members(s) <=> i <= idx[s]

\* What ClearClients has done so far.  That nothing comes into the buffer behind
\* it needs that no wait has failed: only then has the accept thread ended.
ClearOK(s) ==
    /\ pc[s] = "clearMap" => \A c \in Members(s) : sock[c] = NoFd
    /\ pc[s] \in {"freeBuff", "clearBuff", "done"} => Members(s) = {}
    /\ faults = 0 => /\ pc[s] = "clearBuff" => \A c \in Buffered(s) : sock[c] = NoFd
                     /\ pc[s] = "done" => Buffered(s) = {}
                     /\ ~Looping(s) => ~run[s]

CellOK(s) == RemovalOK(s) /\ JoinOK(s) /\ ClearOK(s)
CellInv == \A s \in Cells : CellOK(s)

\* The order of Close: the accept thread has ended before a cell is stopped.
ShutOK ==
    /\ ~accRun => main # "serving" \/ faults > 0
    /\ acc = "exitLock" => faults > 0
    /\ main \in {"delete", "joinCell", "closed"} => acc = "done" \/ faults > 0
    /\ main \in {"serving", "joinAcc"} => closing = 1
    /\ main = "closed" => closing > NumCells

\* No socket is lost: an open one is the accept thread's or some cell's.
OpenHeld ==
    faults = 0 => \A c \in Open : c = next \/ \E s \in Cells : c \in Holds(s)

\* The cells that stand at one of the labels of L, and how many they are.
Standing(L) == {s \in Cells : pc[s] \in L}
At(L) == Cardinality(Standing(L))
DeleteSteps == {"ckDelete", "rdDelete", "rmDelete"}
LeftSteps == {"ckDelete", "ckErase", "rdDelete", "rdErase"}

\* Clients in some map, and the slots taken by what is open.
Joined == UNION {Members(s) : s \in Cells}
Refusing == IF acc = "refuse" THEN 1 ELSE 0
Slots == clientAccept + At(DeleteSteps) + Refusing
AllLooping == \A s \in Cells : Looping(s)

CountOK ==
    /\ IsFiniteSet(arrived)
    /\ clientAccept <= MaxClient
    /\ Cardinality(Open) <= Slots
    /\ AllLooping => /\ Cardinality(Open) = Slots
                     /\ clientJoin + At(LeftSteps) = Cardinality(Joined) + At({"rmLeave"})

CountInv == IInv /\ CellInv /\ ShutOK /\ OpenHeld /\ CountOK
-----------------------------------------------------------------------------
(* Counting.                                                               *)

USE CellsAssumption, NoFdAssumption, NoConnAssumption, LimitAssumption,
    PollersAssumption, BoundsAssumption

LEMMA CellsFinite == IsFiniteSet(Cells)
<1>1. NumCells \in Int /\ 1 \in Int
  OBVIOUS
<1>2. IsFiniteSet(1..NumCells)
  BY ONLY <1>1, FS_Interval
<1> QED
  BY <1>2 DEF Cells

\* One cell goes from its label to l.
LEMMA AtMoves ==
  ASSUME TypeOK, NEW s \in Cells, NEW l \in CellState, pc' = [pc EXCEPT ![s] = l], NEW L
  PROVE  /\ At(L) \in Nat
         /\ pc[s] \in L /\ l \notin L => At(L)' = At(L) - 1
         /\ pc[s] \notin L /\ l \in L => At(L)' = At(L) + 1
         /\ (pc[s] \in L <=> l \in L) => At(L)' = At(L)
<1> DEFINE before == Standing(L)
           after  == Standing(L)'
<1>1. \A t \in Cells : pc'[t] = IF t = s THEN l ELSE pc[t]
  BY DEF TypeOK
<1>2. IsFiniteSet(before) /\ Cardinality(before) \in Nat
  BY CellsFinite, FS_Subset, FS_CardinalityType DEF Standing
<1>3. CASE pc[s] \in L /\ l \notin L
  <2>1. after = before \ {s} /\ s \in before
    BY <1>1, <1>3 DEF Standing
  <2> HIDE DEF before, after
  <2>2. Cardinality(after) = Cardinality(before) - 1
    BY <1>2, <2>1, FS_RemoveElement
  <2> QED
    BY <1>2, <1>3, <2>2 DEF before, after, At
<1>4. CASE pc[s] \notin L /\ l \in L
  <2>1. after = before \union {s} /\ s \notin before
    BY <1>1, <1>4 DEF Standing
  <2> HIDE DEF before, after
  <2>2. Cardinality(after) = Cardinality(before) + 1
    BY <1>2, <2>1, FS_AddElement
  <2> QED
    BY <1>2, <1>4, <2>2 DEF before, after, At
<1>5. CASE pc[s] \in L <=> l \in L
  <2>1. after = before
    BY <1>1, <1>5 DEF Standing
  <2> QED
    BY <1>2, <1>5, <2>1 DEF At
<1> QED
  BY <1>3, <1>4, <1>5

\* A finite set without one of its elements, and with one more.
LEMMA OneLess ==
  ASSUME NEW S, NEW T, NEW x, IsFiniteSet(S), x \in S, T = S \ {x}
  PROVE  IsFiniteSet(T) /\ Cardinality(T) = Cardinality(S) - 1
BY FS_RemoveElement

LEMMA OneMore ==
  ASSUME NEW S, NEW T, NEW x, IsFiniteSet(S), x \notin S, T = S \union {x}
  PROVE  IsFiniteSet(T) /\ Cardinality(T) = Cardinality(S) + 1
BY FS_AddElement

\* Everything counted is finite, because finitely many connections have arrived.
LEMMA Finite ==
  ASSUME IInv, CountOK
  PROVE  /\ IsFiniteSet(Open) /\ Cardinality(Open) \in Nat
         /\ IsFiniteSet(Joined) /\ Cardinality(Joined) \in Nat
         /\ \A L : At(L) \in Nat
<1>1. Open \subseteq arrived /\ Joined \subseteq arrived /\ IsFiniteSet(arrived)
  BY DEF IInv, OwnInv, Arrived, Open, Joined, Holds, CountOK
<1>2. IsFiniteSet(Open) /\ IsFiniteSet(Joined)
  BY <1>1, FS_Subset
<1>3. IsFiniteSet(Cells)
  BY CellsFinite
<1>4. ASSUME NEW L PROVE At(L) \in Nat
  <2>1. IsFiniteSet(Standing(L))
    BY <1>3, FS_Subset DEF Standing
  <2> QED
    BY <2>1, FS_CardinalityType DEF At
<1> QED
  BY <1>2, <1>4, FS_CardinalityType
-----------------------------------------------------------------------------
(* Frames: what a step leaves alone.                                       *)

\* A cell whose own data and whose clients' sockets a step does not touch.
LEMMA CellFrame ==
  ASSUME TypeOK, OwnInv, NEW t \in Cells, CellOK(t),
         /\ clientsBuff'[t] = clientsBuff[t] /\ clients'[t] = clients[t]
         /\ cur'[t] = cur[t] /\ pc'[t] = pc[t] /\ idx'[t] = idx[t],
         ~run[t] => ~run'[t],
         faults' = faults \/ faults' > 0,
         \A c \in Holds(t) : sock'[c] = sock[c]
  PROVE  CellOK(t)'
<1>1. Buffered(t)' = Buffered(t) /\ Members(t)' = Members(t)
  BY DEF Buffered, Members
<1>2. Removing(t) => cur[t] \in Holds(t)
  BY DEF OwnInv, Local, CurOK, Holds, InHand
<1>3. RemovalOK(t)'
  BY <1>1, <1>2 DEF CellOK, RemovalOK, Removing
<1>4. JoinOK(t)'
  BY <1>1 DEF CellOK, JoinOK
<1>5. ClearOK(t)'
  <2>1. Buffered(t) \subseteq Holds(t) /\ Members(t) \subseteq Holds(t)
    BY DEF Holds
  <2>2. (faults' = faults \/ faults' # 0) /\ (Looping(t)' <=> Looping(t))
    BY DEF TypeOK, Looping
  <2> QED
    BY <1>1, <2>1, <2>2 DEF CellOK, ClearOK
<1> QED
  BY <1>3, <1>4, <1>5 DEF CellOK

\* A step of cell s that closes at most clients s holds, and touches no other cell.
Only(s) ==
    /\ UNCHANGED <<arrived, next, acc, faults>>
    /\ \A t \in Cells \ {s} :
          /\ clientsBuff'[t] = clientsBuff[t] /\ clients'[t] = clients[t]
          /\ cur'[t] = cur[t] /\ pc'[t] = pc[t] /\ idx'[t] = idx[t] /\ run'[t] = run[t]
    /\ \A c \in Conns : sock'[c] = sock[c] \/ (sock'[c] = NoFd /\ c \in Holds(s))

LEMMA OnlyCell ==
  ASSUME TypeOK, OwnInv, CellInv, NEW s \in Cells, Only(s), CellOK(s)'
  PROVE  CellInv'
<1>1. ASSUME NEW t \in Cells \ {s} PROVE CellOK(t)'
  <2>1. \A c \in Holds(t) : c \in Conns /\ c \notin Holds(s)
    BY DEF OwnInv, Owned, Arrived, TypeOK
  <2>2. \A c \in Holds(t) : sock'[c] = sock[c]
    BY <2>1 DEF Only
  <2> QED
    BY <2>2, CellFrame DEF Only, CellInv
<1> QED
  BY <1>1 DEF CellInv

LEMMA OnlyHeld ==
  ASSUME TypeOK, OpenHeld, NEW s \in Cells, Only(s),
         faults = 0 => \A c \in Holds(s) : c \in Holds(s)' \/ sock'[c] = NoFd
  PROVE  OpenHeld'
<1>1. \A t \in Cells \ {s} : Holds(t)' = Holds(t)
  BY DEF Only, Holds, Buffered, Members, InHand
<1>2. \A c \in Conns : sock'[c] # NoFd => sock[c] # NoFd
  BY DEF Only
<1> QED
  BY <1>1, <1>2 DEF Only, OpenHeld, Open

\* One client leaves the maps, or enters them.
LEMMA JoinedLess ==
  ASSUME OwnInv, NEW s \in Cells, NEW c \in Members(s), Only(s),
         Members(s)' = Members(s) \ {c}
  PROVE  c \in Joined /\ Joined' = Joined \ {c}
<1>1. \A t \in Cells \ {s} : Members(t)' = Members(t) /\ c \notin Members(t)
  <2>1. \A t \in Cells \ {s} : c \notin Holds(t)
    BY DEF OwnInv, Owned, Holds
  <2>2. \A t \in Cells \ {s} : Members(t)' = Members(t)
    BY DEF Only, Members
  <2> QED
    BY <2>1, <2>2 DEF Holds
<1> QED
  BY <1>1 DEF Joined

LEMMA JoinedMore ==
  ASSUME OwnInv, NEW s \in Cells, NEW c \in Holds(s), c \notin Members(s), Only(s),
         Members(s)' = Members(s) \union {c}
  PROVE  c \notin Joined /\ Joined' = Joined \union {c}
<1>1. \A t \in Cells \ {s} : Members(t)' = Members(t) /\ c \notin Members(t)
  <2>1. \A t \in Cells \ {s} : c \notin Holds(t)
    BY DEF OwnInv, Owned
  <2>2. \A t \in Cells \ {s} : Members(t)' = Members(t)
    BY DEF Only, Members
  <2> QED
    BY <2>1, <2>2 DEF Holds
<1> QED
  BY <1>1 DEF Joined

LEMMA JoinedSame ==
  ASSUME NEW s \in Cells, Only(s), Members(s)' = Members(s)
  PROVE  Joined' = Joined
<1>1. \A t \in Cells \ {s} : Members(t)' = Members(t)
  BY DEF Only, Members
<1> QED
  BY <1>1 DEF Joined
-----------------------------------------------------------------------------
(* The steps of a cell that move a client.                                 *)

\* The client that is moved comes into an empty entry: one under its descriptor
\* could only be the client itself.
LEMMA JoinOneMoves ==
  ASSUME IInv, CellInv, NEW s \in Cells, JoinOne(s)
  PROVE  /\ clientsBuff[s][idx[s] + 1] \in Holds(s) \ Members(s)
         /\ Members(s)' = Members(s) \union {clientsBuff[s][idx[s] + 1]}
<1> DEFINE c == clientsBuff[s][idx[s] + 1]
<1>0. /\ idx[s] + 1 \in 1..Len(clientsBuff[s]) /\ idx[s] \in Nat
      /\ TypeOK /\ OwnInv /\ Local(s) /\ CellOK(s) /\ pc[s] = "join"
  BY DEF JoinOne, IInv, TypeOK, OwnInv, CellInv
<1>1. c \in Conns /\ c \in Buffered(s) /\ c \in Holds(s)
  BY <1>0, ElementOfSeq DEF TypeOK, Buffered, Holds
<1>2. cur[s] = NoConn /\ sock[c] \in FDs /\ Looping(s)
  <2>1. Looping(s) /\ cur[s] = NoConn
    BY <1>0 DEF Local, CurOK, Removing, Looping
  <2>2. sock[c] # NoFd
    BY <1>0, <1>1, <2>1 DEF Local, BufferOK
  <2> QED
    BY <1>0, <1>1, <2>1, <2>2 DEF TypeOK
<1>3. c \notin Members(s)
  BY <1>0 DEF CellOK, JoinOK
<1> HIDE DEF c
<1>4. clients' = [clients EXCEPT ![s][sock[c]] = c]
  BY DEF JoinOne, c
<1>5. clients[s][sock[c]] = NoConn
  <2>1. clients[s][sock[c]] # NoConn => sock[clients[s][sock[c]]] = sock[c]
    BY <1>0, <1>2 DEF Local, ExactAt
  <2>2. clients[s][sock[c]] # NoConn => clients[s][sock[c]] \in Members(s)
    BY <1>2 DEF Members
  <2>3. clients[s][sock[c]] \in Conns \union {NoConn}
    BY <1>0, <1>2 DEF TypeOK
  <2> QED
    BY <1>0, <1>1, <1>2, <1>3, <2>1, <2>2, <2>3 DEF OwnInv, FdUnique
<1>6. Members(s)' = Members(s) \union {c}
  <2>1. \A f \in FDs : clients'[s][f] = IF f = sock[c] THEN c ELSE clients[s][f]
    BY <1>0, <1>2, <1>4 DEF TypeOK
  <2>2. c # NoConn
    BY <1>1
  <2> QED
    BY <1>2, <1>5, <2>1, <2>2 DEF Members
<1> QED
  BY <1>1, <1>3, <1>6 DEF c

LEMMA JoinOneCount ==
  ASSUME IInv, CellInv, OpenHeld, CountOK, NEW s \in Cells, JoinOne(s)
  PROVE  CellInv' /\ OpenHeld' /\ CountOK'
<1> DEFINE c == clientsBuff[s][idx[s] + 1]
<1>0. /\ idx[s] + 1 \in 1..Len(clientsBuff[s]) /\ idx[s] \in Nat
      /\ TypeOK /\ OwnInv /\ Local(s) /\ CellOK(s) /\ pc[s] = "join"
  BY DEF JoinOne, IInv, TypeOK, OwnInv, CellInv
<1>1. c \in Holds(s) /\ c \notin Members(s) /\ Members(s)' = Members(s) \union {c}
  BY JoinOneMoves
<1>2. cur[s] = NoConn /\ Looping(s)
  BY <1>0 DEF Local, CurOK, Removing, Looping
<1>3. c \notin Members(s)
  BY <1>1
<1>4. \A i \in 1..Len(clientsBuff[s]) : clientsBuff[s][i] = c <=> i = idx[s] + 1
  BY <1>0 DEF Local, BufferOK
<1> HIDE DEF c
<1>5. /\ clients' = [clients EXCEPT ![s][sock[c]] = c]
      /\ clientJoin' = clientJoin + 1 /\ idx' = [idx EXCEPT ![s] = idx[s] + 1]
      /\ UNCHANGED <<sock, arrived, clientAccept, next, clientsBuff, pc, cur, run, acc, faults>>
  BY DEF JoinOne, c, sockVars, accVars, bounds
<1>7. Members(s)' = Members(s) \union {c}
  BY <1>1
<1>8. Only(s)
  BY <1>0, <1>5 DEF Only, TypeOK
<1>9. CellOK(s)'
  <2>1. RemovalOK(s)' /\ ClearOK(s)'
    BY <1>0, <1>2, <1>5 DEF RemovalOK, ClearOK, Looping
  <2>2. JoinOK(s)'
    <3>1. idx'[s] = idx[s] + 1 /\ clientsBuff'[s] = clientsBuff[s]
      BY <1>0, <1>5 DEF TypeOK
    <3>2. \A i \in 1..Len(clientsBuff[s]) : clientsBuff[s][i] \in Members(s) <=> i <= idx[s]
      BY <1>0 DEF CellOK, JoinOK
    <3>3. \A i \in 1..Len(clientsBuff[s]) : clientsBuff[s][i] \in Members(s)' <=> i <= idx[s] + 1
      BY <1>0, <1>4, <1>7, <3>2
    <3> QED
      BY <1>0, <3>1, <3>3 DEF JoinOK
  <2> QED
    BY <2>1, <2>2 DEF CellOK
<1>10. OpenHeld'
  <2>1. Holds(s)' = Holds(s)
    BY <1>1, <1>5, <1>7 DEF Holds, Buffered, InHand
  <2> QED
    BY <1>0, <1>8, <2>1, OnlyHeld
<1>11. CountOK'
  <2>1. Open' = Open /\ Slots' = Slots /\ At(LeftSteps)' = At(LeftSteps)
        /\ At({"rmLeave"})' = At({"rmLeave"}) /\ (AllLooping' <=> AllLooping)
    BY <1>5 DEF Open, Slots, At, Standing, Refusing, AllLooping, Looping
  <2>2. c \notin Joined /\ Joined' = Joined \union {c}
    BY <1>0, <1>1, <1>3, <1>7, <1>8, JoinedMore
  <2>3. Cardinality(Joined') = Cardinality(Joined) + 1
    BY <2>2, Finite, OneMore
  <2> HIDE DEF Joined, Slots, Open
  <2>4. clientJoin \in Int /\ At(LeftSteps) \in Nat /\ At({"rmLeave"}) \in Nat
        /\ Cardinality(Joined) \in Nat
    BY <1>0, Finite DEF TypeOK
  <2> QED
    BY <1>5, <2>1, <2>3, <2>4 DEF CountOK
<1> QED
  BY <1>0, <1>8, <1>9, <1>10, <1>11, OnlyCell

LEMMA JoinEndCount ==
  ASSUME IInv, CellInv, OpenHeld, CountOK, NEW s \in Cells, JoinEnd(s)
  PROVE  CellInv' /\ OpenHeld' /\ CountOK'
<1>0. TypeOK /\ OwnInv /\ CellOK(s) /\ pc[s] = "join"
  BY DEF JoinEnd, IInv, CellInv
<1>1. PICK l \in {"top", "check"} : pc' = [pc EXCEPT ![s] = l]
  BY DEF JoinEnd, Goto
<1>2. /\ clientsBuff' = [clientsBuff EXCEPT ![s] = << >>] /\ idx[s] = Len(clientsBuff[s])
      /\ UNCHANGED <<sock, arrived, clientAccept, clientJoin, next, clients, cur, idx, run,
                     acc, faults>>
  BY DEF JoinEnd, sockVars, countVars, accVars, bounds
<1>3. Only(s)
  BY <1>0, <1>1, <1>2 DEF Only, TypeOK
<1>4. Members(s)' = Members(s) /\ InHand(s)' = InHand(s) /\ pc'[s] = l
  BY <1>0, <1>1, <1>2 DEF Members, InHand, TypeOK
<1>5. CellOK(s)'
  BY <1>4 DEF CellOK, RemovalOK, JoinOK, ClearOK, Looping
<1>6. Buffered(s) \subseteq Members(s)
  BY <1>0, <1>2 DEF Buffered, CellOK, JoinOK
<1>7. OpenHeld'
  <2>1. Holds(s) \subseteq Holds(s)'
    BY <1>4, <1>6 DEF Holds
  <2> QED
    BY <1>0, <1>3, <2>1, OnlyHeld
<1>8. CountOK'
  <2>1. /\ At(DeleteSteps)' = At(DeleteSteps) /\ At(LeftSteps)' = At(LeftSteps)
        /\ At({"rmLeave"})' = At({"rmLeave"})
    <3>1. l \in CellState
      BY DEF CellState
    <3> QED
      BY <1>0, <1>1, <3>1, AtMoves DEF DeleteSteps, LeftSteps
  <2>2. Open' = Open /\ Joined' = Joined /\ Slots' = Slots
    BY <1>2, <1>3, <1>4, <2>1, JoinedSame DEF Open, Slots, Refusing
  <2>3. AllLooping' => AllLooping
    BY <1>0, <1>3 DEF AllLooping, Looping, Only
  <2> QED
    BY <1>2, <2>1, <2>2, <2>3 DEF CountOK
<1> QED
  BY <1>0, <1>3, <1>5, <1>7, <1>8, OnlyCell

LEMMA LeaveCount ==
  ASSUME IInv, CellInv, OpenHeld, CountOK, NEW s \in Cells, NEW f \in FDs,
         CheckExpire(s, f) \/ SelectDrop(s, f)
  PROVE  CellInv' /\ OpenHeld' /\ CountOK'
<1> DEFINE c == clients[s][f]
<1>0. TypeOK /\ OwnInv /\ Local(s) /\ CellOK(s)
  BY DEF IInv, OwnInv, CellInv
<1>1. PICK l \in {"ckDelete", "rdDelete"} : pc' = [pc EXCEPT ![s] = l]
  BY DEF CheckExpire, SelectDrop, Leave, Goto
<1>2. /\ c # NoConn /\ pc[s] \in {"check", "net"} /\ cur' = [cur EXCEPT ![s] = c]
      /\ clientAccept' = clientAccept - 1 /\ clientJoin' = clientJoin - 1
      /\ UNCHANGED <<sock, arrived, next, clients, clientsBuff, idx, run, acc, faults>>
  BY DEF CheckExpire, SelectDrop, Leave, sockVars, accVars
<1>3. Only(s)
  BY <1>0, <1>1, <1>2 DEF Only, TypeOK
<1>4. /\ pc'[s] = l /\ cur'[s] = c /\ cur[s] = NoConn /\ Looping(s)
      /\ Members(s)' = Members(s) /\ Buffered(s)' = Buffered(s) /\ c \in Members(s)
  BY <1>0, <1>1, <1>2 DEF Members, Buffered, TypeOK, Local, CurOK, Removing, Looping
<1>5. CellOK(s)'
  <2>1. sock[c] # NoFd
    BY <1>0, <1>2, <1>4 DEF Local, ExactAt
  <2> QED
    BY <1>2, <1>4, <2>1 DEF CellOK, RemovalOK, JoinOK, ClearOK, Looping
<1>6. OpenHeld'
  <2>1. Holds(s) \subseteq Holds(s)'
    BY <1>4 DEF Holds, InHand
  <2> QED
    BY <1>0, <1>3, <2>1, OnlyHeld
<1>7. CountOK'
  <2>1. /\ At(DeleteSteps)' = At(DeleteSteps) + 1 /\ At(LeftSteps)' = At(LeftSteps) + 1
        /\ At({"rmLeave"})' = At({"rmLeave"})
    <3>1. l \in CellState
      BY DEF CellState
    <3> QED
      BY <1>0, <1>1, <1>2, <3>1, AtMoves DEF DeleteSteps, LeftSteps
  <2>2. Open' = Open /\ Joined' = Joined
    BY <1>2, <1>3, <1>4, JoinedSame DEF Open
  <2>3. AllLooping' => AllLooping
    BY <1>3, <1>4 DEF AllLooping, Looping, Only
  <2>4. /\ clientAccept \in Int /\ clientJoin \in Int /\ MaxClient \in Int
        /\ At(DeleteSteps) \in Nat /\ At(LeftSteps) \in Nat
    BY <1>0, Finite DEF TypeOK
  <2>5. Refusing' = Refusing /\ Refusing \in Nat
    BY <1>2 DEF Refusing
  <2>6. Slots' = Slots
    BY <1>2, <2>1, <2>4, <2>5 DEF Slots
  <2>7. clientAccept' <= MaxClient /\ clientJoin' + At(LeftSteps)' = clientJoin + At(LeftSteps)
    BY <1>2, <2>1, <2>4 DEF CountOK
  <2> QED
    BY <1>2, <2>1, <2>2, <2>3, <2>6, <2>7 DEF CountOK
<1> QED
  BY <1>0, <1>3, <1>5, <1>6, <1>7, OnlyCell

LEMMA EpollEraseCount ==
  ASSUME IInv, CellInv, OpenHeld, CountOK, NEW s \in Cells, NEW f \in FDs, EpollErase(s, f)
  PROVE  CellInv' /\ OpenHeld' /\ CountOK'
<1> DEFINE c == clients[s][f]
<1>0. TypeOK /\ OwnInv /\ Local(s) /\ CellOK(s)
  BY DEF IInv, OwnInv, CellInv
<1>1. /\ c # NoConn /\ pc[s] = "net" /\ cur' = [cur EXCEPT ![s] = c]
      /\ clients' = [clients EXCEPT ![s][sock[c]] = NoConn]
      /\ pc' = [pc EXCEPT ![s] = "rmLeave"]
      /\ UNCHANGED <<sock, arrived, clientAccept, clientJoin, next, clientsBuff, idx, run,
                     acc, faults>>
  BY DEF EpollErase, Goto, sockVars, countVars, accVars
<1>2. cur[s] = NoConn /\ Looping(s)
  BY <1>0, <1>1 DEF Local, CurOK, Removing, Looping
<1>3. \A g \in FDs : clients[s][g] # NoConn => sock[clients[s][g]] = g
  BY <1>0, <1>2 DEF Local, ExactAt
<1>4. Only(s)
  BY <1>0, <1>1 DEF Only, TypeOK
<1>5. /\ pc'[s] = "rmLeave" /\ cur'[s] = c /\ sock[c] = f /\ f # NoFd
      /\ c \in Members(s) /\ Buffered(s)' = Buffered(s)
  BY <1>0, <1>1, <1>3 DEF Members, Buffered, TypeOK
<1>6. Members(s)' = Members(s) \ {c}
  <2>1. \A g \in FDs : clients'[s][g] = IF g = f THEN NoConn ELSE clients[s][g]
    BY <1>0, <1>1, <1>5 DEF TypeOK
  <2> QED
    BY <1>3, <1>5, <2>1 DEF Members
<1>7. CellOK(s)'
  BY <1>1, <1>5 DEF CellOK, RemovalOK, JoinOK, ClearOK, Looping
<1>8. OpenHeld'
  <2>1. Holds(s) \subseteq Holds(s)'
    BY <1>1, <1>2, <1>5, <1>6 DEF Holds, InHand
  <2> QED
    BY <1>0, <1>4, <2>1, OnlyHeld
<1>9. CountOK'
  <2>1. /\ At(DeleteSteps)' = At(DeleteSteps) /\ At(LeftSteps)' = At(LeftSteps)
        /\ At({"rmLeave"})' = At({"rmLeave"}) + 1
    <3>1. "rmLeave" \in CellState
      BY DEF CellState
    <3> QED
      BY <1>0, <1>1, <3>1, AtMoves DEF DeleteSteps, LeftSteps
  <2>2. Open' = Open /\ Slots' = Slots
    BY <1>1, <2>1 DEF Open, Slots, Refusing
  <2>3. Cardinality(Joined') = Cardinality(Joined) - 1
    BY <1>0, <1>4, <1>5, <1>6, JoinedLess, Finite, OneLess
  <2>4. AllLooping' => AllLooping
    BY <1>2, <1>4 DEF AllLooping, Looping, Only
  <2>5. /\ clientJoin \in Int /\ Cardinality(Joined) \in Nat
        /\ At({"rmLeave"}) \in Nat /\ At(LeftSteps) \in Nat
    BY <1>0, Finite DEF TypeOK
  <2> QED
    BY <1>1, <2>1, <2>2, <2>3, <2>4, <2>5 DEF CountOK
<1> QED
  BY <1>0, <1>4, <1>7, <1>8, <1>9, OnlyCell

LEMMA RmLeaveCount ==
  ASSUME IInv, CellInv, OpenHeld, CountOK, NEW s \in Cells, RmLeave(s)
  PROVE  CellInv' /\ OpenHeld' /\ CountOK'
<1>0. TypeOK /\ OwnInv /\ Local(s) /\ CellOK(s)
  BY DEF IInv, OwnInv, CellInv
<1>1. /\ pc[s] = "rmLeave" /\ pc' = [pc EXCEPT ![s] = "rmDelete"]
      /\ clientAccept' = clientAccept - 1 /\ clientJoin' = clientJoin - 1
      /\ UNCHANGED <<sock, arrived, next, clients, clientsBuff, cur, idx, run, acc, faults>>
  BY DEF RmLeave, Goto, After, sockVars, accVars, bounds
<1>2. Only(s)
  BY <1>0, <1>1 DEF Only, TypeOK
<1>3. /\ pc'[s] = "rmDelete" /\ Looping(s)
      /\ Members(s)' = Members(s) /\ Buffered(s)' = Buffered(s) /\ Holds(s)' = Holds(s)
  BY <1>0, <1>1 DEF Members, Buffered, Holds, InHand, TypeOK, Looping
<1>4. CellOK(s)'
  BY <1>0, <1>1, <1>3 DEF CellOK, RemovalOK, JoinOK, ClearOK, Looping
<1>5. OpenHeld'
  BY <1>0, <1>2, <1>3, OnlyHeld
<1>6. CountOK'
  <2>1. /\ At(DeleteSteps)' = At(DeleteSteps) + 1 /\ At(LeftSteps)' = At(LeftSteps)
        /\ At({"rmLeave"})' = At({"rmLeave"}) - 1
    <3>1. "rmDelete" \in CellState
      BY DEF CellState
    <3> QED
      BY <1>0, <1>1, <3>1, AtMoves DEF DeleteSteps, LeftSteps
  <2>2. Open' = Open /\ Joined' = Joined
    BY <1>1, <1>2, <1>3, JoinedSame DEF Open
  <2>3. AllLooping' => AllLooping
    BY <1>2, <1>3 DEF AllLooping, Looping, Only
  <2>4. /\ clientAccept \in Int /\ clientJoin \in Int /\ MaxClient \in Int
        /\ At(DeleteSteps) \in Nat /\ At(LeftSteps) \in Nat /\ At({"rmLeave"}) \in Nat
        /\ Cardinality(Joined) \in Nat
    BY <1>0, Finite DEF TypeOK
  <2>5. Refusing' = Refusing /\ Refusing \in Nat
    BY <1>1 DEF Refusing
  <2>6. Slots' = Slots
    BY <1>1, <2>1, <2>4, <2>5 DEF Slots
  <2>7. clientAccept' <= MaxClient
    BY <1>1, <2>4 DEF CountOK
  <2>8. AllLooping' => clientJoin' + At(LeftSteps)' = Cardinality(Joined') + At({"rmLeave"})'
    BY <1>1, <2>1, <2>2, <2>3, <2>4 DEF CountOK
  <2> QED
    BY <1>1, <2>2, <2>3, <2>6, <2>7, <2>8 DEF CountOK
<1> QED
  BY <1>0, <1>2, <1>4, <1>5, <1>6, OnlyCell

\* The socket of the client in hand is closed, its slot no longer taken.
LEMMA DeleteCount ==
  ASSUME IInv, CellInv, OpenHeld, CountOK, NEW s \in Cells, Delete(s)
  PROVE  CellInv' /\ OpenHeld' /\ CountOK'
<1> DEFINE c == cur[s]
<1>0. TypeOK /\ OwnInv /\ Local(s) /\ CellOK(s)
  BY DEF IInv, OwnInv, CellInv
<1>1. PICK l \in {"ckErase", "rdErase", "net"} :
         /\ pc' = [pc EXCEPT ![s] = l]
         /\ pc[s] \in DeleteSteps
         /\ pc[s] = "rmDelete" <=> l = "net"
  <2>1. pc[s] \in DeleteSteps /\ pc' = [pc EXCEPT ![s] = After[pc[s]]]
    BY DEF Delete, Goto, DeleteSteps
  <2>2. /\ After[pc[s]] \in {"ckErase", "rdErase", "net"}
        /\ pc[s] = "rmDelete" <=> After[pc[s]] = "net"
    BY <2>1 DEF After, DeleteSteps
  <2> QED
    BY <2>1, <2>2
<1>2. /\ sock' = [sock EXCEPT ![c] = NoFd]
      /\ cur' = IF pc[s] = "rmDelete" THEN [cur EXCEPT ![s] = NoConn] ELSE cur
      /\ UNCHANGED <<arrived, clientAccept, clientJoin, next, clients, clientsBuff, idx, run,
                     acc, faults>>
  BY DEF Delete, countVars, accVars, bounds
<1>3. /\ c \in Conns /\ c \in Holds(s) /\ Looping(s)
      /\ pc[s] = "rmDelete" => c \notin Members(s)
  BY <1>0, <1>1 DEF Local, CurOK, Removing, Holds, InHand, TypeOK, DeleteSteps, Looping
<1>4. sock[c] # NoFd /\ (pc[s] # "rmDelete" => c \in Members(s))
  BY <1>0, <1>1 DEF CellOK, RemovalOK, DeleteSteps
<1>5. \A d \in Conns : sock'[d] = IF d = c THEN NoFd ELSE sock[d]
  BY <1>0, <1>2, <1>3 DEF TypeOK
<1>6. Only(s)
  BY <1>0, <1>1, <1>2, <1>3, <1>5 DEF Only, TypeOK
<1>7. /\ pc'[s] = l /\ Members(s)' = Members(s) /\ Buffered(s)' = Buffered(s)
      /\ Looping(s)' /\ cur'[s] = IF pc[s] = "rmDelete" THEN NoConn ELSE c
  BY <1>0, <1>1, <1>2, <1>3 DEF Members, Buffered, TypeOK, Looping
<1>8. CellOK(s)'
  BY <1>1, <1>3, <1>4, <1>5, <1>7 DEF CellOK, RemovalOK, JoinOK, ClearOK
<1>9. OpenHeld'
  <2>1. \A d \in Holds(s) : d \in Holds(s)' \/ d = c
    BY <1>7 DEF Holds, InHand
  <2> QED
    BY <1>0, <1>3, <1>5, <1>6, <2>1, OnlyHeld
<1>10. CountOK'
  <2>1. /\ At(DeleteSteps)' = At(DeleteSteps) - 1 /\ At(LeftSteps)' = At(LeftSteps)
        /\ At({"rmLeave"})' = At({"rmLeave"})
    <3>1. l \in CellState /\ l \notin DeleteSteps
      BY DEF CellState, DeleteSteps
    <3>2. pc[s] \in LeftSteps <=> l \in LeftSteps
      BY <1>1 DEF DeleteSteps, LeftSteps
    <3>3. pc[s] # "rmLeave" /\ l # "rmLeave"
      BY <1>1 DEF DeleteSteps
    <3> QED
      BY <1>0, <1>1, <3>1, <3>2, <3>3, AtMoves
  <2>2. Joined' = Joined
    BY <1>6, <1>7, JoinedSame
  <2>3. Cardinality(Open') = Cardinality(Open) - 1
    <3>1. c \in Open /\ Open' = Open \ {c}
      BY <1>3, <1>4, <1>5 DEF Open
    <3> QED
      BY <3>1, Finite, OneLess
  <2>4. AllLooping' => AllLooping
    BY <1>3, <1>6 DEF AllLooping, Looping, Only
  <2>5. /\ clientAccept \in Int /\ Refusing \in Nat /\ Refusing' = Refusing
        /\ At(DeleteSteps) \in Nat
    BY <1>0, <1>2, Finite DEF TypeOK, Refusing
  <2>6. Slots' = Slots - 1 /\ Slots \in Int
    BY <1>2, <2>1, <2>5 DEF Slots
  <2>7. Cardinality(Open) \in Nat
    BY Finite
  <2> QED
    BY <1>2, <2>1, <2>2, <2>3, <2>4, <2>6, <2>7 DEF CountOK
<1> QED
  BY <1>0, <1>6, <1>8, <1>9, <1>10, OnlyCell

LEMMA EraseCount ==
  ASSUME IInv, CellInv, OpenHeld, CountOK, NEW s \in Cells, Erase(s)
  PROVE  CellInv' /\ OpenHeld' /\ CountOK'
<1> DEFINE c == cur[s]
<1>0. TypeOK /\ OwnInv /\ Local(s) /\ CellOK(s)
  BY DEF IInv, OwnInv, CellInv
<1>1. PICK l \in {"check", "net"} : pc' = [pc EXCEPT ![s] = l] /\ pc[s] \in {"ckErase", "rdErase"}
  <2>1. pc[s] \in {"ckErase", "rdErase"} /\ pc' = [pc EXCEPT ![s] = After[pc[s]]]
    BY DEF Erase, Goto
  <2>2. After[pc[s]] \in {"check", "net"}
    BY <2>1 DEF After
  <2> QED
    BY <2>1, <2>2
<1>2. /\ clients' = [clients EXCEPT ![s] =
                        [f \in FDs |-> IF clients[s][f] = c THEN NoConn ELSE clients[s][f]]]
      /\ cur' = [cur EXCEPT ![s] = NoConn]
      /\ UNCHANGED <<sock, arrived, clientAccept, clientJoin, next, clientsBuff, idx, run,
                     acc, faults>>
  BY DEF Erase, sockVars, countVars, accVars, bounds
<1>3. c \in Members(s) /\ sock[c] = NoFd /\ Looping(s)
  BY <1>0, <1>1 DEF CellOK, RemovalOK, Looping
<1>4. Only(s)
  BY <1>0, <1>1, <1>2 DEF Only, TypeOK
<1>5. pc'[s] = l /\ Buffered(s)' = Buffered(s) /\ Looping(s)'
  BY <1>0, <1>1, <1>2 DEF Buffered, TypeOK, Looping
<1>6. Members(s)' = Members(s) \ {c}
  <2>1. \A f \in FDs : clients'[s][f] = IF clients[s][f] = c THEN NoConn ELSE clients[s][f]
    BY <1>0, <1>2 DEF TypeOK
  <2> QED
    BY <2>1 DEF Members
<1>7. CellOK(s)'
  BY <1>5 DEF CellOK, RemovalOK, JoinOK, ClearOK
<1>8. OpenHeld'
  <2>1. \A d \in Holds(s) : d \in Holds(s)' \/ d = c
    BY <1>5, <1>6 DEF Holds, InHand
  <2> QED
    BY <1>0, <1>2, <1>3, <1>4, <2>1, OnlyHeld
<1>9. CountOK'
  <2>1. /\ At(DeleteSteps)' = At(DeleteSteps) /\ At(LeftSteps)' = At(LeftSteps) - 1
        /\ At({"rmLeave"})' = At({"rmLeave"})
    <3>1. l \in CellState
      BY DEF CellState
    <3> QED
      BY <1>0, <1>1, <3>1, AtMoves DEF DeleteSteps, LeftSteps
  <2>2. Open' = Open /\ Slots' = Slots
    BY <1>2, <2>1 DEF Open, Slots, Refusing
  <2>3. Cardinality(Joined') = Cardinality(Joined) - 1
    BY <1>0, <1>3, <1>4, <1>6, JoinedLess, Finite, OneLess
  <2>4. AllLooping' => AllLooping
    BY <1>3, <1>4 DEF AllLooping, Looping, Only
  <2>5. /\ clientJoin \in Int /\ Cardinality(Joined) \in Nat
        /\ At({"rmLeave"}) \in Nat /\ At(LeftSteps) \in Nat
    BY <1>0, Finite DEF TypeOK
  <2> QED
    BY <1>2, <2>1, <2>2, <2>3, <2>4, <2>5 DEF CountOK
<1> QED
  BY <1>0, <1>4, <1>7, <1>8, <1>9, OnlyCell

\* ClearClients closes sockets and touches no counter: from here on the limit is
\* all that is claimed of them.
LEMMA ClearCount ==
  ASSUME IInv, CellInv, ShutOK, OpenHeld, CountOK, NEW s \in Cells,
         FreeMap(s) \/ ClearMap(s) \/ FreeBuff(s) \/ ClearBuff(s)
  PROVE  CellInv' /\ OpenHeld' /\ CountOK'
<1>0. TypeOK /\ OwnInv /\ Local(s) /\ CellOK(s)
  BY DEF IInv, OwnInv, CellInv
<1>1. PICK l \in {"clearMap", "freeBuff", "clearBuff", "done"} :
         /\ pc' = [pc EXCEPT ![s] = l]
         /\ pc[s] \in {"freeMap", "clearMap", "freeBuff", "clearBuff"}
  BY DEF FreeMap, ClearMap, FreeBuff, ClearBuff, Goto
<1>2. /\ UNCHANGED <<arrived, clientAccept, clientJoin, next, cur, idx, run, acc, faults>>
      /\ clientsBuff' = clientsBuff \/ clientsBuff' = [clientsBuff EXCEPT ![s] = << >>]
      /\ clients' = clients \/ clients' = [clients EXCEPT ![s] = [f \in FDs |-> NoConn]]
  BY DEF FreeMap, ClearMap, FreeBuff, ClearBuff, sockVars, countVars, accVars, bounds
<1>3. /\ cur[s] = NoConn /\ pc'[s] = l /\ ~Looping(s) /\ ~Looping(s)' /\ InHand(s) = {}
  BY <1>0, <1>1 DEF Local, CurOK, Removing, Looping, InHand, TypeOK
<1>4. \A c \in Conns : sock'[c] = sock[c] \/ (sock'[c] = NoFd /\ c \in Holds(s))
  <2>1. \/ Free(Members(s)) \/ Free(Buffered(s)) \/ UNCHANGED sock
    BY DEF FreeMap, ClearMap, FreeBuff, ClearBuff, sockVars
  <2>2. Members(s) \subseteq Holds(s) /\ Buffered(s) \subseteq Holds(s)
    BY DEF Holds
  <2>3. ASSUME NEW cs, cs \subseteq Holds(s), Free(cs), NEW c \in Conns
        PROVE  sock'[c] = sock[c] \/ (sock'[c] = NoFd /\ c \in Holds(s))
    BY <2>3 DEF Free
  <2> QED
    BY <2>1, <2>2, <2>3
<1>5. Only(s)
  BY <1>0, <1>1, <1>2, <1>4 DEF Only, TypeOK
<1>6. Members(s) \subseteq Conns /\ Buffered(s) \subseteq Conns
  BY <1>0 DEF OwnInv, Arrived, Holds, TypeOK
<1>7. /\ CellOK(s)'
      /\ faults = 0 => \A c \in Holds(s) : c \in Holds(s)' \/ sock'[c] = NoFd
  <2>1. faults = 0 => ~run'[s]
    BY <1>0, <1>2, <1>3 DEF CellOK, ClearOK
  <2>2. RemovalOK(s)' /\ JoinOK(s)'
    BY <1>3 DEF RemovalOK, JoinOK
  <2>3. CASE FreeMap(s)
    <3>1. pc'[s] = "clearMap" /\ Members(s)' = Members(s) /\ Buffered(s)' = Buffered(s)
      BY <1>0, <2>3 DEF FreeMap, Goto, Members, Buffered, TypeOK
    <3>2. \A c \in Members(s) : sock'[c] = NoFd
      BY <1>6, <2>3 DEF FreeMap, Free
    <3> QED
      BY <1>2, <2>1, <2>2, <3>1, <3>2 DEF CellOK, ClearOK, Holds, InHand
  <2>4. CASE ClearMap(s)
    <3>1. pc'[s] = "freeBuff" /\ Members(s)' = {} /\ Buffered(s)' = Buffered(s)
      BY <1>0, <2>4 DEF ClearMap, Goto, Members, Buffered, TypeOK
    <3>2. \A c \in Members(s) : sock'[c] = NoFd
      BY <1>0, <2>4 DEF ClearMap, sockVars, CellOK, ClearOK
    <3> QED
      BY <1>2, <2>1, <2>2, <3>1, <3>2 DEF CellOK, ClearOK, Holds, InHand
  <2>5. CASE FreeBuff(s)
    <3>0. Members(s) = {}
      BY <1>0, <2>5 DEF FreeBuff, CellOK, ClearOK
    <3>1. /\ pc'[s] = "clearBuff" /\ Members(s)' = Members(s) /\ Buffered(s)' = Buffered(s)
      BY <1>0, <2>5 DEF FreeBuff, Goto, Members, Buffered, TypeOK
    <3>2. \A c \in Buffered(s) : sock'[c] = NoFd
      BY <1>6, <2>5 DEF FreeBuff, Free
    <3> QED
      BY <1>2, <2>1, <2>2, <3>0, <3>1, <3>2 DEF CellOK, ClearOK, Holds, InHand
  <2>6. CASE ClearBuff(s)
    <3>0. Members(s) = {}
      BY <1>0, <2>6 DEF ClearBuff, CellOK, ClearOK
    <3>1. pc'[s] = "done" /\ Members(s)' = Members(s) /\ clientsBuff'[s] = << >>
      BY <1>0, <2>6 DEF ClearBuff, Goto, Members, TypeOK
    <3>2. Len(clientsBuff'[s]) = 0 /\ Buffered(s)' = {}
      BY <3>1 DEF Buffered
    <3>3. faults = 0 => \A c \in Buffered(s) : sock'[c] = NoFd
      BY <1>0, <2>6 DEF ClearBuff, sockVars, CellOK, ClearOK
    <3> QED
      BY <1>2, <1>3, <2>1, <2>2, <3>0, <3>1, <3>2, <3>3 DEF CellOK, ClearOK, Holds, InHand
  <2> QED
    BY <2>3, <2>4, <2>5, <2>6
<1>8. OpenHeld'
  BY <1>0, <1>5, <1>7, OnlyHeld
<1>9. CountOK'
  <2>1. At(DeleteSteps)' = At(DeleteSteps)
    <3>1. l \in CellState
      BY DEF CellState
    <3> QED
      BY <1>0, <1>1, <3>1, AtMoves DEF DeleteSteps
  <2>2. Slots' = Slots
    BY <1>2, <2>1 DEF Slots, Refusing
  <2>3. Cardinality(Open') <= Cardinality(Open) /\ Cardinality(Open') \in Nat
    <3>1. Open' \subseteq Open
      BY <1>4 DEF Open
    <3> QED
      BY <3>1, Finite, FS_Subset, FS_CardinalityType
  <2>4. ~AllLooping'
    BY <1>3 DEF AllLooping
  <2>5. clientAccept \in Int /\ Refusing \in Nat /\ At(DeleteSteps) \in Nat
        /\ Cardinality(Open) \in Nat
    BY <1>0, Finite DEF TypeOK, Refusing
  <2>6. Slots \in Int
    BY <2>5 DEF Slots
  <2> QED
    BY <1>2, <2>2, <2>3, <2>4, <2>5, <2>6 DEF CountOK
<1> QED
  BY <1>0, <1>5, <1>7, <1>8, <1>9, OnlyCell
-----------------------------------------------------------------------------
(* The steps of the accept thread that move a client.                      *)

LEMMA AcceptCount ==
  ASSUME IInv, CellInv, OpenHeld, CountOK, NEW c \in Conns, Accept(c)
  PROVE  CellInv' /\ OpenHeld' /\ CountOK'
<1>0. TypeOK /\ OwnInv
  BY DEF IInv
<1>1. PICK f \in FDs : sock' = [sock EXCEPT ![c] = f]
  BY DEF Accept
<1>2. /\ c \notin arrived /\ arrived' = arrived \union {c} /\ next' = c /\ acc = "wait"
      /\ UNCHANGED <<clientJoin, clientsBuff, clients, cur, pc, idx, run, faults>>
      /\ \/ clientAccept < MaxClient /\ clientAccept' = clientAccept + 1 /\ acc' = "choose"
         \/ acc' = "refuse" /\ UNCHANGED clientAccept
  BY DEF Accept, cellVars, bounds
<1>3. \A d \in Conns : sock'[d] = IF d = c THEN f ELSE sock[d]
  BY <1>0, <1>1 DEF TypeOK
<1>4. sock[c] = NoFd /\ next = NoConn
  BY <1>0, <1>2 DEF OwnInv, Arrived, TypeOK
<1>5. CellInv'
  <2>1. ASSUME NEW t \in Cells PROVE CellOK(t)'
    <3>1. \A d \in Holds(t) : d \in Conns /\ d # c
      BY <1>0, <1>2 DEF OwnInv, Arrived, TypeOK
    <3>2. \A d \in Holds(t) : sock'[d] = sock[d]
      BY <1>3, <3>1
    <3> QED
      BY <1>0, <1>2, <3>2, CellFrame DEF CellInv
  <2> QED
    BY <2>1 DEF CellInv
<1>6. OpenHeld'
  <2>1. \A t \in Cells : Holds(t)' = Holds(t)
    BY <1>2 DEF Holds, Buffered, Members, InHand
  <2> QED
    BY <1>2, <1>3, <1>4, <2>1 DEF OpenHeld, Open
<1>7. CountOK'
  <2>1. /\ At(DeleteSteps)' = At(DeleteSteps) /\ At(LeftSteps)' = At(LeftSteps)
        /\ At({"rmLeave"})' = At({"rmLeave"})
        /\ (AllLooping' <=> AllLooping) /\ Joined' = Joined
    BY <1>2 DEF At, Standing, AllLooping, Looping, Joined, Members
  <2>2. IsFiniteSet(arrived')
    BY <1>2, FS_AddElement DEF CountOK
  <2>3. Cardinality(Open') = Cardinality(Open) + 1
    <3>1. c \notin Open /\ Open' = Open \union {c}
      BY <1>3, <1>4 DEF Open
    <3> QED
      BY <3>1, Finite, OneMore
  <2>4. clientAccept \in Int /\ At(DeleteSteps) \in Nat /\ Cardinality(Open) \in Nat
    BY <1>0, Finite DEF TypeOK
  <2>5. Slots' = Slots + 1 /\ Slots \in Int
    BY <1>2, <2>1, <2>4 DEF Slots, Refusing
  <2>6. clientAccept' <= MaxClient
    BY <1>2, <2>4 DEF CountOK
  <2> QED
    BY <1>2, <2>1, <2>2, <2>3, <2>4, <2>5, <2>6 DEF CountOK
<1> QED
  BY <1>5, <1>6, <1>7

\* destorySocket closes what was counted as being refused.
LEMMA RefuseCount ==
  ASSUME IInv, CellInv, OpenHeld, CountOK, Refuse
  PROVE  CellInv' /\ OpenHeld' /\ CountOK'
<1>0. TypeOK /\ OwnInv
  BY DEF IInv
<1>1. /\ next \in Conns /\ next # NoConn /\ next' = NoConn
      /\ sock' = [sock EXCEPT ![next] = NoFd] /\ acc = "refuse" /\ acc' = "loop"
      /\ UNCHANGED <<arrived, clientAccept, clientJoin, clientsBuff, clients, cur, pc, idx, run,
                     faults>>
  BY <1>0 DEF Refuse, TypeOK, cellVars, countVars, bounds
<1>2. sock[next] # NoFd /\ \A t \in Cells : next \notin Holds(t)
  BY <1>0, <1>1 DEF OwnInv, Arrived, Owned
<1>3. \A d \in Conns : sock'[d] = IF d = next THEN NoFd ELSE sock[d]
  BY <1>0, <1>1 DEF TypeOK
<1>4. CellInv'
  <2>1. ASSUME NEW t \in Cells PROVE CellOK(t)'
    <3>1. \A d \in Holds(t) : d \in Conns /\ d # next
      BY <1>0, <1>2 DEF OwnInv, Arrived, TypeOK
    <3>2. \A d \in Holds(t) : sock'[d] = sock[d]
      BY <1>3, <3>1
    <3> QED
      BY <1>0, <1>1, <3>2, CellFrame DEF CellInv
  <2> QED
    BY <2>1 DEF CellInv
<1>5. OpenHeld'
  <2>1. \A t \in Cells : Holds(t)' = Holds(t)
    BY <1>1 DEF Holds, Buffered, Members, InHand
  <2> QED
    BY <1>1, <1>3, <2>1 DEF OpenHeld, Open
<1>6. CountOK'
  <2>1. /\ At(DeleteSteps)' = At(DeleteSteps) /\ At(LeftSteps)' = At(LeftSteps)
        /\ At({"rmLeave"})' = At({"rmLeave"})
        /\ (AllLooping' <=> AllLooping) /\ Joined' = Joined
    BY <1>1 DEF At, Standing, AllLooping, Looping, Joined, Members
  <2>2. Cardinality(Open') = Cardinality(Open) - 1
    <3>1. next \in Open /\ Open' = Open \ {next}
      BY <1>1, <1>2, <1>3 DEF Open
    <3> QED
      BY <3>1, Finite, OneLess
  <2>3. clientAccept \in Int /\ At(DeleteSteps) \in Nat /\ Cardinality(Open) \in Nat
    BY <1>0, Finite DEF TypeOK
  <2>4. Slots' = Slots - 1 /\ Slots \in Int
    BY <1>1, <2>1, <2>3 DEF Slots, Refusing
  <2> QED
    BY <1>1, <2>1, <2>2, <2>3, <2>4 DEF CountOK
<1> QED
  BY <1>4, <1>5, <1>6

\* Nothing comes into the buffer of a cell that has left its loop, unless a wait
\* has failed.
LEMMA AcceptEnded ==
  ASSUME IInv, CellInv, ShutOK, NEW s \in Cells, ~Looping(s), faults = 0
  PROVE  acc = "done"
<1>1. ~run[s]
  BY DEF CellInv, CellOK, ClearOK
<1>2. s < closing \/ main = "joinCell"
  BY <1>1 DEF IInv, StopOK
<1>3. main \in {"delete", "joinCell", "closed"}
  BY <1>2 DEF ShutOK, Cells, IInv, TypeOK, MainState
<1> QED
  BY <1>3 DEF ShutOK

LEMMA AddClientCount ==
  ASSUME IInv, CellInv, ShutOK, OpenHeld, CountOK, AddClient
  PROVE  CellInv' /\ OpenHeld' /\ CountOK'
<1>a. PICK s \in Cells : s = pMin
  BY DEF IInv, TypeOK
<1>0. TypeOK /\ OwnInv /\ s \in Cells /\ CellOK(s)
  BY DEF IInv, CellInv
<1>1. /\ pc[s] # "join" /\ next' = NoConn /\ acc = "choose" /\ acc' = "loop"
      /\ next \in Conns
      /\ clientsBuff' = [clientsBuff EXCEPT ![s] = Append(clientsBuff[s], next)]
      /\ UNCHANGED <<sock, arrived, clientAccept, clientJoin, clients, cur, pc, idx, run, faults>>
  BY <1>a, <1>0 DEF AddClient, TypeOK, sockVars, countVars, bounds
<1>2. \A t \in Cells : Members(t)' = Members(t) /\ InHand(t)' = InHand(t)
  BY <1>1 DEF Members, InHand
<1>3. Buffered(s) \union {next} \subseteq Buffered(s)'
  <2> DEFINE n == Len(clientsBuff[s])
  <2>1. /\ n \in Nat /\ Len(clientsBuff'[s]) = n + 1 /\ clientsBuff'[s][n + 1] = next
        /\ \A i \in 1..n : clientsBuff'[s][i] = clientsBuff[s][i]
    BY <1>0, <1>1 DEF TypeOK
  <2> HIDE DEF n
  <2>2. n + 1 \in 1..Len(clientsBuff'[s]) /\ 1..n \subseteq 1..Len(clientsBuff'[s])
    BY <2>1
  <2>3. next \in Buffered(s)'
    BY <2>1, <2>2 DEF Buffered
  <2>4. Buffered(s) \subseteq Buffered(s)'
    BY <2>1, <2>2 DEF Buffered, n
  <2> QED
    BY <2>3, <2>4
<1>4. \A t \in Cells \ {s} : clientsBuff'[t] = clientsBuff[t] /\ Buffered(t)' = Buffered(t)
  <2>1. \A t \in Cells \ {s} : clientsBuff'[t] = clientsBuff[t]
    BY <1>0, <1>1 DEF TypeOK
  <2> QED
    BY <2>1 DEF Buffered
<1>5. CellInv'
  <2>1. ASSUME NEW t \in Cells \ {s} PROVE CellOK(t)'
    BY <1>0, <1>1, <1>4, CellFrame DEF CellInv
  <2>2. CellOK(s)'
    <3>1. RemovalOK(s)' /\ JoinOK(s)'
      BY <1>0, <1>1, <1>2 DEF CellOK, RemovalOK, JoinOK
    <3>2. faults = 0 => Looping(s)
      BY <1>0, <1>1, AcceptEnded
    <3>3. ClearOK(s)'
      BY <1>0, <1>1, <1>2, <3>2 DEF CellOK, ClearOK, Looping
    <3> QED
      BY <3>1, <3>3 DEF CellOK
  <2> QED
    BY <2>1, <2>2 DEF CellInv
<1>6. OpenHeld'
  <2>1. \A t \in Cells : Holds(t) \subseteq Holds(t)'
    BY <1>2, <1>3, <1>4 DEF Holds
  <2>2. next \in Holds(s)'
    BY <1>3 DEF Holds
  <2> QED
    BY <1>0, <1>1, <2>1, <2>2 DEF OpenHeld, Open
<1>7. CountOK'
  <2>1. /\ At(DeleteSteps)' = At(DeleteSteps) /\ At(LeftSteps)' = At(LeftSteps)
        /\ At({"rmLeave"})' = At({"rmLeave"}) /\ Open' = Open
        /\ (AllLooping' <=> AllLooping) /\ Joined' = Joined /\ Refusing' = Refusing
    BY <1>1 DEF At, Standing, AllLooping, Looping, Joined, Members, Open, Refusing
  <2> QED
    BY <1>1, <2>1 DEF CountOK, Slots
<1> QED
  BY <1>5, <1>6, <1>7
-----------------------------------------------------------------------------
(* The quiet steps, and the order of Close.                                *)

\* What a quiet step does to a cell: at most one cell changes its label or its
\* idx, a cell is never marked running again, and faults only grow.
LEMMA QuietCells ==
  ASSUME IInv, CellInv, ShutOK, Quiet
  PROVE  CellInv'
<1>0. TypeOK /\ OwnInv /\ UNCHANGED data
  BY QuietFrame DEF IInv
<1>1. \A t \in Cells : /\ clientsBuff'[t] = clientsBuff[t] /\ clients'[t] = clients[t]
                       /\ cur'[t] = cur[t] /\ sock' = sock
                       /\ Members(t)' = Members(t) /\ Buffered(t)' = Buffered(t)
  BY <1>0 DEF data, Members, Buffered
<1> USE DEF cellVars, bounds
<1>2. ASSUME NEW s \in Cells,
             faults' = faults \/ faults' > 0,
             \A t \in Cells \ {s} : ~run[t] => ~run'[t],
             \A t \in Cells \ {s} : idx'[t] = idx[t],
             NEW l \in CellState, pc' = [pc EXCEPT ![s] = l],
             CellOK(s)'
      PROVE  CellInv'
  <2>1. ASSUME NEW t \in Cells \ {s} PROVE CellOK(t)'
    <3>1. /\ pc'[t] = pc[t] /\ idx'[t] = idx[t] /\ (~run[t] => ~run'[t])
          /\ faults' = faults \/ faults' > 0
      BY <1>0, <1>2 DEF TypeOK
    <3> QED
      BY <1>0, <1>1, <3>1, CellFrame DEF CellInv
  <2> QED
    BY <1>2, <2>1 DEF CellInv
<1>3. ASSUME NEW s \in Cells, JoinBegin(s) PROVE CellInv'
  <2>1. /\ idx' = [idx EXCEPT ![s] = 0] /\ pc' = [pc EXCEPT ![s] = "join"]
        /\ run' = run /\ faults' = faults /\ pc[s] = "top"
    BY <1>3 DEF JoinBegin, Goto
  <2>2. /\ pc'[s] = "join" /\ idx'[s] = 0 /\ "join" \in CellState
        /\ \A t \in Cells \ {s} : idx'[t] = idx[t]
    BY <1>0, <2>1 DEF TypeOK, CellState
  <2>3. Buffered(s) \cap Members(s) = {}
    BY <1>0, <2>1 DEF OwnInv, Local, BufferOK
  <2>4. Len(clientsBuff[s]) \in Nat
    BY <1>0 DEF TypeOK
  <2>5. \A i \in 1..Len(clientsBuff[s]) : clientsBuff[s][i] \notin Members(s) /\ ~(i <= 0)
    BY <2>3, <2>4 DEF Buffered
  <2>6. JoinOK(s)'
    BY <1>1, <2>2, <2>4, <2>5 DEF JoinOK
  <2>7. RemovalOK(s)' /\ ClearOK(s)'
    BY <2>2 DEF RemovalOK, ClearOK, Looping
  <2> QED
    BY <1>2, <2>1, <2>2, <2>6, <2>7 DEF CellOK
<1>4. ASSUME NEW s \in Cells, NoJoin(s) \/ CheckDone(s) \/ NetStep(s) PROVE CellInv'
  <2>1. PICK l \in {"check", "net", "send", "top"} : pc' = [pc EXCEPT ![s] = l]
    BY <1>4 DEF NoJoin, CheckDone, NetStep, NetDone, SendWait, SendReturn, Goto
  <2>2. run' = run /\ faults' = faults /\ idx' = idx
    BY <1>4 DEF NoJoin, CheckDone, NetStep, NetDone, SendWait, SendReturn
  <2>3. pc'[s] = l /\ l \in CellState
    BY <1>0, <2>1 DEF TypeOK, CellState
  <2>4. CellOK(s)'
    BY <2>3 DEF CellOK, RemovalOK, JoinOK, ClearOK, Looping
  <2> QED
    BY <1>2, <2>1, <2>2, <2>3, <2>4
<1>5. ASSUME NEW s \in Cells, LoopExit(s) PROVE CellInv'
  <2>1. /\ pc' = [pc EXCEPT ![s] = "freeMap"] /\ ~run[s]
        /\ run' = run /\ faults' = faults /\ idx' = idx
    BY <1>5 DEF LoopExit, Goto
  <2>2. pc'[s] = "freeMap" /\ "freeMap" \in CellState
    BY <1>0, <2>1 DEF TypeOK, CellState
  <2>3. CellOK(s)'
    BY <2>1, <2>2 DEF CellOK, RemovalOK, JoinOK, ClearOK
  <2> QED
    BY <1>2, <2>1, <2>2, <2>3
\* From here on a wait has failed.
<1>6. ASSUME NEW s \in Cells, NetFail(s) \/ ExitSet(s) PROVE CellInv'
  <2>1. PICK l \in {"exitLock", "freeMap"} : pc' = [pc EXCEPT ![s] = l]
    BY <1>6 DEF NetFail, ExitSet, Goto
  <2>2. /\ \A t \in Cells \ {s} : ~run[t] => ~run'[t]
        /\ faults' > 0 /\ idx' = idx
    BY <1>0, <1>6 DEF NetFail, ExitSet, IInv, StopOK, TypeOK
  <2>3. pc'[s] = l /\ l \in CellState
    BY <1>0, <2>1 DEF TypeOK, CellState
  <2>4. CellOK(s)'
    BY <2>2, <2>3 DEF CellOK, RemovalOK, JoinOK, ClearOK
  <2> QED
    BY <1>2, <2>1, <2>2, <2>3, <2>4
\* No cell changes its label or its idx.
<1>7. CASE \/ AccTest \/ AccIdle \/ Choose \/ AccExitSet \/ AccFail
           \/ CloseAccept \/ CloseStep \/ UNCHANGED vars
  <2>1. UNCHANGED <<pc, idx>>
    BY <1>7 DEF AccTest, AccIdle, Choose, AccExitSet, AccFail, CloseAccept, CloseStep, JoinAcc,
                DeleteCell, JoinCell, CloseEnd, vars
  <2>2. run' = run \/ run' = [run EXCEPT ![closing] = FALSE]
    BY <1>7 DEF AccTest, AccIdle, Choose, AccExitSet, AccFail, CloseAccept, CloseStep, JoinAcc,
                DeleteCell, JoinCell, CloseEnd, vars
  <2>3. faults' = faults \/ faults' > 0
    BY <1>0, <1>7 DEF AccTest, AccIdle, Choose, AccExitSet, AccFail, CloseAccept, CloseStep,
                JoinAcc, DeleteCell, JoinCell, CloseEnd, vars, TypeOK
  <2>4. ASSUME NEW t \in Cells PROVE CellOK(t)'
    <3>1. ~run[t] => ~run'[t]
      BY <1>0, <2>2 DEF TypeOK
    <3> QED
      BY <1>0, <1>1, <2>1, <2>3, <3>1, CellFrame DEF CellInv
  <2> QED
    BY <2>4 DEF CellInv
<1> QED
  BY <1>3, <1>4, <1>5, <1>6, <1>7 DEF Quiet

LEMMA QuietCount ==
  ASSUME IInv, OpenHeld, CountOK, Quiet
  PROVE  OpenHeld' /\ CountOK'
<1> USE DEF mainVars, bounds, cellVars, countVars, accVars
<1>0. TypeOK /\ UNCHANGED data
  BY QuietFrame DEF IInv
<1>1. \A t \in Cells : /\ Looping(t)' => Looping(t)
                       /\ Removing(t)' <=> Removing(t)
                       /\ pc[t] # pc'[t] => ~Removing(t)
  BY <1>0, QuietFrame
<1>2. /\ UNCHANGED countVars
      /\ acc' = "refuse" <=> acc = "refuse"
      /\ faults' = 0 => faults = 0
  <2>1. ASSUME NEW s \in Cells,
               \/ JoinBegin(s) \/ NoJoin(s) \/ LoopExit(s) \/ CheckDone(s)
               \/ NetStep(s) \/ NetFail(s) \/ ExitSet(s)
        PROVE  UNCHANGED <<countVars, acc>> /\ (faults' = 0 => faults = 0)
    BY <1>0, <2>1 DEF JoinBegin, NoJoin, LoopExit, CheckDone, NetStep, NetDone, SendWait, SendReturn, NetFail, ExitSet, TypeOK
  <2>2. CASE \/ AccTest \/ AccIdle \/ Choose \/ AccExitSet \/ AccFail
             \/ CloseAccept \/ CloseStep \/ UNCHANGED vars
    BY <1>0, <2>2 DEF AccTest, AccIdle, Choose, AccExitSet, AccFail, CloseAccept, CloseStep,
         JoinAcc, DeleteCell, JoinCell, CloseEnd, vars, TypeOK
  <2> QED
    BY <2>1, <2>2 DEF Quiet
<1>3. OpenHeld'
  <2>1. \A t \in Cells : Holds(t)' = Holds(t)
    BY <1>0 DEF Holds, Buffered, Members, InHand, data
  <2> QED
    BY <1>0, <1>2, <2>1 DEF OpenHeld, Open, data
\* No quiet step is part of a removal.
<1>4. /\ At(DeleteSteps)' = At(DeleteSteps) /\ At(LeftSteps)' = At(LeftSteps)
      /\ At({"rmLeave"})' = At({"rmLeave"})
  <2>1. ASSUME NEW L, L \in {DeleteSteps, LeftSteps, {"rmLeave"}}
        PROVE  At(L)' = At(L)
    <3>1. \A t \in Cells : pc'[t] \in L <=> pc[t] \in L
      BY <1>1, <2>1 DEF Removing, DeleteSteps, LeftSteps
    <3> QED
      BY <3>1 DEF At, Standing
  <2> QED
    BY <2>1 DEF DeleteSteps, LeftSteps
<1>5. Joined' = Joined /\ Open' = Open /\ Refusing' = Refusing
  BY <1>0, <1>2 DEF Joined, Members, Open, Refusing, data
<1>6. AllLooping' => AllLooping
  BY <1>1 DEF AllLooping
<1>7. CountOK'
  BY <1>0, <1>2, <1>4, <1>5, <1>6 DEF CountOK, Slots, data
<1> QED
  BY <1>3, <1>7

LEMMA ShutStep ==
  ASSUME IInv, ShutOK, [Next]_vars
  PROVE  ShutOK'
<1> USE DEF mainVars, bounds, cellVars, accVars
<1>0. TypeOK
  BY DEF IInv
<1>1. ASSUME NEW s \in Cells,
             \/ JoinBegin(s) \/ NoJoin(s) \/ LoopExit(s) \/ CheckDone(s)
             \/ NetStep(s) \/ NetFail(s) \/ ExitSet(s)
      PROVE  ShutOK'
  BY <1>0, <1>1 DEF ShutOK, JoinBegin, NoJoin, LoopExit, CheckDone, NetStep, NetDone, SendWait, SendReturn, NetFail, ExitSet,
       TypeOK
<1>2. CASE AccTest \/ AccIdle \/ Choose \/ AccExitSet \/ AccFail
  BY <1>0, <1>2 DEF ShutOK, AccTest, AccIdle, Choose, AccExitSet, AccFail, TypeOK
<1>3. CASE CloseAccept \/ JoinAcc \/ DeleteCell
  BY <1>0, <1>3 DEF ShutOK, CloseAccept, JoinAcc, DeleteCell, TypeOK
<1>4. CASE JoinCell \/ CloseEnd \/ UNCHANGED vars
  BY <1>0, <1>4 DEF ShutOK, JoinCell, CloseEnd, vars, TypeOK
<1>5. CASE Moving
  <2>1. UNCHANGED <<accRun, main, closing, faults>>
    BY <1>5 DEF Moving, JoinOne, JoinEnd, RmLeave, Delete, Erase, CheckExpire, SelectDrop,
         Leave, EpollErase, FreeMap, ClearMap, FreeBuff, ClearBuff, Accept, AddClient, Refuse
  <2>2. acc' = acc \/ (acc # "done" /\ acc' # "exitLock")
    BY <1>5 DEF Moving, JoinOne, JoinEnd, RmLeave, Delete, Erase, CheckExpire, SelectDrop,
         Leave, EpollErase, FreeMap, ClearMap, FreeBuff, ClearBuff, Accept, AddClient, Refuse
  <2> QED
    BY <2>1, <2>2 DEF ShutOK
<1> QED
  BY <1>1, <1>2, <1>3, <1>4, <1>5, StepKinds DEF Quiet, CloseStep
-----------------------------------------------------------------------------
(* No client is deleted twice.                                             *)

\* What a cell that has left its loop has not deleted yet is open, and each entry
\* of its map names another client.
UnfreedOK(s) ==
    /\ pc[s] \in {"exitLock", "freeMap"} =>
          \A f \in FDs : clients[s][f] # NoConn => sock[clients[s][f]] = f
    /\ pc[s] \in {"exitLock", "freeMap", "clearMap", "freeBuff"} =>
          \A c \in Buffered(s) : sock[c] # NoFd

UnfreedInv == \A s \in Cells : UnfreedOK(s)

\* Whatever the code deletes next is an open client, and no two of the entries that
\* ClearClients goes through are the same one.
DeletesOpen ==
    /\ acc = "refuse" => sock[next] # NoFd
    /\ \A s \in Cells :
          /\ pc[s] \in DeleteSteps => sock[cur[s]] # NoFd
          /\ pc[s] = "freeMap" =>
                \A f \in FDs : clients[s][f] # NoConn => sock[clients[s][f]] = f
          /\ pc[s] = "freeBuff" =>
                /\ \A c \in Buffered(s) : sock[c] # NoFd
                /\ \A i, j \in 1..Len(clientsBuff[s]) :
                      clientsBuff[s][i] = clientsBuff[s][j] => i = j

LEMMA UnfreedFrame ==
  ASSUME UnfreedInv, NEW t \in Cells, clientsBuff'[t] = clientsBuff[t],
         clients'[t] = clients[t], pc'[t] = pc[t], \A c \in Holds(t) : sock'[c] = sock[c]
  PROVE  UnfreedOK(t)'
<1>1. Buffered(t)' = Buffered(t) /\ Buffered(t) \subseteq Holds(t)
  BY DEF Buffered, Holds
<1>2. \A f \in FDs : clients[t][f] # NoConn => clients[t][f] \in Holds(t)
  BY DEF Holds, Members
<1> QED
  BY <1>1, <1>2 DEF UnfreedInv, UnfreedOK

\* Where a cell leaves its loop, all it holds is open.
LEMMA LeavingLoop ==
  ASSUME OwnInv, NEW t \in Cells, Looping(t), ~Removing(t)
  PROVE  /\ \A f \in FDs : clients[t][f] # NoConn => sock[clients[t][f]] = f
         /\ \A c \in Buffered(t) : sock[c] # NoFd
<1>1. Local(t) /\ cur[t] = NoConn
  BY DEF OwnInv, Local, CurOK
<1> QED
  BY <1>1 DEF Local, ExactAt, BufferOK

LEMMA QuietUnfreed ==
  ASSUME IInv, UnfreedInv, Quiet
  PROVE  UnfreedInv'
<1>0. TypeOK /\ OwnInv /\ UNCHANGED data
  BY QuietFrame DEF IInv
<1>1. ASSUME NEW t \in Cells
      PROVE  /\ clientsBuff'[t] = clientsBuff[t] /\ clients'[t] = clients[t] /\ sock' = sock
             /\ Buffered(t)' = Buffered(t)
  BY <1>0 DEF data, Buffered
<1>2. ASSUME NEW t \in Cells, pc'[t] # pc[t]
      PROVE  /\ pc'[t] \notin {"clearMap", "freeBuff"}
             /\ pc'[t] \in {"exitLock", "freeMap"} =>
                   pc[t] = "exitLock" \/ (Looping(t) /\ ~Removing(t))
  <2>1. ASSUME NEW s \in Cells,
               \/ JoinBegin(s) \/ NoJoin(s) \/ LoopExit(s) \/ CheckDone(s)
               \/ NetStep(s) \/ NetFail(s) \/ ExitSet(s)
        PROVE  /\ pc'[t] \notin {"clearMap", "freeBuff"}
               /\ pc'[t] \in {"exitLock", "freeMap"} =>
                     pc[t] = "exitLock" \/ (Looping(t) /\ ~Removing(t))
    BY <1>0, <1>2, <2>1 DEF JoinBegin, NoJoin, LoopExit, CheckDone, NetStep, NetDone, SendWait, SendReturn, NetFail, ExitSet,
         Goto, TypeOK, Looping, Removing
  <2>2. CASE \/ AccTest \/ AccIdle \/ Choose \/ AccExitSet \/ AccFail
             \/ CloseAccept \/ CloseStep \/ UNCHANGED vars
    BY <1>2, <2>2 DEF AccTest, AccIdle, Choose, AccExitSet, AccFail, CloseAccept, CloseStep,
         JoinAcc, DeleteCell, JoinCell, CloseEnd, vars, cellVars
  <2> QED
    BY <2>1, <2>2 DEF Quiet
<1>3. ASSUME NEW t \in Cells PROVE UnfreedOK(t)'
  <2>1. CASE pc'[t] = pc[t]
    BY <1>1, <2>1, UnfreedFrame
  <2>2. CASE pc'[t] # pc[t] /\ pc[t] = "exitLock"
    BY <1>1, <1>2, <2>2 DEF UnfreedInv, UnfreedOK
  <2>3. CASE pc'[t] # pc[t] /\ pc[t] # "exitLock"
    BY <1>0, <1>1, <1>2, <2>3, LeavingLoop DEF UnfreedOK
  <2> QED
    BY <2>1, <2>2, <2>3
<1> QED
  BY <1>3 DEF UnfreedInv

\* A cell's own step closes only what it holds.
LEMMA OnlyUnfreed ==
  ASSUME TypeOK, OwnInv, UnfreedInv, NEW s \in Cells, Only(s), UnfreedOK(s)'
  PROVE  UnfreedInv'
<1>1. ASSUME NEW t \in Cells \ {s} PROVE UnfreedOK(t)'
  <2>1. \A c \in Holds(t) : c \in Conns /\ c \notin Holds(s)
    BY DEF OwnInv, Owned, Arrived, TypeOK
  <2>2. \A c \in Holds(t) : sock'[c] = sock[c]
    BY <2>1 DEF Only
  <2> QED
    BY <2>2, UnfreedFrame DEF Only
<1> QED
  BY <1>1 DEF UnfreedInv

\* Of the steps that move a client, those of a cell in its loop.
LEMMA LoopMoves ==
  ASSUME IInv, NEW s \in Cells,
         \/ JoinOne(s) \/ JoinEnd(s) \/ RmLeave(s) \/ Delete(s) \/ Erase(s)
         \/ \E f \in FDs : CheckExpire(s, f) \/ SelectDrop(s, f) \/ EpollErase(s, f)
  PROVE  Only(s) /\ Looping(s)'
<1>0. TypeOK /\ OwnInv /\ Local(s)
  BY DEF IInv, OwnInv
<1> USE DEF sockVars, countVars, accVars, bounds
<1>1. CASE JoinOne(s)
  <2>1. /\ clients' = [clients EXCEPT ![s][sock[clientsBuff[s][idx[s] + 1]]] =
                          clientsBuff[s][idx[s] + 1]]
        /\ idx' = [idx EXCEPT ![s] = idx[s] + 1] /\ pc[s] = "join"
        /\ UNCHANGED <<sock, arrived, next, clientsBuff, pc, cur, run, acc, faults>>
    BY <1>1 DEF JoinOne
  <2> QED
    BY <1>0, <2>1 DEF Only, Looping, TypeOK
<1>2. CASE JoinEnd(s)
  <2>1. PICK l \in {"top", "check"} : pc' = [pc EXCEPT ![s] = l]
    BY <1>2 DEF JoinEnd, Goto
  <2>2. /\ clientsBuff' = [clientsBuff EXCEPT ![s] = << >>]
        /\ UNCHANGED <<sock, arrived, next, clients, cur, idx, run, acc, faults>>
    BY <1>2 DEF JoinEnd
  <2> QED
    BY <1>0, <2>1, <2>2 DEF Only, Looping, TypeOK
<1>3. CASE RmLeave(s)
  <2>1. /\ pc' = [pc EXCEPT ![s] = "rmDelete"]
        /\ UNCHANGED <<sock, arrived, next, clients, clientsBuff, cur, idx, run, acc, faults>>
    BY <1>3 DEF RmLeave, Goto, After
  <2> QED
    BY <1>0, <2>1 DEF Only, Looping, TypeOK
<1>4. CASE Delete(s)
  <2>1. /\ pc[s] \in {"ckDelete", "rdDelete", "rmDelete"}
        /\ pc' = [pc EXCEPT ![s] = After[pc[s]]]
        /\ sock' = [sock EXCEPT ![cur[s]] = NoFd]
        /\ cur' = cur \/ cur' = [cur EXCEPT ![s] = NoConn]
        /\ UNCHANGED <<arrived, next, clients, clientsBuff, idx, run, acc, faults>>
    BY <1>4 DEF Delete, Goto
  <2>2. cur[s] \in Conns /\ cur[s] \in Holds(s)
    BY <1>0, <2>1 DEF Local, CurOK, Removing, Holds, InHand, TypeOK
  <2>3. After[pc[s]] \in {"ckErase", "rdErase", "net"}
    BY <2>1 DEF After
  <2>4. pc'[s] = After[pc[s]]
    BY <1>0, <2>1 DEF TypeOK
  <2> QED
    BY <1>0, <2>1, <2>2, <2>3, <2>4 DEF Only, Looping, TypeOK
<1>5. CASE Erase(s)
  <2>1. /\ pc[s] \in {"ckErase", "rdErase"} /\ pc' = [pc EXCEPT ![s] = After[pc[s]]]
        /\ clients' = [clients EXCEPT ![s] =
                          [f \in FDs |-> IF clients[s][f] = cur[s] THEN NoConn ELSE clients[s][f]]]
        /\ cur' = [cur EXCEPT ![s] = NoConn]
        /\ UNCHANGED <<sock, arrived, next, clientsBuff, idx, run, acc, faults>>
    BY <1>5 DEF Erase, Goto
  <2>2. After[pc[s]] \in {"check", "net"}
    BY <2>1 DEF After
  <2>3. pc'[s] = After[pc[s]]
    BY <1>0, <2>1 DEF TypeOK
  <2> QED
    BY <1>0, <2>1, <2>2, <2>3 DEF Only, Looping, TypeOK
<1>6. ASSUME NEW f \in FDs, CheckExpire(s, f) \/ SelectDrop(s, f) PROVE Only(s) /\ Looping(s)'
  <2>1. PICK l \in {"ckDelete", "rdDelete"} : pc' = [pc EXCEPT ![s] = l]
    BY <1>6 DEF CheckExpire, SelectDrop, Leave, Goto
  <2>2. /\ cur' = [cur EXCEPT ![s] = clients[s][f]]
        /\ UNCHANGED <<sock, arrived, next, clients, clientsBuff, idx, run, acc, faults>>
    BY <1>6 DEF CheckExpire, SelectDrop, Leave
  <2> QED
    BY <1>0, <2>1, <2>2 DEF Only, Looping, TypeOK
<1>7. ASSUME NEW f \in FDs, EpollErase(s, f) PROVE Only(s) /\ Looping(s)'
  <2>1. /\ cur' = [cur EXCEPT ![s] = clients[s][f]]
        /\ clients' = [clients EXCEPT ![s][sock[clients[s][f]]] = NoConn]
        /\ pc' = [pc EXCEPT ![s] = "rmLeave"]
        /\ UNCHANGED <<sock, arrived, next, clientsBuff, idx, run, acc, faults>>
    BY <1>7 DEF EpollErase, Goto
  <2> QED
    BY <1>0, <2>1 DEF Only, Looping, TypeOK
<1> QED
  BY <1>1, <1>2, <1>3, <1>4, <1>5, <1>6, <1>7

\* ClearClients: what the map and the buffer hold is different clients, so the
\* deletes of the one leave the other open.
LEMMA ClearUnfreed ==
  ASSUME IInv, UnfreedInv, NEW s \in Cells,
         FreeMap(s) \/ ClearMap(s) \/ FreeBuff(s) \/ ClearBuff(s)
  PROVE  UnfreedInv'
<1>0. TypeOK /\ OwnInv /\ Local(s) /\ UnfreedOK(s)
  BY DEF IInv, OwnInv, UnfreedInv
<1> USE DEF sockVars, accVars, bounds
<1>1. Members(s) \cap Buffered(s) = {} /\ Buffered(s) \subseteq Conns
  <2>1. pc[s] # "join"
    BY DEF FreeMap, ClearMap, FreeBuff, ClearBuff
  <2> QED
    BY <1>0, <2>1 DEF Local, BufferOK, OwnInv, Arrived, Holds, TypeOK
<1>2. ASSUME NEW t \in Cells \ {s}
      PROVE  UnfreedOK(t)'
  <2>1. /\ clientsBuff'[t] = clientsBuff[t] /\ clients'[t] = clients[t] /\ pc'[t] = pc[t]
    BY <1>0 DEF FreeMap, ClearMap, FreeBuff, ClearBuff, Goto, TypeOK
  <2>2. \A c \in Holds(t) : c \in Conns /\ c \notin Holds(s)
    BY <1>0 DEF OwnInv, Owned, Arrived, TypeOK
  <2>3. \A c \in Holds(t) : c \in Conns /\ c \notin Members(s) /\ c \notin Buffered(s)
    BY <2>2 DEF Holds
  <2>4. \A c \in Holds(t) : sock'[c] = sock[c]
    BY <2>3 DEF FreeMap, ClearMap, FreeBuff, ClearBuff, Free
  <2> QED
    BY <1>0, <2>1, <2>4, UnfreedFrame
<1>3. UnfreedOK(s)'
  <2>1. CASE FreeMap(s)
    <3>1. pc'[s] = "clearMap" /\ Buffered(s)' = Buffered(s)
      BY <1>0, <2>1 DEF FreeMap, Goto, Buffered, TypeOK
    <3>2. \A c \in Buffered(s) : sock[c] # NoFd
      BY <1>0, <2>1 DEF FreeMap, UnfreedOK
    <3>3. \A c \in Buffered(s) : sock'[c] = sock[c]
      BY <1>1, <2>1 DEF FreeMap, Free
    <3> QED
      BY <3>1, <3>2, <3>3 DEF UnfreedOK
  <2>2. CASE ClearMap(s)
    <3>1. pc'[s] = "freeBuff" /\ Buffered(s)' = Buffered(s) /\ sock' = sock
      BY <1>0, <2>2 DEF ClearMap, Goto, Buffered, TypeOK
    <3>2. \A c \in Buffered(s) : sock[c] # NoFd
      BY <1>0, <2>2 DEF ClearMap, UnfreedOK
    <3> QED
      BY <3>1, <3>2 DEF UnfreedOK
  <2>3. CASE FreeBuff(s) \/ ClearBuff(s)
    <3>1. pc'[s] \in {"clearBuff", "done"}
      BY <1>0, <2>3 DEF FreeBuff, ClearBuff, Goto, TypeOK
    <3> QED
      BY <3>1 DEF UnfreedOK
  <2> QED
    BY <2>1, <2>2, <2>3
<1> QED
  BY <1>2, <1>3 DEF UnfreedInv

\* The accept thread puts only an open client into a buffer, and closes only the
\* one in its hand, which no cell holds.
LEMMA AccUnfreed ==
  ASSUME IInv, UnfreedInv, (\E c \in Conns : Accept(c)) \/ AddClient \/ Refuse
  PROVE  UnfreedInv'
<1>0. TypeOK /\ OwnInv
  BY DEF IInv
<1> USE DEF sockVars, accVars, bounds, cellVars
<1>1. ASSUME NEW t \in Cells
      PROVE  /\ \A d \in Holds(t) : d \in Conns /\ d \in arrived /\ d # next
             /\ pc'[t] = pc[t] /\ clients'[t] = clients[t]
  <2>1. pc' = pc /\ clients' = clients
    BY DEF Accept, AddClient, Refuse
  <2> QED
    BY <1>0, <2>1 DEF OwnInv, Owned, Arrived, TypeOK
<1>2. ASSUME NEW c \in Conns, Accept(c) PROVE UnfreedInv'
  <2>1. c \notin arrived /\ clientsBuff' = clientsBuff
    BY <1>2 DEF Accept
  <2>2. PICK f \in FDs : sock' = [sock EXCEPT ![c] = f]
    BY <1>2 DEF Accept
  <2>3. ASSUME NEW t \in Cells PROVE UnfreedOK(t)'
    <3>1. \A d \in Holds(t) : sock'[d] = sock[d]
      BY <1>0, <1>1, <2>1, <2>2 DEF TypeOK
    <3> QED
      BY <1>1, <2>1, <3>1, UnfreedFrame
  <2> QED
    BY <2>3 DEF UnfreedInv
<1>3. CASE Refuse
  <2>1. sock' = [sock EXCEPT ![next] = NoFd] /\ clientsBuff' = clientsBuff
    BY <1>3 DEF Refuse
  <2>2. ASSUME NEW t \in Cells PROVE UnfreedOK(t)'
    <3>1. \A d \in Holds(t) : sock'[d] = sock[d]
      BY <1>0, <1>1, <2>1 DEF TypeOK
    <3> QED
      BY <1>1, <2>1, <3>1, UnfreedFrame
  <2> QED
    BY <2>2 DEF UnfreedInv
<1>4. CASE AddClient
  <2>1. PICK s \in Cells : s = pMin
    BY <1>0 DEF TypeOK
  <2>2. /\ sock' = sock /\ next \in Conns
        /\ clientsBuff' = [clientsBuff EXCEPT ![s] = Append(clientsBuff[s], next)]
    BY <1>0, <1>4, <2>1 DEF AddClient, TypeOK
  <2>3. sock[next] # NoFd
    BY <1>0, <2>2 DEF OwnInv, Arrived
  <2>4. ASSUME NEW t \in Cells \ {s} PROVE UnfreedOK(t)'
    <3>1. clientsBuff'[t] = clientsBuff[t]
      BY <1>0, <2>2 DEF TypeOK
    <3> QED
      BY <1>1, <2>2, <3>1, UnfreedFrame
  <2>5. UnfreedOK(s)'
    <3>1. clientsBuff[s] \in Seq(Conns) /\ clientsBuff'[s] = Append(clientsBuff[s], next)
      BY <1>0, <2>2 DEF TypeOK
    <3>2. \A c \in Buffered(s)' : c \in Buffered(s) \/ c = next
      BY <3>1, AppendProperties DEF Buffered
    <3> QED
      BY <1>1, <2>2, <2>3, <3>2 DEF UnfreedInv, UnfreedOK
  <2> QED
    BY <2>4, <2>5 DEF UnfreedInv
<1> QED
  BY <1>2, <1>3, <1>4
-----------------------------------------------------------------------------
(* A client stays where it is until it is closed.                          *)

\* A client comes into a cell only from the accept thread's hand, and leaves it
\* closed; the exception is the clear() of the buffer after a failed wait.
Keeps(s) ==
    \A c \in Conns :
        /\ c \in Holds(s) /\ c \notin Holds(s)' =>
              sock'[c] = NoFd \/ (faults > 0 /\ pc[s] = "clearBuff")
        /\ c \notin Holds(s) /\ c \in Holds(s)' => acc = "choose" /\ c = next /\ s = pMin

AllKeep == \A s \in Cells : Keeps(s)
ClientsStay == [][AllKeep]_vars

LEMMA KeepsSame ==
  ASSUME NEW s \in Cells, Buffered(s)' = Buffered(s), Members(s)' = Members(s), cur'[s] = cur[s]
  PROVE  Keeps(s)
<1>1. Holds(s)' = Holds(s)
  BY DEF Holds, InHand
<1> QED
  BY <1>1 DEF Keeps

\* Only the client in hand leaves, closed.
LEMMA LeavesClosed ==
  ASSUME NEW s, Holds(s) \subseteq Holds(s)' \union {cur[s]}, Holds(s)' \subseteq Holds(s),
         sock'[cur[s]] = NoFd
  PROVE  Keeps(s)
<1> SUFFICES ASSUME NEW c \in Conns
             PROVE  /\ c \in Holds(s) /\ c \notin Holds(s)' =>
                          sock'[c] = NoFd \/ (faults > 0 /\ pc[s] = "clearBuff")
                    /\ c \notin Holds(s) /\ c \in Holds(s)' =>
                          acc = "choose" /\ c = next /\ s = pMin
  BY DEF Keeps
<1> QED
  OBVIOUS

LEMMA OnlyKeeps ==
  ASSUME NEW s \in Cells, Only(s), Keeps(s)
  PROVE  \A t \in Cells : Keeps(t)
<1>1. ASSUME NEW t \in Cells \ {s} PROVE Keeps(t)
  <2>1. Buffered(t)' = Buffered(t) /\ Members(t)' = Members(t) /\ cur'[t] = cur[t]
    BY DEF Only, Buffered, Members
  <2> QED
    BY <2>1, KeepsSame
<1> QED
  BY <1>1

\* Within a removal the client goes from the map to the hand of the cell; it is
\* closed before it leaves both.
LEMMA LoopKeeps ==
  ASSUME IInv, CellInv, NEW s \in Cells,
         \/ JoinOne(s) \/ JoinEnd(s) \/ RmLeave(s) \/ Delete(s) \/ Erase(s)
         \/ \E f \in FDs : CheckExpire(s, f) \/ SelectDrop(s, f) \/ EpollErase(s, f)
  PROVE  Keeps(s)
<1>0. TypeOK /\ OwnInv /\ Local(s) /\ CellOK(s)
  BY DEF IInv, OwnInv, CellInv
<1> USE DEF sockVars, countVars, accVars, bounds
<1>1. CASE JoinOne(s)
  <2>1. Buffered(s)' = Buffered(s) /\ cur'[s] = cur[s]
    BY <1>1 DEF JoinOne, Buffered
  <2>2. Holds(s)' = Holds(s)
    BY <1>1, <2>1, JoinOneMoves DEF Holds, InHand
  <2> QED
    BY <2>2 DEF Keeps
<1>2. CASE JoinEnd(s)
  <2>1. /\ clientsBuff' = [clientsBuff EXCEPT ![s] = << >>] /\ idx[s] = Len(clientsBuff[s])
        /\ clients' = clients /\ cur' = cur /\ pc[s] = "join"
    BY <1>2 DEF JoinEnd
  <2>2. clientsBuff'[s] = << >> /\ Len(<< >>) = 0
    BY <1>0, <2>1 DEF TypeOK
  <2>3. Buffered(s)' = {} /\ Buffered(s) \subseteq Members(s) /\ Members(s)' = Members(s)
    BY <1>0, <2>1, <2>2 DEF Buffered, Members, CellOK, JoinOK
  <2>4. Holds(s)' = Holds(s)
    BY <2>1, <2>3 DEF Holds, InHand
  <2> QED
    BY <2>4 DEF Keeps
<1>3. CASE RmLeave(s)
  <2>1. Buffered(s)' = Buffered(s) /\ Members(s)' = Members(s) /\ cur'[s] = cur[s]
    BY <1>3 DEF RmLeave, Buffered, Members
  <2> QED
    BY <2>1, KeepsSame
<1>4. CASE Delete(s)
  <2>1. /\ pc[s] \in {"ckDelete", "rdDelete", "rmDelete"}
        /\ sock' = [sock EXCEPT ![cur[s]] = NoFd]
        /\ cur' = cur \/ cur' = [cur EXCEPT ![s] = NoConn]
        /\ Buffered(s)' = Buffered(s) /\ Members(s)' = Members(s)
    BY <1>4 DEF Delete, Buffered, Members
  <2>2. cur[s] \in Conns /\ sock'[cur[s]] = NoFd
    BY <1>0, <2>1 DEF Local, CurOK, Removing, TypeOK
  <2>3. cur'[s] = cur[s] \/ cur'[s] = NoConn
    BY <1>0, <2>1 DEF TypeOK
  <2>4. Holds(s) \subseteq Holds(s)' \union {cur[s]} /\ Holds(s)' \subseteq Holds(s)
    BY <2>1, <2>3 DEF Holds, InHand
  <2> QED
    BY ONLY <2>2, <2>4, LeavesClosed
<1>5. CASE Erase(s)
  <2>1. /\ pc[s] \in {"ckErase", "rdErase"}
        /\ clients' = [clients EXCEPT ![s] =
                          [f \in FDs |-> IF clients[s][f] = cur[s] THEN NoConn ELSE clients[s][f]]]
        /\ cur' = [cur EXCEPT ![s] = NoConn] /\ sock' = sock
        /\ Buffered(s)' = Buffered(s)
    BY <1>5 DEF Erase, Buffered
  <2>2. sock[cur[s]] = NoFd
    BY <1>0, <2>1 DEF CellOK, RemovalOK
  <2>3. /\ \A f \in FDs : clients'[s][f] = IF clients[s][f] = cur[s] THEN NoConn ELSE clients[s][f]
        /\ cur'[s] = NoConn
    BY <1>0, <2>1 DEF TypeOK
  <2>4. Members(s)' = Members(s) \ {cur[s]} /\ InHand(s)' = {}
    BY <2>3 DEF Members, InHand
  <2>5. Holds(s) \subseteq Holds(s)' \union {cur[s]} /\ Holds(s)' \subseteq Holds(s)
    BY <2>1, <2>4 DEF Holds, InHand
  <2>6. sock'[cur[s]] = NoFd
    BY <2>1, <2>2
  <2> QED
    BY ONLY <2>5, <2>6, LeavesClosed
<1>6. ASSUME NEW f \in FDs, CheckExpire(s, f) \/ SelectDrop(s, f) \/ EpollErase(s, f)
      PROVE  Keeps(s)
  <2> DEFINE c == clients[s][f]
  <2>1. /\ c # NoConn /\ pc[s] \in {"check", "net"}
        /\ cur' = [cur EXCEPT ![s] = c] /\ Buffered(s)' = Buffered(s)
        /\ clients' = clients \/ clients' = [clients EXCEPT ![s][sock[c]] = NoConn]
    BY <1>6 DEF CheckExpire, SelectDrop, EpollErase, Leave, Buffered
  <2>2. cur[s] = NoConn /\ Looping(s)
    BY <1>0, <2>1 DEF Local, CurOK, Removing, Looping
  <2>3. \A g \in FDs : clients[s][g] # NoConn => sock[clients[s][g]] = g
    BY <1>0, <2>2 DEF Local, ExactAt
  <2>4. cur'[s] = c /\ c \in Members(s) /\ sock[c] = f
    BY <1>0, <2>1, <2>3 DEF TypeOK, Members
  <2>5. \A g \in FDs : clients'[s][g] = clients[s][g] \/ (g = f /\ clients'[s][g] = NoConn)
    BY <1>0, <2>1, <2>4 DEF TypeOK
  <2>6. Members(s) \ {c} \subseteq Members(s)' /\ Members(s)' \subseteq Members(s)
    BY <2>5 DEF Members
  <2>7. Holds(s)' = Holds(s)
    BY <2>1, <2>2, <2>4, <2>6 DEF Holds, InHand
  <2> QED
    BY <2>7 DEF Keeps
<1> QED
  BY <1>1, <1>2, <1>3, <1>4, <1>5, <1>6

LEMMA ClearKeeps ==
  ASSUME IInv, CellInv, NEW s \in Cells,
         FreeMap(s) \/ ClearMap(s) \/ FreeBuff(s) \/ ClearBuff(s)
  PROVE  Only(s) /\ Keeps(s)
<1>0. TypeOK /\ OwnInv /\ CellOK(s)
  BY DEF IInv, CellInv
<1> USE DEF sockVars, countVars, accVars, bounds
<1>1. Members(s) \subseteq Conns /\ Buffered(s) \subseteq Conns
  BY <1>0 DEF OwnInv, Arrived, Holds, TypeOK
<1>2. Only(s)
  <2>1. \A c \in Conns : sock'[c] = sock[c] \/ (sock'[c] = NoFd /\ c \in Holds(s))
    BY DEF FreeMap, ClearMap, FreeBuff, ClearBuff, Free, Holds
  <2>2. /\ UNCHANGED <<arrived, next, cur, idx, run, acc, faults>>
        /\ clientsBuff' = clientsBuff \/ clientsBuff' = [clientsBuff EXCEPT ![s] = << >>]
        /\ clients' = clients \/ clients' = [clients EXCEPT ![s] = [f \in FDs |-> NoConn]]
        /\ \E l \in CellState : pc' = [pc EXCEPT ![s] = l]
    BY DEF FreeMap, ClearMap, FreeBuff, ClearBuff, Goto, CellState
  <2> QED
    BY <1>0, <2>1, <2>2 DEF Only, TypeOK
<1>3. CASE FreeMap(s) \/ FreeBuff(s)
  <2>1. Buffered(s)' = Buffered(s) /\ Members(s)' = Members(s) /\ cur'[s] = cur[s]
    BY <1>3 DEF FreeMap, FreeBuff, Buffered, Members
  <2> QED
    BY <1>2, <2>1, KeepsSame
<1>4. CASE ClearMap(s)
  <2>1. /\ \A c \in Members(s) : sock[c] = NoFd
        /\ Members(s)' = {} /\ Buffered(s)' = Buffered(s) /\ cur'[s] = cur[s] /\ sock' = sock
    BY <1>0, <1>4 DEF ClearMap, CellOK, ClearOK, Members, Buffered, TypeOK
  <2>2. Holds(s) \subseteq Holds(s)' \union Members(s) /\ Holds(s)' \subseteq Holds(s)
    BY <2>1 DEF Holds, InHand
  <2>3. ASSUME NEW c \in Conns, c \in Holds(s), c \notin Holds(s)' PROVE sock'[c] = NoFd
    BY <2>1, <2>2, <2>3
  <2>4. ASSUME NEW c \in Conns, c \notin Holds(s), c \in Holds(s)' PROVE FALSE
    BY <2>2, <2>4
  <2> QED
    BY <1>2, <2>3, <2>4 DEF Keeps
<1>5. CASE ClearBuff(s)
  <2>1. /\ pc[s] = "clearBuff" /\ clientsBuff'[s] = << >>
        /\ Members(s)' = Members(s) /\ cur'[s] = cur[s] /\ sock' = sock
    BY <1>0, <1>5 DEF ClearBuff, Members, TypeOK
  <2>2. Len(<< >>) = 0 /\ Buffered(s)' = {}
    BY <2>1 DEF Buffered
  <2>3. faults = 0 => \A c \in Buffered(s) : sock'[c] = NoFd
    BY <1>0, <2>1 DEF CellOK, ClearOK
  <2>4. Holds(s) \subseteq Holds(s)' \union Buffered(s) /\ Holds(s)' \subseteq Holds(s)
    BY <2>1, <2>2 DEF Holds, InHand
  <2>5. faults = 0 \/ faults > 0
    BY <1>0 DEF TypeOK
  <2>6. ASSUME NEW c \in Conns, c \in Holds(s), c \notin Holds(s)'
        PROVE  sock'[c] = NoFd \/ (faults > 0 /\ pc[s] = "clearBuff")
    BY <2>1, <2>3, <2>4, <2>5, <2>6
  <2>7. ASSUME NEW c \in Conns, c \notin Holds(s), c \in Holds(s)' PROVE FALSE
    BY <2>4, <2>7
  <2> QED
    BY <1>2, <2>6, <2>7 DEF Keeps
<1> QED
  BY <1>3, <1>4, <1>5, <1>2

\* The accept thread gives what it has in hand to the cell it chose, nothing else.
LEMMA AccKeeps ==
  ASSUME IInv, (\E c \in Conns : Accept(c)) \/ AddClient \/ Refuse, NEW t \in Cells
  PROVE  Keeps(t)
<1>0. TypeOK
  BY DEF IInv
<1> USE DEF cellVars
<1>1. clients' = clients /\ cur' = cur
  BY DEF Accept, AddClient, Refuse
<1>2. Members(t)' = Members(t) /\ cur'[t] = cur[t]
  BY <1>1 DEF Members
<1>3. CASE clientsBuff'[t] = clientsBuff[t]
  <2>1. Buffered(t)' = Buffered(t)
    BY <1>3 DEF Buffered
  <2> QED
    BY <1>2, <2>1, KeepsSame
<1>4. CASE clientsBuff'[t] # clientsBuff[t]
  <2>1. AddClient
    BY <1>4 DEF Accept, Refuse
  <2>2. acc = "choose" /\ clientsBuff' = [clientsBuff EXCEPT ![pMin] = Append(clientsBuff[pMin], next)]
    BY <2>1 DEF AddClient
  <2>3. t = pMin /\ clientsBuff'[t] = Append(clientsBuff[t], next)
    BY <1>0, <1>4, <2>2 DEF TypeOK
  <2>4. clientsBuff[t] \in Seq(Conns) /\ next \in Conns
    BY <1>0, <2>2 DEF TypeOK
  <2>5. Buffered(t)' = Buffered(t) \union {next}
    <3> DEFINE n == Len(clientsBuff[t])
    <3>1. /\ n \in Nat /\ Len(clientsBuff'[t]) = n + 1 /\ clientsBuff'[t][n + 1] = next
          /\ \A i \in 1..n : clientsBuff'[t][i] = clientsBuff[t][i]
      BY <2>3, <2>4
    <3> HIDE DEF n
    <3>2. \A i : i \in 1..(n + 1) <=> i \in 1..n \/ i = n + 1
      BY <3>1
    <3> QED
      BY <3>1, <3>2 DEF Buffered, n
  <2>6. Holds(t)' = Holds(t) \union {next}
    BY <1>2, <2>5 DEF Holds, InHand
  <2>7. ASSUME NEW c \in Conns, c \in Holds(t), c \notin Holds(t)' PROVE FALSE
    BY <2>6, <2>7
  <2>8. ASSUME NEW c \in Conns, c \notin Holds(t), c \in Holds(t)' PROVE c = next
    BY <2>6, <2>8
  <2> QED
    BY <2>2, <2>3, <2>7, <2>8 DEF Keeps
<1> QED
  BY <1>3, <1>4
-----------------------------------------------------------------------------
(* The theorems.                                                           *)

\* The counts, the order of Close and the ownership hold together initially, and
\* every step keeps them.
THEOREM CountInductive == Spec => []CountInv
<1>1. Init => CellInv /\ ShutOK /\ OpenHeld /\ CountOK
  <2> SUFFICES ASSUME Init PROVE CellInv /\ ShutOK /\ OpenHeld /\ CountOK
    OBVIOUS
  <2>1. CellInv
    BY DEF Init, CellInv, CellOK, RemovalOK, JoinOK, ClearOK, Looping
  <2>2. ShutOK
    BY DEF Init, ShutOK
  <2>3. Open = {} /\ Joined = {} /\ OpenHeld
    BY DEF Init, Open, OpenHeld, Joined, Members
  <2>4. Standing(DeleteSteps) = {} /\ Standing(LeftSteps) = {} /\ Standing({"rmLeave"}) = {}
    BY DEF Init, Standing, DeleteSteps, LeftSteps
  <2>5. /\ At(DeleteSteps) = 0 /\ At(LeftSteps) = 0 /\ At({"rmLeave"}) = 0
        /\ Cardinality(Open) = 0 /\ Cardinality(Joined) = 0 /\ IsFiniteSet(arrived)
    BY <2>3, <2>4, FS_EmptySet DEF Init, At
  <2>6. Slots = 0
    BY <2>5 DEF Init, Slots, Refusing
  <2>7. CountOK
    BY <2>5, <2>6 DEF Init, CountOK
  <2> QED
    BY <2>1, <2>2, <2>3, <2>7
<1>2. ASSUME IInv, CellInv, ShutOK, OpenHeld, CountOK, [Next]_vars
      PROVE  CellInv' /\ ShutOK' /\ OpenHeld' /\ CountOK'
  <2>1. ShutOK'
    BY <1>2, ShutStep
  <2>2. CASE Quiet
    BY <1>2, <2>1, <2>2, QuietCells, QuietCount
  <2>3. ASSUME NEW s \in Cells, JoinOne(s) \/ JoinEnd(s) \/ RmLeave(s) \/ Delete(s) \/ Erase(s)
        PROVE  CellInv' /\ OpenHeld' /\ CountOK'
    BY <1>2, <2>3, JoinOneCount, JoinEndCount, RmLeaveCount, DeleteCount, EraseCount
  <2>4. ASSUME NEW s \in Cells, NEW f \in FDs,
               CheckExpire(s, f) \/ SelectDrop(s, f) \/ EpollErase(s, f)
        PROVE  CellInv' /\ OpenHeld' /\ CountOK'
    BY <1>2, <2>4, LeaveCount, EpollEraseCount
  <2>5. ASSUME NEW s \in Cells, FreeMap(s) \/ ClearMap(s) \/ FreeBuff(s) \/ ClearBuff(s)
        PROVE  CellInv' /\ OpenHeld' /\ CountOK'
    BY <1>2, <2>5, ClearCount
  <2>6. CASE (\E c \in Conns : Accept(c)) \/ AddClient \/ Refuse
    BY <1>2, <2>1, <2>6, AcceptCount, AddClientCount, RefuseCount
  <2> QED
    BY <1>2, <2>1, <2>2, <2>3, <2>4, <2>5, <2>6, StepKinds DEF Moving
<1> QED
  BY <1>1, <1>2, Inductive, PTL DEF Spec, CountInv

\* The connection limit: however the accept thread and the cells interleave,
\* never more than nMaxClient clients are admitted, and the sockets open are at
\* most the admitted ones, one being refused and one per cell between
\* OnNetLeave and delete (TcpServer.hpp:34-35, 221-233, 296-302).
THEOREM LimitHolds == Spec => []LimitRespected
<1>1. CountInv => LimitRespected
  <2> SUFFICES ASSUME CountInv PROVE LimitRespected
    OBVIOUS
  <2>1. Cardinality(Windows) = At(DeleteSteps)
    BY DEF Windows, At, Standing, DeleteSteps
  <2> QED
    BY <2>1 DEF CountInv, CountOK, Slots, Refusing, LimitRespected
<1> QED
  BY <1>1, CountInductive, PTL

\* The two counters the threads share tell the truth as long as every cell is in
\* its loop (TcpServer.hpp:288-302).
THEOREM CountersTrue == Spec => []CountersExact
<1>1. CountInv => CountersExact
  <2> SUFFICES ASSUME CountInv, \A s \in Cells : Looping(s) PROVE CountersExact
    BY DEF CountersExact
  <2>1. /\ Cardinality(Windows) = At(DeleteSteps)
        /\ Cardinality({s \in Cells : pc[s] \in {"ckDelete", "ckErase", "rdDelete", "rdErase"}})
             = At(LeftSteps)
    BY DEF Windows, At, Standing, DeleteSteps, LeftSteps
  <2>2. Cardinality({s \in Cells : pc[s] = "rmLeave"}) = At({"rmLeave"})
    <3>1. {s \in Cells : pc[s] = "rmLeave"} = Standing({"rmLeave"})
      BY DEF Standing
    <3> QED
      BY <3>1 DEF At
  <2>3. /\ Cardinality(Open) = clientAccept + At(DeleteSteps) + Refusing
        /\ clientJoin + At(LeftSteps) = Cardinality(Joined) + At({"rmLeave"})
    BY DEF CountInv, CountOK, AllLooping, Slots
  <2> QED
    BY <2>1, <2>2, <2>3 DEF CountersExact, Joined, Refusing
<1> QED
  BY <1>1, CountInductive, PTL

\* When Close has returned and no wait had failed, every socket the server
\* accepted is closed: those in the maps, those still in a buffer and the one
\* the accept thread had in hand (TcpServer.hpp:270-286, Server.hpp:233-246).
THEOREM NothingLeftOpen == Spec => []CloseFreesAll
<1>1. CountInv => CloseFreesAll
  <2> SUFFICES ASSUME CountInv, main = "closed", faults = 0 PROVE Open = {}
    BY DEF CloseFreesAll
  <2>1. acc = "done" /\ closing > NumCells
    BY DEF CountInv, ShutOK
  <2>2. next = NoConn
    BY <2>1 DEF CountInv, IInv, TypeOK
  <2>3. \A s \in Cells : pc[s] = "done"
    BY <2>1 DEF CountInv, IInv, CloseJoinsCells, Freed, Cells, TypeOK
  <2>4. \A s \in Cells : Holds(s) = {}
    BY <2>3 DEF CountInv, CellInv, CellOK, ClearOK, Holds, InHand, IInv, OwnInv, Local, CurOK,
                Removing
  <2> QED
    BY <2>2, <2>4 DEF CountInv, OpenHeld, Open
<1> QED
  BY <1>1, CountInductive, PTL

\* Each open socket is in the accept thread's hand or in exactly one cell.
HeldOnce ==
    faults = 0 =>
        \A c \in Open :
            /\ c = next \/ \E s \in Cells : c \in Holds(s)
            /\ \A s \in Cells : c \in Holds(s) =>
                  c # next /\ \A t \in Cells \ {s} : c \notin Holds(t)

\* Without a failed wait no socket is ever lost: whoever closes it still has it.
\* The run cells_dead shows that one failed wait is enough to lose one
\* (Server.hpp:233-246).
THEOREM NoSocketLost == Spec => []HeldOnce
<1>1. CountInv => HeldOnce
  BY DEF CountInv, OpenHeld, HeldOnce, IInv, OwnInv, Owned
<1> QED
  BY <1>1, CountInductive, PTL

\* No client is deleted twice, whatever fails: a removal, ClearClients and the
\* accept thread close only what is still open, each client through one entry
\* (Server.hpp:133-139, 233-246, TcpServer.hpp:231).
THEOREM DeletedOnce == Spec => []DeletesOpen
<1>1. Init => UnfreedInv
  BY DEF Init, UnfreedInv, UnfreedOK
<1>2. ASSUME IInv, UnfreedInv, [Next]_vars PROVE UnfreedInv'
  <2>1. CASE Quiet
    BY <1>2, <2>1, QuietUnfreed
  <2>2. ASSUME NEW s \in Cells,
               \/ JoinOne(s) \/ JoinEnd(s) \/ RmLeave(s) \/ Delete(s) \/ Erase(s)
               \/ \E f \in FDs : CheckExpire(s, f) \/ SelectDrop(s, f) \/ EpollErase(s, f)
        PROVE  UnfreedInv'
    <3>1. Only(s) /\ Looping(s)'
      BY <1>2, <2>2, LoopMoves
    <3>2. UnfreedOK(s)'
      BY <3>1 DEF Looping, UnfreedOK
    <3> QED
      BY <1>2, <3>1, <3>2, OnlyUnfreed DEF IInv
  <2>3. ASSUME NEW s \in Cells, FreeMap(s) \/ ClearMap(s) \/ FreeBuff(s) \/ ClearBuff(s)
        PROVE  UnfreedInv'
    BY <1>2, <2>3, ClearUnfreed
  <2>4. CASE (\E c \in Conns : Accept(c)) \/ AddClient \/ Refuse
    BY <1>2, <2>4, AccUnfreed
  <2> QED
    BY <1>2, <2>1, <2>2, <2>3, <2>4, StepKinds DEF Moving
<1>3. CountInv /\ UnfreedInv => DeletesOpen
  <2> SUFFICES ASSUME CountInv, UnfreedInv PROVE DeletesOpen
    OBVIOUS
  <2>1. TypeOK /\ OwnInv
    BY DEF CountInv, IInv
  <2>2. acc = "refuse" => sock[next] # NoFd
    BY <2>1 DEF TypeOK, OwnInv, Arrived
  <2>3. ASSUME NEW s \in Cells, pc[s] \in DeleteSteps PROVE sock[cur[s]] # NoFd
    BY <2>3 DEF CountInv, CellInv, CellOK, RemovalOK, DeleteSteps
  <2>4. ASSUME NEW s \in Cells
        PROVE  \A i, j \in 1..Len(clientsBuff[s]) : clientsBuff[s][i] = clientsBuff[s][j] => i = j
    BY <2>1 DEF OwnInv, Local, BufferOK
  <2> QED
    BY <2>2, <2>3, <2>4 DEF DeletesOpen, UnfreedInv, UnfreedOK
<1> QED
  BY <1>1, <1>2, <1>3, Inductive, CountInductive, PTL DEF Spec

\* A client is given to one cell, never changes it and leaves it only closed.  The
\* one step of the whole server that can drop an open client is _clientsBuff.clear()
\* in ClearClients, after a failed wait (Server.hpp:55-69, 133-139, 233-246).
THEOREM StaysInCell == Spec => ClientsStay
<1>1. ASSUME IInv, CellInv, [Next]_vars PROVE AllKeep
  <2>1. CASE Quiet
    <3>1. UNCHANGED data
      BY <1>1, <2>1, QuietFrame DEF IInv
    <3>2. ASSUME NEW t \in Cells PROVE Keeps(t)
      <4>1. Buffered(t)' = Buffered(t) /\ Members(t)' = Members(t) /\ cur'[t] = cur[t]
        BY <3>1 DEF data, Buffered, Members
      <4> QED
        BY <4>1, KeepsSame
    <3> QED
      BY <3>2 DEF AllKeep
  <2>2. ASSUME NEW s \in Cells,
               \/ JoinOne(s) \/ JoinEnd(s) \/ RmLeave(s) \/ Delete(s) \/ Erase(s)
               \/ \E f \in FDs : CheckExpire(s, f) \/ SelectDrop(s, f) \/ EpollErase(s, f)
        PROVE  AllKeep
    BY <1>1, <2>2, LoopMoves, LoopKeeps, OnlyKeeps DEF AllKeep
  <2>3. ASSUME NEW s \in Cells, FreeMap(s) \/ ClearMap(s) \/ FreeBuff(s) \/ ClearBuff(s)
        PROVE  AllKeep
    BY <1>1, <2>3, ClearKeeps, OnlyKeeps DEF AllKeep
  <2>4. CASE (\E c \in Conns : Accept(c)) \/ AddClient \/ Refuse
    BY <1>1, <2>4, AccKeeps DEF AllKeep
  <2> QED
    BY <1>1, <2>1, <2>2, <2>3, <2>4, StepKinds DEF Moving
<1>2. CountInv => IInv /\ CellInv
  BY DEF CountInv
<1> QED
  BY <1>1, <1>2, CountInductive, PTL DEF Spec, ClientsStay
===============================================================================
