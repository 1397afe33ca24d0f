--------------------------- MODULE CellServerProofs ---------------------------
(***************************************************************************)
(* CellServer.tla for any number of cells, descriptors and connections:    *)
(* a client has one owner, the maps are exact although descriptors are     *)
(* reused, no client pushes another out of a map, and a cell is freed only *)
(* when its thread has ended.                                              *)
(***************************************************************************)
EXTENDS CellServer, SequenceTheorems, TLAPS

\* What a cell refers to, the client it is removing included.
InHand(s) == {cur[s]} \ {NoConn}
Holds(s) == Buffered(s) \union Members(s) \union InHand(s)

\* The kernel never gives out an open descriptor.
FdUnique ==
    \A c, d \in Conns : c # d /\ sock[c] # NoFd => sock[c] # sock[d]

\* Only a connection that has arrived is open, in hand or held.
Arrived ==
    /\ \A c \in Conns : sock[c] # NoFd => c \in arrived
    /\ next # NoConn => next \in arrived /\ sock[next] # NoFd
    /\ \A s \in Cells : Holds(s) \subseteq arrived

\* OneOwner, the removal in hand included.
Owned ==
    /\ \A s \in Cells : next \notin Holds(s)
    /\ \A s, t \in Cells : s # t => Holds(s) \cap Holds(t) = {}

\* A buffer holds a client once; outside the join loop none that is also in the
\* map or being removed; while the cell runs its loop only open ones.
BufferOK(s) ==
    /\ \A i, j \in 1..Len(clientsBuff[s]) :
          clientsBuff[s][i] = clientsBuff[s][j] => i = j
    /\ pc[s] # "join" => Buffered(s) \cap (Members(s) \union InHand(s)) = {}
    /\ Looping(s) => \A c \in Buffered(s) : sock[c] # NoFd

\* The client in hand matches the step of the removal.
Removing(s) ==
    pc[s] \in {"ckDelete", "ckErase", "rdDelete", "rdErase", "rmLeave", "rmDelete"}
CurOK(s) ==
    /\ cur[s] # NoConn <=> Removing(s)
    /\ pc[s] \in {"rmLeave", "rmDelete"} => cur[s] \notin Members(s)

\* MapExact for one cell.
ExactAt(s) ==
    Looping(s) =>
        \A f \in FDs : clients[s][f] \notin {NoConn, cur[s]} => sock[clients[s][f]] = f

Local(s) == BufferOK(s) /\ CurOK(s) /\ ExactAt(s)

\* The thread of a cell has left its loop and Exit.
Ended(s) == Clearing(s) \/ pc[s] = "done"

\* A cell is told to stop only by its Close, or by its own Exit after a failed
\* wait, and then it has left its loop.
StopOK ==
    /\ main = "joinCell" => closing <= NumCells
    /\ \A s \in Cells :
          /\ ~run[s] => \/ faults > 0 /\ Ended(s)
                        \/ s < closing
                        \/ main = "joinCell" /\ s = closing
          /\ pc[s] = "exitLock" => faults > 0

OwnInv == FdUnique /\ Arrived /\ Owned /\ \A s \in Cells : Local(s)
IInv == TypeOK /\ OwnInv /\ StopOK /\ CloseJoinsCells

\* DoNetEvents without a removal: it ends, or enters or leaves a send().
NetStep(s) == NetDone(s) \/ SendWait(s) \/ SendReturn(s)

\* The steps that only move a program counter, a flag or a bound.
Quiet ==
    \/ \E s \in Cells : \/ JoinBegin(s) \/ NoJoin(s) \/ LoopExit(s) \/ CheckDone(s)
                       \/ NetStep(s) \/ NetFail(s) \/ ExitSet(s)
    \/ AccTest \/ AccIdle \/ Choose \/ AccExitSet \/ AccFail
    \/ CloseAccept \/ CloseStep
    \/ UNCHANGED vars

\* The steps that move or free a client.
Moving ==
    \/ \E s \in Cells :
          \/ JoinOne(s) \/ JoinEnd(s) \/ RmLeave(s) \/ Delete(s) \/ Erase(s)
          \/ \E f \in FDs : CheckExpire(s, f) \/ SelectDrop(s, f) \/ EpollErase(s, f)
          \/ FreeMap(s) \/ ClearMap(s) \/ FreeBuff(s) \/ ClearBuff(s)
    \/ \E c \in Conns : Accept(c)
    \/ AddClient
    \/ Refuse

LEMMA StepKinds == [Next]_vars => Quiet \/ Moving
BY DEF Next, CellStep, AccStep, Quiet, Moving, NetStep

-----------------------------------------------------------------------------
(* Types.                                                                  *)

USE CellsAssumption, NoFdAssumption, NoConnAssumption, LimitAssumption,
    PollersAssumption, BoundsAssumption

LEMMA InitType == Init => TypeOK
<1> SUFFICES ASSUME Init PROVE TypeOK
  OBVIOUS
<1> USE DEF Init
<1>1. /\ pMin \in Cells /\ probe \in 1..(NumCells + 1) /\ closing \in 1..(NumCells + 1)
      /\ leaves \in 0..MaxLeaves /\ faults \in 0..MaxFaults
  BY DEF Cells
<1>2. /\ pc \in [Cells -> CellState] /\ acc \in AccState /\ main \in MainState
      /\ clientsBuff \in [Cells -> Seq(Conns)]
  BY DEF CellState, AccState, MainState
<1>3. /\ sock \in [Conns -> FDs \union {NoFd}]
      /\ clients \in [Cells -> [FDs -> Conns \union {NoConn}]]
      /\ cur \in [Cells -> Conns \union {NoConn}] /\ next \in Conns \union {NoConn}
      /\ idx \in [Cells -> Nat]
  OBVIOUS
<1>4. run \in [Cells -> BOOLEAN] /\ accRun \in BOOLEAN
  OBVIOUS
<1>5. arrived \subseteq Conns /\ clientAccept \in Int /\ clientJoin \in Int
  OBVIOUS
<1>6. acc \in {"choose", "refuse"} <=> next # NoConn
  OBVIOUS
<1> QED
  BY <1>1, <1>2, <1>3, <1>4, <1>5, <1>6 DEF TypeOK

LEMMA QuietType == TypeOK /\ StopOK /\ Quiet => TypeOK'
<1> SUFFICES ASSUME TypeOK, StopOK, Quiet PROVE TypeOK'
  OBVIOUS
<1> USE DEF TypeOK, sockVars, countVars, cellVars, accVars, mainVars, bounds
<1>1. ASSUME NEW s \in Cells,
             JoinBegin(s) \/ NoJoin(s) \/ LoopExit(s) \/ CheckDone(s) \/ NetStep(s)
      PROVE  TypeOK'
  <2>1. CASE JoinBegin(s)
    BY <2>1 DEF JoinBegin, Goto, CellState
  <2>2. CASE NoJoin(s) \/ LoopExit(s)
    BY <2>2 DEF NoJoin, LoopExit, Goto, CellState
  <2>3. CASE CheckDone(s) \/ NetStep(s)
    BY <2>3 DEF CheckDone, NetStep, NetDone, SendWait, SendReturn, Goto, CellState
  <2> QED
    BY <1>1, <2>1, <2>2, <2>3
<1>2. ASSUME NEW s \in Cells, NetFail(s) PROVE TypeOK'
  BY <1>2 DEF NetFail, Goto, CellState
<1>3. ASSUME NEW s \in Cells, ExitSet(s) PROVE TypeOK'
  BY <1>3 DEF ExitSet, Goto, CellState
<1>4. CASE Choose
  <2>1. pMin' \in Cells /\ probe' \in 1..(NumCells + 1)
    BY <1>4 DEF Choose, Cells
  <2> QED
    BY <1>4, <2>1 DEF Choose
<1>5. CASE AccTest \/ AccIdle \/ AccExitSet \/ AccFail
  <2>1. CASE AccTest \/ AccIdle
    BY <2>1 DEF AccTest, AccIdle, AccState
  <2>2. CASE AccExitSet
    BY <2>2 DEF AccExitSet, AccState
  <2>3. CASE AccFail
    BY <2>3 DEF AccFail, AccState
  <2> QED
    BY <1>5, <2>1, <2>2, <2>3
<1>6. CASE CloseAccept \/ JoinAcc \/ CloseEnd
  BY <1>6 DEF CloseAccept, JoinAcc, CloseEnd, MainState
<1>7. CASE DeleteCell
  BY <1>7 DEF DeleteCell, MainState, Cells
<1>8. CASE JoinCell
  BY <1>8 DEF JoinCell, MainState, StopOK
<1>9. CASE UNCHANGED vars
  BY <1>9 DEF vars
<1> QED
  BY <1>1, <1>2, <1>3, <1>4, <1>5, <1>6, <1>7, <1>8, <1>9 DEF Quiet, CloseStep

LEMMA MovingType == TypeOK /\ Moving => TypeOK'
<1> SUFFICES ASSUME TypeOK, Moving PROVE TypeOK'
  OBVIOUS
<1> USE DEF TypeOK, sockVars, countVars, cellVars, accVars, mainVars, bounds
<1>1. ASSUME NEW s \in Cells, JoinOne(s) PROVE TypeOK'
  <2>1. clientsBuff[s][idx[s] + 1] \in Conns
    BY <1>1, ElementOfSeq DEF JoinOne
  <2>2. clients' \in [Cells -> [FDs -> Conns \union {NoConn}]]
    BY <1>1, <2>1 DEF JoinOne
  <2> QED
    BY <1>1, <2>2 DEF JoinOne
<1>2. ASSUME NEW s \in Cells, JoinEnd(s) PROVE TypeOK'
  <2>1. clientsBuff' \in [Cells -> Seq(Conns)]
    BY <1>2 DEF JoinEnd
  <2> QED
    BY <1>2, <2>1 DEF JoinEnd, Goto, CellState
<1>3. ASSUME NEW s \in Cells, NEW f \in FDs, CheckExpire(s, f) \/ SelectDrop(s, f)
      PROVE  TypeOK'
  <2>1. PICK l \in {"ckDelete", "rdDelete"} : Leave(s, f, l)
    BY <1>3 DEF CheckExpire, SelectDrop
  <2>2. pc' \in [Cells -> CellState]
    BY <2>1 DEF Leave, Goto, CellState
  <2>3. leaves' \in 0..MaxLeaves /\ clientAccept' \in Int /\ clientJoin' \in Int
    BY <2>1 DEF Leave
  <2>4. cur' \in [Cells -> Conns \union {NoConn}]
    BY <2>1 DEF Leave
  <2>5. UNCHANGED <<poller, sockVars, clientsBuff, clients, idx, run, accVars,
                    mainVars, faults>>
    BY <2>1 DEF Leave
  <2> QED
    BY <2>2, <2>3, <2>4, <2>5
<1>4. ASSUME NEW s \in Cells, NEW f \in FDs, EpollErase(s, f) PROVE TypeOK'
  <2>1. clients' \in [Cells -> [FDs -> Conns \union {NoConn}]]
    BY <1>4 DEF EpollErase
  <2>2. pc' \in [Cells -> CellState]
    BY <1>4 DEF EpollErase, Goto, CellState
  <2> QED
    BY <1>4, <2>1, <2>2 DEF EpollErase
<1>5. ASSUME NEW s \in Cells, RmLeave(s) PROVE TypeOK'
  BY <1>5 DEF RmLeave, Goto, After, CellState
<1>6. ASSUME NEW s \in Cells, Delete(s) PROVE TypeOK'
  <2>1. pc' \in [Cells -> CellState]
    BY <1>6 DEF Delete, Goto, After, CellState
  <2>2. cur' \in [Cells -> Conns \union {NoConn}]
    BY <1>6 DEF Delete
  <2> QED
    BY <1>6, <2>1, <2>2 DEF Delete
<1>7. ASSUME NEW s \in Cells, Erase(s) PROVE TypeOK'
  BY <1>7 DEF Erase, Goto, After, CellState
<1>8. ASSUME NEW s \in Cells, FreeMap(s) \/ ClearMap(s) \/ FreeBuff(s) PROVE TypeOK'
  <2>1. CASE FreeMap(s)
    BY <2>1 DEF FreeMap, Free, Goto, CellState
  <2>2. CASE ClearMap(s)
    BY <2>2 DEF ClearMap, Goto, CellState
  <2>3. CASE FreeBuff(s)
    BY <2>3 DEF FreeBuff, Free, Goto, CellState
  <2> QED
    BY <1>8, <2>1, <2>2, <2>3
<1>9. ASSUME NEW s \in Cells, ClearBuff(s) PROVE TypeOK'
  <2>1. clientsBuff' \in [Cells -> Seq(Conns)]
    BY <1>9 DEF ClearBuff
  <2> QED
    BY <1>9, <2>1 DEF ClearBuff, Goto, CellState
<1>10. ASSUME NEW c \in Conns, Accept(c) PROVE TypeOK'
  BY <1>10 DEF Accept, AccState, Cells
<1>11. CASE AddClient
  <2>1. clientsBuff' \in [Cells -> Seq(Conns)]
    BY <1>11 DEF AddClient
  <2> QED
    BY <1>11, <2>1 DEF AddClient, AccState
<1>12. CASE Refuse
  BY <1>12 DEF Refuse, AccState
<1> QED
  BY <1>1, <1>2, <1>3, <1>4, <1>5, <1>6, <1>7, <1>8, <1>9, <1>10, <1>11, <1>12
  DEF Moving
-----------------------------------------------------------------------------
(* Ownership.                                                              *)

data == <<sock, arrived, next, clientsBuff, clients, cur>>

LEMMA InitOwn == Init => OwnInv
<1> SUFFICES ASSUME Init PROVE OwnInv
  OBVIOUS
<1>1. \A s \in Cells : Buffered(s) = {} /\ Members(s) = {} /\ InHand(s) = {}
  BY DEF Init, Buffered, Members, InHand
<1>2. FdUnique /\ Arrived /\ Owned
  BY <1>1 DEF Init, FdUnique, Arrived, Owned, Holds
<1>3. ASSUME NEW s \in Cells PROVE Local(s)
  <2>1. Len(clientsBuff[s]) = 0
    BY DEF Init
  <2>2. BufferOK(s)
    BY <1>1, <2>1 DEF BufferOK
  <2>3. CurOK(s) /\ ExactAt(s)
    BY DEF Init, CurOK, ExactAt, Removing
  <2> QED
    BY <2>2, <2>3 DEF Local
<1> QED
  BY <1>2, <1>3 DEF OwnInv

\* No quiet step touches the data; none enters or leaves a removal, comes back
\* into the loop or leaves the join loop.
LEMMA QuietFrame ==
  ASSUME TypeOK, Quiet
  PROVE  /\ UNCHANGED data
         /\ \A s \in Cells : /\ pc'[s] # "join" => pc[s] # "join"
                             /\ Looping(s)' => Looping(s)
                             /\ Removing(s)' <=> Removing(s)
                             /\ pc[s] # pc'[s] => ~Removing(s)
<1> USE DEF TypeOK, data, sockVars, countVars, cellVars, accVars, mainVars, bounds,
            Looping, Removing
<1>1. ASSUME NEW s \in Cells,
             \/ JoinBegin(s) \/ NoJoin(s) \/ LoopExit(s) \/ CheckDone(s)
             \/ NetStep(s) \/ NetFail(s) \/ ExitSet(s)
      PROVE  UNCHANGED data
  BY <1>1 DEF JoinBegin, NoJoin, LoopExit, CheckDone, NetStep, NetDone, SendWait, SendReturn, NetFail, ExitSet
<1>2. ASSUME NEW s \in Cells,
             \/ JoinBegin(s) \/ NoJoin(s) \/ LoopExit(s) \/ CheckDone(s)
             \/ NetStep(s) \/ NetFail(s) \/ ExitSet(s)
      PROVE  \E l \in {"join", "check", "freeMap", "net", "send", "top", "exitLock"} :
                /\ pc' = [pc EXCEPT ![s] = l]
                /\ pc[s] \in {"top", "check", "net", "send", "exitLock"}
                /\ pc[s] = "exitLock" => l = "freeMap"
  BY <1>2 DEF JoinBegin, NoJoin, LoopExit, CheckDone, NetStep, NetDone, SendWait, SendReturn, NetFail, ExitSet, Goto
<1>3. CASE \/ Choose \/ AccTest \/ AccIdle \/ AccExitSet \/ AccFail \/ CloseAccept \/ CloseStep
           \/ UNCHANGED vars
  <2>1. UNCHANGED <<data, pc>>
    BY <1>3 DEF Choose, AccTest, AccIdle, AccExitSet, AccFail, CloseAccept, CloseStep, JoinAcc,
                DeleteCell, JoinCell, CloseEnd, vars
  <2> QED
    BY <2>1
<1>4. ASSUME NEW s \in Cells, NEW l \in {"join", "check", "freeMap", "net", "send", "top", "exitLock"},
             pc' = [pc EXCEPT ![s] = l],
             pc[s] \in {"top", "check", "net", "send", "exitLock"},
             pc[s] = "exitLock" => l = "freeMap",
             NEW t \in Cells
      PROVE  /\ pc'[t] # "join" => pc[t] # "join"
             /\ Looping(t)' => Looping(t)
             /\ Removing(t)' <=> Removing(t)
             /\ pc[t] # pc'[t] => ~Removing(t)
  BY <1>4
<1> QED
  BY <1>1, <1>2, <1>3, <1>4 DEF Quiet

LEMMA QuietOwn == TypeOK /\ OwnInv /\ Quiet => OwnInv'
<1> SUFFICES ASSUME TypeOK, OwnInv, Quiet PROVE OwnInv'
  OBVIOUS
<1>1. UNCHANGED data
  BY QuietFrame
<1>2. \A s \in Cells : /\ pc'[s] # "join" => pc[s] # "join"
                       /\ Looping(s)' => Looping(s)
                       /\ Removing(s)' <=> Removing(s)
                       /\ pc[s] # pc'[s] => ~Removing(s)
  BY QuietFrame
<1>3. \A s \in Cells : /\ Buffered(s)' = Buffered(s) /\ Members(s)' = Members(s)
                       /\ InHand(s)' = InHand(s) /\ Holds(s)' = Holds(s)
  BY <1>1 DEF Buffered, Members, InHand, Holds, data
<1>4. FdUnique' /\ Arrived' /\ Owned'
  BY <1>1, <1>3 DEF OwnInv, FdUnique, Arrived, Owned, data
<1>5. ASSUME NEW s \in Cells PROVE Local(s)'
  <2>1. Local(s)
    BY DEF OwnInv
  <2>2. BufferOK(s)'
    BY <1>1, <1>2, <1>3, <2>1 DEF Local, BufferOK, data
  <2>3. CurOK(s)'
    BY <1>1, <1>2, <1>3, <2>1 DEF Local, CurOK, Removing, data
  <2>4. ExactAt(s)'
    BY <1>1, <1>2, <2>1 DEF Local, ExactAt, data
  <2> QED
    BY <2>2, <2>3, <2>4 DEF Local
<1> QED
  BY <1>4, <1>5 DEF OwnInv

\* A step of cell s that keeps what s holds or gives some of it up, closes no
\* other client and leaves the other cells alone preserves the ownership.
LEMMA CellOwn ==
  ASSUME TypeOK, TypeOK', OwnInv, NEW s \in Cells,
         UNCHANGED <<arrived, next>>,
         \A t \in Cells \ {s} : /\ clientsBuff'[t] = clientsBuff[t]
                                /\ clients'[t] = clients[t]
                                /\ cur'[t] = cur[t]
                                /\ pc'[t] = pc[t],
         Holds(s)' \subseteq Holds(s),
         \A c \in Conns : \/ sock'[c] = sock[c]
                          \/ sock'[c] = NoFd /\ c \in Holds(s),
         Local(s)'
  PROVE  OwnInv'
<1>1. \A t \in Cells \ {s} : /\ Buffered(t)' = Buffered(t) /\ Members(t)' = Members(t)
                             /\ InHand(t)' = InHand(t) /\ Holds(t)' = Holds(t)
  BY DEF Buffered, Members, InHand, Holds
<1>2. \A t \in Cells : Holds(t)' \subseteq Holds(t)
  BY <1>1
<1>3. \A t \in Cells \ {s} : \A c \in Holds(t) : c \in Conns => sock'[c] = sock[c]
  BY DEF OwnInv, Owned
<1>4. FdUnique'
  BY DEF OwnInv, FdUnique
<1>5. Arrived'
  <2>1. next # NoConn => sock'[next] = sock[next]
    BY DEF OwnInv, Owned, TypeOK
  <2>2. \A c \in Conns : sock'[c] # NoFd => sock[c] # NoFd
    OBVIOUS
  <2> QED
    BY <1>2, <2>1, <2>2 DEF OwnInv, Arrived
<1>6. Owned'
  BY <1>2 DEF OwnInv, Owned
<1>7. ASSUME NEW t \in Cells \ {s} PROVE Local(t)'
  <2>1. Local(t)
    BY DEF OwnInv
  <2>2. \A c \in Holds(t) : c \in Conns /\ sock'[c] = sock[c]
    BY <1>3 DEF OwnInv, Arrived, TypeOK
  <2>3. BufferOK(t)'
    <3>1. \A c \in Buffered(t) : sock'[c] = sock[c]
      BY <2>2 DEF Holds
    <3> QED
      BY <1>1, <2>1, <3>1 DEF Local, BufferOK, Looping
  <2>4. CurOK(t)'
    BY <1>1, <2>1 DEF Local, CurOK, Removing
  <2>5. ExactAt(t)'
    <3>1. \A f \in FDs : clients[t][f] # NoConn => sock'[clients[t][f]] = sock[clients[t][f]]
      BY <2>2 DEF Holds, Members
    <3> QED
      BY <2>1, <3>1 DEF Local, ExactAt, Looping
  <2> QED
    BY <2>3, <2>4, <2>5 DEF Local
<1> QED
  BY <1>4, <1>5, <1>6, <1>7 DEF OwnInv
-----------------------------------------------------------------------------
(* The steps of a cell that move a client.                                 *)

LEMMA JoinOneOwn ==
  ASSUME TypeOK, TypeOK', OwnInv, NEW s \in Cells, JoinOne(s)
  PROVE  OwnInv'
<1> USE DEF JoinOne
<1> DEFINE c == clientsBuff[s][idx[s] + 1]
<1>0. idx[s] + 1 \in 1..Len(clientsBuff[s])
  BY DEF TypeOK
<1>1. c \in Conns /\ c \in Buffered(s)
  BY <1>0, ElementOfSeq DEF TypeOK, Buffered
<1>2. Local(s) /\ pc[s] = "join" /\ cur[s] = NoConn /\ sock[c] \in FDs
  <2>1. Local(s)
    BY DEF OwnInv
  <2>2. cur[s] = NoConn
    BY <2>1 DEF Local, CurOK, Removing
  <2>3. sock[c] # NoFd
    BY <1>1, <2>1 DEF Local, BufferOK, Looping
  <2> QED
    BY <1>1, <2>1, <2>2, <2>3 DEF TypeOK
<1> HIDE DEF c
<1>3. /\ clients' = [clients EXCEPT ![s][sock[c]] = c]
      /\ UNCHANGED <<sock, arrived, next, clientsBuff, pc, cur>>
  BY DEF c, sockVars, accVars
<1>4. \A f \in FDs : clients'[s][f] = IF f = sock[c] THEN c ELSE clients[s][f]
  BY <1>2, <1>3 DEF TypeOK
<1>5. Buffered(s)' = Buffered(s) /\ InHand(s)' = InHand(s)
  BY <1>3 DEF Buffered, InHand
<1>6. Members(s)' \subseteq Members(s) \union {c}
  BY <1>4 DEF Members
<1>7. Holds(s)' \subseteq Holds(s)
  BY <1>1, <1>5, <1>6 DEF Holds
<1>8. BufferOK(s)'
  BY <1>2, <1>3, <1>5 DEF Local, BufferOK, Looping
<1>9. CurOK(s)'
  BY <1>2, <1>3 DEF CurOK, Local, Removing
<1>10. ExactAt(s)'
  BY <1>2, <1>3, <1>4 DEF ExactAt, Local, Looping
<1> QED
  BY <1>3, <1>7, <1>8, <1>9, <1>10, CellOwn DEF Local, TypeOK

LEMMA JoinEndOwn ==
  ASSUME TypeOK, TypeOK', OwnInv, NEW s \in Cells, JoinEnd(s)
  PROVE  OwnInv'
<1>1. /\ clientsBuff' = [clientsBuff EXCEPT ![s] = << >>]
      /\ \E l \in {"top", "check"} : pc' = [pc EXCEPT ![s] = l]
      /\ pc[s] = "join"
      /\ UNCHANGED <<sock, arrived, next, clients, cur>>
  BY DEF JoinEnd, Goto, sockVars, accVars
<1>2. Local(s)
  BY DEF OwnInv
<1>3. Len(clientsBuff'[s]) = 0 /\ Buffered(s)' = {}
  BY <1>1 DEF TypeOK, Buffered
<1>4. Members(s)' = Members(s) /\ InHand(s)' = InHand(s)
  BY <1>1 DEF Members, InHand
<1>5. Holds(s)' \subseteq Holds(s)
  BY <1>3, <1>4 DEF Holds
<1>6. BufferOK(s)'
  BY <1>3 DEF BufferOK
<1>7. CurOK(s)' /\ ExactAt(s)'
  BY <1>1, <1>2 DEF CurOK, ExactAt, Local, Looping, Removing, TypeOK
<1> QED
  BY <1>1, <1>5, <1>6, <1>7, CellOwn DEF Local, TypeOK

LEMMA LeaveOwn ==
  ASSUME TypeOK, TypeOK', OwnInv, NEW s \in Cells, NEW f \in FDs,
         CheckExpire(s, f) \/ SelectDrop(s, f)
  PROVE  OwnInv'
<1> DEFINE c == clients[s][f]
<1>1. /\ c # NoConn /\ pc[s] \in {"check", "net"}
      /\ cur' = [cur EXCEPT ![s] = c]
      /\ \E l \in {"ckDelete", "rdDelete"} : pc' = [pc EXCEPT ![s] = l]
      /\ UNCHANGED <<sock, arrived, next, clients, clientsBuff>>
  BY DEF CheckExpire, SelectDrop, Leave, Goto, sockVars, accVars
<1>2. Local(s) /\ cur[s] = NoConn
  BY <1>1 DEF OwnInv, Local, CurOK, Removing
<1>3. c \in Members(s) /\ InHand(s)' = {c}
  BY <1>1 DEF Members, InHand, TypeOK
<1>4. Buffered(s)' = Buffered(s) /\ Members(s)' = Members(s)
  BY <1>1 DEF Buffered, Members
<1>5. Holds(s)' \subseteq Holds(s)
  BY <1>3, <1>4 DEF Holds
<1>6. BufferOK(s)'
  <2>1. Buffered(s) \cap (Members(s) \union InHand(s)) = {} /\ Looping(s)
    BY <1>1, <1>2 DEF BufferOK, Local, Looping
  <2>2. (Buffered(s) \cap (Members(s) \union InHand(s)) = {})'
    BY <1>3, <1>4, <2>1
  <2> QED
    BY <1>1, <1>2, <1>4, <2>1, <2>2 DEF BufferOK, Local
<1>7. CurOK(s)'
  BY <1>1 DEF CurOK, Removing, TypeOK
<1>8. ExactAt(s)'
  BY <1>1, <1>2 DEF ExactAt, Local, Looping, TypeOK
<1> QED
  BY <1>1, <1>5, <1>6, <1>7, <1>8, CellOwn DEF Local, TypeOK

LEMMA EpollEraseOwn ==
  ASSUME TypeOK, TypeOK', OwnInv, NEW s \in Cells, NEW f \in FDs, EpollErase(s, f)
  PROVE  OwnInv'
<1> DEFINE c == clients[s][f]
<1>1. /\ c # NoConn /\ pc[s] = "net"
      /\ clients' = [clients EXCEPT ![s][sock[c]] = NoConn]
      /\ cur' = [cur EXCEPT ![s] = c]
      /\ pc' = [pc EXCEPT ![s] = "rmLeave"]
      /\ UNCHANGED <<sock, arrived, next, clientsBuff>>
  BY DEF EpollErase, Goto, sockVars, accVars
<1>2. Local(s) /\ cur[s] = NoConn
  BY <1>1 DEF OwnInv, Local, CurOK, Removing
<1>3. \A g \in FDs : clients[s][g] # NoConn => sock[clients[s][g]] = g
  BY <1>1, <1>2 DEF Local, ExactAt, Looping
<1>4. sock[c] = f
  BY <1>1, <1>3
<1>5. \A g \in FDs : clients'[s][g] = IF g = f THEN NoConn ELSE clients[s][g]
  BY <1>1, <1>4 DEF TypeOK
<1>6. c \in Members(s) /\ InHand(s)' = {c}
  BY <1>1 DEF Members, InHand, TypeOK
<1>7. Members(s)' \subseteq Members(s) /\ c \notin Members(s)'
  BY <1>3, <1>4, <1>5 DEF Members
<1>8. Buffered(s)' = Buffered(s)
  BY <1>1 DEF Buffered
<1>9. Holds(s)' \subseteq Holds(s)
  BY <1>6, <1>7, <1>8 DEF Holds
<1>10. BufferOK(s)'
  <2>1. Buffered(s) \cap (Members(s) \union InHand(s)) = {} /\ Looping(s)
    BY <1>1, <1>2 DEF BufferOK, Local, Looping
  <2>2. (Buffered(s) \cap (Members(s) \union InHand(s)) = {})'
    BY <1>6, <1>7, <1>8, <2>1
  <2> QED
    BY <1>1, <1>2, <1>8, <2>1, <2>2 DEF BufferOK, Local
<1>11. CurOK(s)'
  BY <1>1, <1>7 DEF CurOK, Removing, TypeOK
<1>12. ExactAt(s)'
  BY <1>1, <1>3, <1>5 DEF ExactAt, TypeOK
<1> QED
  BY <1>1, <1>9, <1>10, <1>11, <1>12, CellOwn DEF Local, TypeOK

LEMMA RmLeaveOwn ==
  ASSUME TypeOK, TypeOK', OwnInv, NEW s \in Cells, RmLeave(s)
  PROVE  OwnInv'
<1>1. /\ pc[s] = "rmLeave" /\ pc' = [pc EXCEPT ![s] = "rmDelete"]
      /\ UNCHANGED <<sock, arrived, next, clients, clientsBuff, cur>>
  BY DEF RmLeave, Goto, After, sockVars, accVars
<1>2. Local(s)
  BY DEF OwnInv
<1>3. /\ Buffered(s)' = Buffered(s) /\ Members(s)' = Members(s)
      /\ InHand(s)' = InHand(s) /\ Holds(s)' = Holds(s)
  BY <1>1 DEF Buffered, Members, InHand, Holds
<1>4. BufferOK(s)'
  BY <1>1, <1>2, <1>3 DEF BufferOK, Local, Looping, TypeOK
<1>5. CurOK(s)'
  BY <1>1, <1>2, <1>3 DEF CurOK, Local, Removing, TypeOK
<1>6. ExactAt(s)'
  BY <1>1, <1>2 DEF ExactAt, Local, Looping, TypeOK
<1> QED
  BY <1>1, <1>3, <1>4, <1>5, <1>6, CellOwn DEF Local, TypeOK

\* The delete of a client before its erasure (CheckTime and select).
LEMMA DeleteOwn1 ==
  ASSUME TypeOK, TypeOK', OwnInv, NEW s \in Cells, Delete(s), pc[s] # "rmDelete"
  PROVE  OwnInv'
<1> DEFINE c == cur[s]
<1>1. /\ pc[s] \in {"ckDelete", "rdDelete"}
      /\ \E l \in {"ckErase", "rdErase"} : pc' = [pc EXCEPT ![s] = l]
      /\ sock' = [sock EXCEPT ![c] = NoFd]
      /\ UNCHANGED <<arrived, next, clients, clientsBuff, cur>>
  <2>1. pc[s] \in {"ckDelete", "rdDelete"} /\ pc' = [pc EXCEPT ![s] = After[pc[s]]]
    BY DEF Delete, Goto
  <2>2. After[pc[s]] \in {"ckErase", "rdErase"}
    BY <2>1 DEF After
  <2> QED
    BY <2>1, <2>2 DEF Delete, accVars
<1>2. Local(s) /\ c # NoConn /\ c \in Conns /\ c \in InHand(s)
  BY <1>1 DEF OwnInv, Local, CurOK, Removing, InHand, TypeOK
<1>3. /\ Buffered(s)' = Buffered(s) /\ Members(s)' = Members(s)
      /\ InHand(s)' = InHand(s) /\ Holds(s)' = Holds(s)
  BY <1>1 DEF Buffered, Members, InHand, Holds
<1>4. \A d \in Conns : sock'[d] = IF d = c THEN NoFd ELSE sock[d]
  BY <1>1, <1>2 DEF TypeOK
<1>5. BufferOK(s)'
  <2>1. Buffered(s) \cap (Members(s) \union InHand(s)) = {} /\ Looping(s)
    BY <1>1, <1>2 DEF BufferOK, Local, Looping
  <2>2. \A d \in Buffered(s) : d \in Conns /\ sock'[d] # NoFd
    BY <1>2, <1>4, <2>1 DEF BufferOK, Local, OwnInv, Arrived, Holds, TypeOK
  <2> QED
    BY <1>1, <1>2, <1>3, <2>1, <2>2 DEF BufferOK, Local
<1>6. CurOK(s)'
  BY <1>1, <1>2 DEF CurOK, Removing, TypeOK
<1>7. ExactAt(s)'
  <2>1. ASSUME NEW f \in FDs, clients[s][f] \notin {NoConn, c}
        PROVE  sock'[clients[s][f]] = f
    BY <1>1, <1>2, <1>4, <2>1 DEF ExactAt, Local, Looping, TypeOK
  <2> QED
    BY <1>1, <2>1 DEF ExactAt
<1> QED
  BY <1>1, <1>2, <1>3, <1>4, <1>5, <1>6, <1>7, CellOwn DEF Local, Holds, TypeOK

\* The delete of a client already erased (epoll).
LEMMA DeleteOwn2 ==
  ASSUME TypeOK, TypeOK', OwnInv, NEW s \in Cells, Delete(s), pc[s] = "rmDelete"
  PROVE  OwnInv'
<1> DEFINE c == cur[s]
<1>1. /\ pc' = [pc EXCEPT ![s] = "net"]
      /\ sock' = [sock EXCEPT ![c] = NoFd]
      /\ cur' = [cur EXCEPT ![s] = NoConn]
      /\ UNCHANGED <<arrived, next, clients, clientsBuff>>
  BY DEF Delete, Goto, After, accVars
<1>2. Local(s) /\ c # NoConn /\ c \in Conns /\ c \in InHand(s) /\ c \notin Members(s)
  BY <1>1 DEF OwnInv, Local, CurOK, Removing, InHand, TypeOK
<1>3. /\ Buffered(s)' = Buffered(s) /\ Members(s)' = Members(s) /\ InHand(s)' = {}
  BY <1>1 DEF Buffered, Members, InHand, TypeOK
<1>4. \A d \in Conns : sock'[d] = IF d = c THEN NoFd ELSE sock[d]
  BY <1>1, <1>2 DEF TypeOK
<1>5. Holds(s)' \subseteq Holds(s)
  BY <1>3 DEF Holds
<1>6. BufferOK(s)'
  <2>1. Buffered(s) \cap (Members(s) \union InHand(s)) = {} /\ Looping(s)
    BY <1>2 DEF BufferOK, Local, Looping
  <2>2. \A d \in Buffered(s) : d \in Conns /\ sock'[d] # NoFd
    BY <1>2, <1>4, <2>1 DEF BufferOK, Local, OwnInv, Arrived, Holds, TypeOK
  <2> QED
    BY <1>1, <1>2, <1>3, <2>1, <2>2 DEF BufferOK, Local
<1>7. CurOK(s)'
  BY <1>1 DEF CurOK, Removing, TypeOK
<1>8. ExactAt(s)'
  <2>1. ASSUME NEW f \in FDs, clients[s][f] # NoConn
        PROVE  sock'[clients[s][f]] = f
    <3>1. clients[s][f] # c /\ clients[s][f] \in Conns
      BY <1>2, <2>1 DEF Members, TypeOK
    <3> QED
      BY <1>2, <1>4, <2>1, <3>1 DEF ExactAt, Local, Looping
  <2> QED
    BY <1>1, <2>1 DEF ExactAt
<1>9. \A d \in Conns : sock'[d] = sock[d] \/ (sock'[d] = NoFd /\ d \in Holds(s))
  <2>1. c \in Holds(s)
    BY <1>2 DEF Holds
  <2> QED
    BY <1>4, <2>1
<1>10. \A t \in Cells \ {s} : cur'[t] = cur[t] /\ pc'[t] = pc[t]
  BY <1>1 DEF TypeOK
<1> QED
  BY <1>1, <1>5, <1>6, <1>7, <1>8, <1>9, <1>10, CellOwn DEF Local

LEMMA EraseOwn ==
  ASSUME TypeOK, TypeOK', OwnInv, NEW s \in Cells, Erase(s)
  PROVE  OwnInv'
<1> DEFINE c == cur[s]
<1>1. /\ pc[s] \in {"ckErase", "rdErase"}
      /\ \E l \in {"check", "net"} : pc' = [pc EXCEPT ![s] = l]
      /\ clients' = [clients EXCEPT ![s] =
                        [f \in FDs |-> IF clients[s][f] = c THEN NoConn ELSE clients[s][f]]]
      /\ cur' = [cur EXCEPT ![s] = NoConn]
      /\ UNCHANGED <<sock, arrived, next, clientsBuff>>
  <2>1. pc[s] \in {"ckErase", "rdErase"} /\ pc' = [pc EXCEPT ![s] = After[pc[s]]]
    BY DEF Erase, Goto
  <2>2. After[pc[s]] \in {"check", "net"}
    BY <2>1 DEF After
  <2> QED
    BY <2>1, <2>2 DEF Erase, sockVars, accVars
<1>2. Local(s)
  BY DEF OwnInv
<1>3. \A f \in FDs : clients'[s][f] = IF clients[s][f] = c THEN NoConn ELSE clients[s][f]
  BY <1>1 DEF TypeOK
<1>4. Buffered(s)' = Buffered(s) /\ InHand(s)' = {}
  BY <1>1 DEF Buffered, InHand, TypeOK
<1>5. Members(s)' \subseteq Members(s)
  BY <1>3 DEF Members
<1>6. Holds(s)' \subseteq Holds(s)
  BY <1>4, <1>5 DEF Holds
<1>7. BufferOK(s)'
  <2>1. Buffered(s) \cap (Members(s) \union InHand(s)) = {} /\ Looping(s)
    BY <1>1, <1>2 DEF BufferOK, Local, Looping
  <2>2. (Buffered(s) \cap (Members(s) \union InHand(s)) = {})'
    BY <1>4, <1>5, <2>1
  <2> QED
    BY <1>1, <1>2, <1>4, <2>1, <2>2 DEF BufferOK, Local
<1>8. CurOK(s)'
  BY <1>1 DEF CurOK, Removing, TypeOK
<1>9. ExactAt(s)'
  BY <1>1, <1>2, <1>3 DEF ExactAt, Local, Looping, TypeOK
<1> QED
  BY <1>1, <1>6, <1>7, <1>8, <1>9, CellOwn DEF Local, TypeOK

\* ClearClients: the cell has left its loop, nothing is in hand.
LEMMA ClearOwn ==
  ASSUME TypeOK, TypeOK', OwnInv, NEW s \in Cells,
         FreeMap(s) \/ ClearMap(s) \/ FreeBuff(s) \/ ClearBuff(s)
  PROVE  OwnInv'
<1>1. /\ pc[s] \in {"freeMap", "clearMap", "freeBuff", "clearBuff"}
      /\ \E l \in {"clearMap", "freeBuff", "clearBuff", "done"} : pc' = [pc EXCEPT ![s] = l]
      /\ UNCHANGED <<arrived, next, cur>>
  BY DEF FreeMap, ClearMap, FreeBuff, ClearBuff, Goto, sockVars, accVars
<1>2. /\ clientsBuff' = clientsBuff \/ clientsBuff' = [clientsBuff EXCEPT ![s] = << >>]
      /\ clients' = clients \/ clients' = [clients EXCEPT ![s] = [f \in FDs |-> NoConn]]
  BY DEF FreeMap, ClearMap, FreeBuff, ClearBuff
<1>3. \A c \in Conns : sock'[c] = sock[c] \/ (sock'[c] = NoFd /\ c \in Holds(s))
  <2>1. \/ Free(Members(s)) \/ Free(Buffered(s)) \/ UNCHANGED sock
    BY DEF FreeMap, ClearMap, FreeBuff, ClearBuff, sockVars
  <2>2. Members(s) \subseteq Holds(s) /\ Buffered(s) \subseteq Holds(s)
    BY DEF Holds
  <2>3. ASSUME NEW cs, cs \subseteq Holds(s), Free(cs), NEW c \in Conns
        PROVE  sock'[c] = sock[c] \/ (sock'[c] = NoFd /\ c \in Holds(s))
    BY <2>3 DEF Free
  <2> QED
    BY <2>1, <2>2, <2>3
<1>4. Local(s) /\ cur[s] = NoConn
  BY <1>1 DEF OwnInv, Local, CurOK, Removing
<1>5. Buffered(s)' \subseteq Buffered(s)
  <2>1. CASE clientsBuff' = clientsBuff
    BY <2>1 DEF Buffered
  <2>2. CASE clientsBuff' = [clientsBuff EXCEPT ![s] = << >>]
    <3>1. Len(clientsBuff'[s]) = 0
      BY <2>2 DEF TypeOK
    <3> QED
      BY <3>1 DEF Buffered
  <2> QED
    BY <1>2, <2>1, <2>2
<1>6. Members(s)' \subseteq Members(s)
  BY <1>2 DEF Members, TypeOK
<1>7. InHand(s)' = InHand(s)
  BY <1>1 DEF InHand
<1>8. Holds(s)' \subseteq Holds(s)
  BY <1>5, <1>6, <1>7 DEF Holds
<1>9. ~Looping(s)' /\ pc'[s] # "join" /\ ~Removing(s)'
  BY <1>1 DEF Looping, Removing, TypeOK
<1>10. BufferOK(s)'
  <2>1. Buffered(s) \cap (Members(s) \union InHand(s)) = {}
    BY <1>1, <1>4 DEF BufferOK, Local
  <2>2. \A i, j \in 1..Len(clientsBuff'[s]) :
          clientsBuff'[s][i] = clientsBuff'[s][j] => i = j
    <3>1. CASE clientsBuff' = clientsBuff
      BY <1>4, <3>1 DEF Local, BufferOK
    <3>2. CASE clientsBuff' = [clientsBuff EXCEPT ![s] = << >>]
      <4>1. Len(clientsBuff'[s]) = 0
        BY <3>2 DEF TypeOK
      <4> QED
        BY <4>1
    <3> QED
      BY <1>2, <3>1, <3>2
  <2> QED
    BY <1>5, <1>6, <1>7, <1>9, <2>1, <2>2 DEF BufferOK
<1>11. CurOK(s)'
  BY <1>1, <1>4, <1>9 DEF CurOK, TypeOK, Removing
<1>12. ExactAt(s)'
  BY <1>9 DEF ExactAt
<1>13. \A t \in Cells \ {s} : /\ clientsBuff'[t] = clientsBuff[t] /\ clients'[t] = clients[t]
                              /\ pc'[t] = pc[t]
  BY <1>1, <1>2 DEF TypeOK
<1> QED
  BY <1>1, <1>3, <1>8, <1>10, <1>11, <1>12, <1>13, CellOwn DEF Local
-----------------------------------------------------------------------------
(* The steps of the accept thread that move a client.                      *)

LEMMA AcceptOwn ==
  ASSUME TypeOK, OwnInv, NEW c \in Conns, Accept(c)
  PROVE  OwnInv'
<1>1. PICK f \in FDs : /\ \A d \in Conns : sock[d] # f
                       /\ sock' = [sock EXCEPT ![c] = f]
  BY DEF Accept
<1>2. /\ c \notin arrived /\ arrived' = arrived \union {c} /\ next' = c
      /\ UNCHANGED <<clientsBuff, clients, cur, pc>>
  BY DEF Accept, cellVars
<1>3. \A d \in Conns : sock'[d] = IF d = c THEN f ELSE sock[d]
  BY <1>1 DEF TypeOK
<1>4. \A s \in Cells : /\ Buffered(s)' = Buffered(s) /\ Members(s)' = Members(s)
                       /\ InHand(s)' = InHand(s) /\ Holds(s)' = Holds(s)
  BY <1>2 DEF Buffered, Members, InHand, Holds
<1>5. FdUnique'
  BY <1>1, <1>3 DEF OwnInv, FdUnique
<1>6. Arrived'
  BY <1>2, <1>3, <1>4 DEF OwnInv, Arrived
<1>7. Owned'
  BY <1>2, <1>4 DEF OwnInv, Owned, Arrived
<1>8. ASSUME NEW s \in Cells PROVE Local(s)'
  <2>1. Local(s) /\ c \notin Holds(s)
    BY <1>2 DEF OwnInv, Arrived
  <2>2. BufferOK(s)'
    <3>1. \A d \in Buffered(s) : d \in Conns /\ sock'[d] = sock[d]
      BY <1>3, <2>1 DEF OwnInv, Arrived, Holds, TypeOK
    <3> QED
      BY <1>2, <1>4, <2>1, <3>1 DEF Local, BufferOK, Looping
  <2>3. CurOK(s)'
    BY <1>2, <1>4, <2>1 DEF Local, CurOK, Removing
  <2>4. ExactAt(s)'
    <3>1. \A g \in FDs : clients[s][g] # NoConn => sock'[clients[s][g]] = sock[clients[s][g]]
      BY <1>3, <2>1 DEF Holds, Members, TypeOK
    <3> QED
      BY <1>2, <2>1, <3>1 DEF Local, ExactAt, Looping
  <2> QED
    BY <2>2, <2>3, <2>4 DEF Local
<1> QED
  BY <1>5, <1>6, <1>7, <1>8 DEF OwnInv

LEMMA RefuseOwn ==
  ASSUME TypeOK, OwnInv, Refuse
  PROVE  OwnInv'
<1>1. /\ next \in Conns /\ next' = NoConn /\ sock' = [sock EXCEPT ![next] = NoFd]
      /\ UNCHANGED <<arrived, clientsBuff, clients, cur, pc>>
  BY DEF Refuse, TypeOK, cellVars
<1>2. \A d \in Conns : sock'[d] = IF d = next THEN NoFd ELSE sock[d]
  BY <1>1 DEF TypeOK
<1>3. \A s \in Cells : /\ Buffered(s)' = Buffered(s) /\ Members(s)' = Members(s)
                       /\ InHand(s)' = InHand(s) /\ Holds(s)' = Holds(s)
  BY <1>1 DEF Buffered, Members, InHand, Holds
<1>4. FdUnique'
  BY <1>2 DEF OwnInv, FdUnique
<1>5. Arrived'
  BY <1>1, <1>2, <1>3 DEF OwnInv, Arrived
<1>6. Owned'
  <2>1. \A s \in Cells : NoConn \notin Holds(s)
    BY DEF OwnInv, Arrived, TypeOK
  <2> QED
    BY <1>1, <1>3, <2>1 DEF OwnInv, Owned
<1>7. ASSUME NEW s \in Cells PROVE Local(s)'
  <2>1. Local(s) /\ next \notin Holds(s)
    BY DEF OwnInv, Owned
  <2>2. BufferOK(s)'
    <3>1. \A d \in Buffered(s) : d \in Conns /\ sock'[d] = sock[d]
      BY <1>2, <2>1 DEF OwnInv, Arrived, Holds, TypeOK
    <3> QED
      BY <1>1, <1>3, <2>1, <3>1 DEF Local, BufferOK, Looping
  <2>3. CurOK(s)'
    BY <1>1, <1>3, <2>1 DEF Local, CurOK, Removing
  <2>4. ExactAt(s)'
    <3>1. \A g \in FDs : clients[s][g] # NoConn => sock'[clients[s][g]] = sock[clients[s][g]]
      BY <1>2, <2>1 DEF Holds, Members, TypeOK
    <3> QED
      BY <1>1, <2>1, <3>1 DEF Local, ExactAt, Looping
  <2> QED
    BY <2>2, <2>3, <2>4 DEF Local
<1> QED
  BY <1>4, <1>5, <1>6, <1>7 DEF OwnInv

LEMMA AddClientOwn ==
  ASSUME TypeOK, TypeOK', OwnInv, AddClient
  PROVE  OwnInv'
<1>0. PICK s \in Cells : s = pMin
  BY DEF TypeOK
<1>1. /\ s \in Cells /\ pc[s] # "join" /\ next \in Conns /\ next' = NoConn
      /\ clientsBuff' = [clientsBuff EXCEPT ![s] = Append(clientsBuff[s], next)]
      /\ UNCHANGED <<sock, arrived, clients, cur, pc>>
  BY <1>0 DEF AddClient, TypeOK, sockVars
<1>2. /\ next \in arrived /\ sock[next] # NoFd /\ \A t \in Cells : next \notin Holds(t)
  BY <1>1 DEF OwnInv, Arrived, Owned
<1>3. \A t \in Cells : Members(t)' = Members(t) /\ InHand(t)' = InHand(t)
  BY <1>1 DEF Members, InHand
<1>4. /\ Len(clientsBuff'[s]) = Len(clientsBuff[s]) + 1
      /\ \A i \in 1..Len(clientsBuff[s]) : clientsBuff'[s][i] = clientsBuff[s][i]
      /\ clientsBuff'[s][Len(clientsBuff[s]) + 1] = next
  BY <1>1 DEF TypeOK
<1>5. Len(clientsBuff[s]) \in Nat
  BY <1>1 DEF TypeOK
<1>6. Buffered(s)' = Buffered(s) \union {next}
  <2>1. \A i \in 1..Len(clientsBuff'[s]) :
           i \in 1..Len(clientsBuff[s]) \/ i = Len(clientsBuff[s]) + 1
    BY <1>4, <1>5
  <2>2. Buffered(s)' \subseteq Buffered(s) \union {next}
    BY <1>4, <2>1 DEF Buffered
  <2>3. 1..Len(clientsBuff[s]) \subseteq 1..Len(clientsBuff'[s])
    BY <1>4, <1>5
  <2>4. Buffered(s) \subseteq Buffered(s)'
    BY <1>4, <2>3 DEF Buffered
  <2>5. Len(clientsBuff[s]) + 1 \in 1..Len(clientsBuff'[s])
    BY <1>4, <1>5
  <2>6. next \in Buffered(s)'
    BY <1>4, <2>5 DEF Buffered
  <2> QED
    BY <2>2, <2>4, <2>6
<1>7. \A t \in Cells \ {s} : Buffered(t)' = Buffered(t) /\ Holds(t)' = Holds(t)
                             /\ clientsBuff'[t] = clientsBuff[t]
  <2>1. \A t \in Cells \ {s} : clientsBuff'[t] = clientsBuff[t]
    BY <1>1 DEF TypeOK
  <2>2. \A t \in Cells \ {s} : Buffered(t)' = Buffered(t)
    BY <2>1 DEF Buffered
  <2> QED
    BY <1>3, <2>1, <2>2 DEF Holds
<1>8. Holds(s)' = Holds(s) \union {next}
  BY <1>1, <1>3, <1>6 DEF Holds
<1>9. FdUnique'
  BY <1>1 DEF OwnInv, FdUnique
<1>10. Arrived'
  BY <1>1, <1>2, <1>7, <1>8 DEF OwnInv, Arrived
<1>11. Owned'
  <2>1. \A t \in Cells : NoConn \notin Holds(t)
    BY DEF OwnInv, Arrived, TypeOK
  <2>2. \A t \in Cells : NoConn \notin Holds(t)'
    BY <1>1, <1>7, <1>8, <2>1
  <2>3. \A t, u \in Cells : t # u => Holds(t)' \cap Holds(u)' = {}
    BY <1>2, <1>7, <1>8 DEF OwnInv, Owned
  <2> QED
    BY <1>1, <2>2, <2>3 DEF Owned
<1>12. ASSUME NEW t \in Cells \ {s} PROVE Local(t)'
  <2>1. Local(t)
    BY DEF OwnInv
  <2> QED
    BY <1>1, <1>3, <1>7, <2>1 DEF Local, BufferOK, CurOK, ExactAt, Looping, Removing
<1>13. Local(s)'
  <2>1. Local(s)
    BY <1>1 DEF OwnInv
  <2>2. \A i, j \in 1..Len(clientsBuff'[s]) :
           clientsBuff'[s][i] = clientsBuff'[s][j] => i = j
    <3>1. \A i \in 1..Len(clientsBuff[s]) : clientsBuff[s][i] # next
      BY <1>1, <1>2 DEF Holds, Buffered
    <3>2. \A i \in 1..Len(clientsBuff'[s]) :
             i \in 1..Len(clientsBuff[s]) \/ i = Len(clientsBuff[s]) + 1
      BY <1>4, <1>5
    <3>3. \A i, j \in 1..Len(clientsBuff[s]) : clientsBuff[s][i] = clientsBuff[s][j] => i = j
      BY <2>1 DEF Local, BufferOK
    <3> QED
      BY <1>4, <3>1, <3>2, <3>3
  <2>3. (Buffered(s) \cap (Members(s) \union InHand(s)) = {})'
    <3>1. Buffered(s) \cap (Members(s) \union InHand(s)) = {}
      BY <1>1, <2>1 DEF Local, BufferOK
    <3>2. next \notin Members(s) \union InHand(s)
      BY <1>1, <1>2 DEF Holds
    <3> QED
      BY <1>1, <1>3, <1>6, <3>1, <3>2
  <2>4. BufferOK(s)'
    BY <1>1, <1>2, <1>6, <2>1, <2>2, <2>3 DEF Local, BufferOK, Looping
  <2>5. CurOK(s)' /\ ExactAt(s)'
    BY <1>1, <1>3, <2>1 DEF Local, CurOK, ExactAt, Looping, Removing
  <2> QED
    BY <2>4, <2>5 DEF Local
<1> QED
  BY <1>9, <1>10, <1>11, <1>12, <1>13 DEF OwnInv

LEMMA MovingOwn == TypeOK /\ OwnInv /\ Moving => OwnInv'
<1> SUFFICES ASSUME TypeOK, OwnInv, Moving PROVE OwnInv'
  OBVIOUS
<1>1. TypeOK'
  BY MovingType
<1>2. ASSUME NEW s \in Cells, JoinOne(s) \/ JoinEnd(s) PROVE OwnInv'
  BY <1>1, <1>2, JoinOneOwn, JoinEndOwn
<1>3. ASSUME NEW s \in Cells, RmLeave(s) \/ Erase(s) PROVE OwnInv'
  BY <1>1, <1>3, RmLeaveOwn, EraseOwn
<1>4. ASSUME NEW s \in Cells, Delete(s) PROVE OwnInv'
  BY <1>1, <1>4, DeleteOwn1, DeleteOwn2
<1>5. ASSUME NEW s \in Cells, NEW f \in FDs, CheckExpire(s, f) \/ SelectDrop(s, f)
      PROVE  OwnInv'
  BY <1>1, <1>5, LeaveOwn
<1>6. ASSUME NEW s \in Cells, NEW f \in FDs, EpollErase(s, f) PROVE OwnInv'
  BY <1>1, <1>6, EpollEraseOwn
<1>7. ASSUME NEW s \in Cells, FreeMap(s) \/ ClearMap(s) \/ FreeBuff(s) \/ ClearBuff(s)
      PROVE  OwnInv'
  BY <1>1, <1>7, ClearOwn
<1>8. ASSUME NEW c \in Conns, Accept(c) PROVE OwnInv'
  BY <1>8, AcceptOwn
<1>9. CASE AddClient
  BY <1>1, <1>9, AddClientOwn
<1>10. CASE Refuse
  BY <1>10, RefuseOwn
<1> QED
  BY <1>2, <1>3, <1>4, <1>5, <1>6, <1>7, <1>8, <1>9, <1>10 DEF Moving
-----------------------------------------------------------------------------
(* Closing.                                                                *)

\* A step that stops no cell and takes none back into its loop.
LEMMA StopFrame ==
  ASSUME TypeOK, StopOK, CloseJoinsCells,
         UNCHANGED <<main, closing>>,
         faults > 0 => faults' > 0,
         \A s \in Cells : /\ run'[s] = run[s]
                          /\ pc'[s] = "exitLock" => pc[s] = "exitLock" \/ faults' > 0
                          /\ pc[s] = "done" => pc'[s] = "done"
                          /\ Ended(s) => Ended(s)'
  PROVE  StopOK' /\ CloseJoinsCells'
<1>1. StopOK'
  BY DEF StopOK
<1>2. CloseJoinsCells'
  BY DEF CloseJoinsCells, Freed, Ended
<1> QED
  BY <1>1, <1>2

\* The steps of a cell that neither fail nor stop it.
LEMMA MovingStop ==
  TypeOK /\ StopOK /\ CloseJoinsCells /\ Moving => StopOK' /\ CloseJoinsCells'
<1> SUFFICES ASSUME TypeOK, StopOK, CloseJoinsCells, Moving
             PROVE  StopOK' /\ CloseJoinsCells'
  OBVIOUS
<1>1. UNCHANGED <<main, closing, faults, run>>
  BY DEF Moving, JoinOne, JoinEnd, RmLeave, Delete, Erase, CheckExpire, SelectDrop,
         Leave, EpollErase, FreeMap, ClearMap, FreeBuff, ClearBuff, Accept, AddClient,
         Refuse, mainVars, bounds, cellVars
<1>2. \/ UNCHANGED pc
      \/ \E s \in Cells : \E l \in CellState \ {"exitLock"} :
            /\ pc[s] # "done" /\ pc' = [pc EXCEPT ![s] = l]
            /\ Clearing(s) => l \in {"clearMap", "freeBuff", "clearBuff", "done"}
  <2> USE DEF Clearing
  <2>1. ASSUME NEW s \in Cells,
               \/ JoinEnd(s) \/ FreeMap(s) \/ ClearMap(s) \/ FreeBuff(s) \/ ClearBuff(s)
        PROVE  \E l \in CellState \ {"exitLock"} :
                  /\ pc[s] # "done" /\ pc' = [pc EXCEPT ![s] = l]
                  /\ Clearing(s) => l \in {"clearMap", "freeBuff", "clearBuff", "done"}
    BY <2>1 DEF JoinEnd, FreeMap, ClearMap, FreeBuff, ClearBuff, Goto, CellState
  <2>2. ASSUME NEW s \in Cells, RmLeave(s) \/ Delete(s) \/ Erase(s)
        PROVE  \E l \in CellState \ {"exitLock"} :
                  /\ pc[s] # "done" /\ pc' = [pc EXCEPT ![s] = l]
                  /\ ~Clearing(s)
    <3>1. /\ pc[s] \in {"rmLeave", "ckDelete", "rdDelete", "rmDelete", "ckErase", "rdErase"}
          /\ pc' = [pc EXCEPT ![s] = After[pc[s]]]
      BY <2>2 DEF RmLeave, Delete, Erase, Goto
    <3>2. After[pc[s]] \in CellState \ {"exitLock"}
      BY <3>1 DEF After, CellState
    <3> QED
      BY <3>1, <3>2
  <2>3. ASSUME NEW s \in Cells, NEW f \in FDs,
               CheckExpire(s, f) \/ SelectDrop(s, f) \/ EpollErase(s, f)
        PROVE  \E l \in CellState \ {"exitLock"} :
                  /\ pc[s] # "done" /\ pc' = [pc EXCEPT ![s] = l]
                  /\ ~Clearing(s)
    BY <2>3 DEF CheckExpire, SelectDrop, Leave, EpollErase, Goto, CellState
  <2>4. CASE \/ \E s \in Cells : JoinOne(s)
             \/ \E c \in Conns : Accept(c)
             \/ AddClient \/ Refuse
    BY <2>4 DEF JoinOne, Accept, AddClient, Refuse, cellVars
  <2> QED
    BY <2>1, <2>2, <2>3, <2>4 DEF Moving
<1>3. \A s \in Cells : /\ pc'[s] = "exitLock" => pc[s] = "exitLock"
                       /\ pc[s] = "done" => pc'[s] = "done"
                       /\ Ended(s) => Ended(s)'
  BY <1>2 DEF TypeOK, Ended, Clearing
<1> QED
  BY <1>1, <1>3, StopFrame

LEMMA QuietStop ==
  TypeOK /\ StopOK /\ CloseJoinsCells /\ Quiet => StopOK' /\ CloseJoinsCells'
<1> SUFFICES ASSUME TypeOK, StopOK, CloseJoinsCells, Quiet
             PROVE  StopOK' /\ CloseJoinsCells'
  OBVIOUS
<1> USE DEF mainVars, bounds, cellVars
<1>1. ASSUME NEW s \in Cells,
             \/ JoinBegin(s) \/ NoJoin(s) \/ LoopExit(s) \/ CheckDone(s) \/ NetStep(s)
      PROVE  StopOK' /\ CloseJoinsCells'
  <2>1. UNCHANGED <<main, closing, faults, run>>
    BY <1>1 DEF JoinBegin, NoJoin, LoopExit, CheckDone, NetStep, NetDone, SendWait, SendReturn
  <2>2. \E l \in {"join", "check", "freeMap", "net", "send", "top"} :
           ~Ended(s) /\ pc' = [pc EXCEPT ![s] = l]
    BY <1>1 DEF JoinBegin, NoJoin, LoopExit, CheckDone, NetStep, NetDone, SendWait, SendReturn,
                Goto, Ended, Clearing
  <2>3. \A t \in Cells : /\ pc'[t] = "exitLock" => pc[t] = "exitLock"
                         /\ pc[t] = "done" => pc'[t] = "done"
                         /\ Ended(t) => Ended(t)'
    BY <2>2 DEF TypeOK, Ended, Clearing
  <2> QED
    BY <2>1, <2>3, StopFrame
\* From here on a wait has failed.
<1>2. ASSUME NEW s \in Cells, NetFail(s) PROVE StopOK' /\ CloseJoinsCells'
  <2>1. faults' > 0 /\ UNCHANGED <<main, closing, run>>
    BY <1>2 DEF NetFail, TypeOK
  <2>2. \E l \in {"exitLock", "freeMap"} : ~Ended(s) /\ pc' = [pc EXCEPT ![s] = l]
    BY <1>2 DEF NetFail, Goto, Ended, Clearing
  <2>3. \A t \in Cells : /\ pc[t] = "done" => pc'[t] = "done"
                         /\ Ended(t) => Ended(t)'
    BY <2>2 DEF TypeOK, Ended, Clearing
  <2> QED
    BY <2>1, <2>3, StopFrame
<1>3. ASSUME NEW s \in Cells, ExitSet(s) PROVE StopOK' /\ CloseJoinsCells'
  <2>1. faults > 0 /\ UNCHANGED <<main, closing, faults>>
    BY <1>3 DEF ExitSet, StopOK
  <2>2. /\ \A t \in Cells \ {s} : pc'[t] = pc[t] /\ run'[t] = run[t]
        /\ pc[s] = "exitLock" /\ pc'[s] = "freeMap"
    BY <1>3 DEF ExitSet, Goto, TypeOK
  <2>3. /\ Ended(s)'
        /\ \A t \in Cells \ {s} : Ended(t) => Ended(t)'
    BY <2>2 DEF Ended, Clearing
  <2>4. StopOK'
    BY <2>1, <2>2, <2>3 DEF StopOK
  <2>5. CloseJoinsCells'
    BY <2>1, <2>2 DEF CloseJoinsCells, Freed, Clearing
  <2> QED
    BY <2>4, <2>5
<1>4. CASE Choose \/ AccTest \/ AccIdle \/ AccExitSet \/ UNCHANGED vars
  <2>1. UNCHANGED <<main, closing, faults, run, pc>>
    BY <1>4 DEF Choose, AccTest, AccIdle, AccExitSet, vars
  <2> QED
    BY <2>1, StopFrame DEF Ended, Clearing
<1>5. CASE AccFail
  <2>1. faults' > 0 /\ UNCHANGED <<main, closing, run, pc>>
    BY <1>5 DEF AccFail, TypeOK
  <2> QED
    BY <2>1, StopFrame DEF Ended, Clearing
<1>6. CASE CloseAccept \/ JoinAcc \/ CloseEnd
  <2>1. /\ UNCHANGED <<closing, faults, run, pc>>
        /\ main # "joinCell" /\ main' # "joinCell"
    BY <1>6 DEF CloseAccept, JoinAcc, CloseEnd
  <2> QED
    BY <2>1 DEF StopOK, CloseJoinsCells, Freed, Ended, Clearing
<1>7. CASE DeleteCell
  <2>1. closing \in Cells /\ UNCHANGED <<pc, faults>> /\ main = "delete"
    BY <1>7 DEF DeleteCell, TypeOK, Cells
  <2>2. \A s \in Cells : run'[s] = IF s = closing THEN FALSE ELSE run[s]
    BY <1>7 DEF DeleteCell, TypeOK
  <2>3. CASE run[closing] /\ main' = "joinCell" /\ UNCHANGED closing
    <3>1. closing <= NumCells
      BY <2>1 DEF Cells
    <3>2. StopOK'
      BY <2>1, <2>2, <2>3, <3>1 DEF StopOK, Ended, Clearing
    <3>3. CloseJoinsCells'
      BY <2>1, <2>3 DEF CloseJoinsCells, Freed, Clearing
    <3> QED
      BY <3>2, <3>3
  \* A cell already stopped was stopped by a failed wait.
  <2>4. CASE ~run[closing] /\ closing' = closing + 1 /\ UNCHANGED main
    <3>1. faults > 0 /\ Ended(closing)
      BY <2>1, <2>4 DEF StopOK, Cells
    <3>2. \A s \in Cells : s < closing' => s < closing \/ s = closing
      BY <2>1, <2>4 DEF Cells
    <3>3. StopOK'
      <4>1. \A s \in Cells : Ended(s)' <=> Ended(s)
        BY <2>1 DEF Ended, Clearing
      <4>2. \A s \in Cells : s <= closing => s < closing'
        BY <2>1, <2>4 DEF Cells
      <4>3. main' # "joinCell"
        BY <2>1, <2>4
      <4>4. closing <= closing
        BY <2>1 DEF Cells
      <4>5. ASSUME NEW s \in Cells, ~run'[s]
            PROVE  (faults' > 0 /\ Ended(s)') \/ s < closing'
        <5>1. CASE s = closing
          BY <4>2, <4>4, <5>1
        <5>2. CASE s # closing
          <6>1. ~run[s]
            BY <2>2, <4>5, <5>2
          <6>2. (faults > 0 /\ Ended(s)) \/ s < closing
            BY <2>1, <6>1 DEF StopOK
          <6>3. s < closing => s < closing'
            BY <2>1, <2>4 DEF Cells
          <6> QED
            BY <2>1, <4>1, <6>2, <6>3
        <5> QED
          BY <5>1, <5>2
      <4> QED
        BY <2>1, <4>3, <4>5 DEF StopOK
    <3>4. CloseJoinsCells'
      BY <2>1, <3>1, <3>2 DEF CloseJoinsCells, Freed, Ended, Clearing
    <3> QED
      BY <3>3, <3>4
  <2> QED
    BY <1>7, <2>3, <2>4 DEF DeleteCell
<1>8. CASE JoinCell
  <2>1. /\ pc[closing] = "done" /\ main = "joinCell" /\ main' = "delete"
        /\ closing' = closing + 1 /\ closing \in Cells
        /\ UNCHANGED <<pc, faults, run>>
    BY <1>8 DEF JoinCell, StopOK, TypeOK, Cells
  <2> QED
    BY <2>1 DEF StopOK, CloseJoinsCells, Freed, Ended, Clearing, Cells
<1> QED
  BY <1>1, <1>2, <1>3, <1>4, <1>5, <1>6, <1>7, <1>8 DEF Quiet, CloseStep
-----------------------------------------------------------------------------
(* The theorems.                                                           *)

\* The invariant holds initially and every step keeps it.
THEOREM Inductive == Spec => []IInv
<1>1. Init => IInv
  <2>1. Init => StopOK /\ CloseJoinsCells
    BY DEF Init, StopOK, CloseJoinsCells, Freed, Cells
  <2> QED
    BY <2>1, InitType, InitOwn DEF IInv
<1>2. IInv /\ [Next]_vars => IInv'
  <2>1. IInv /\ Quiet => IInv'
    BY QuietType, QuietOwn, QuietStop DEF IInv
  <2>2. IInv /\ Moving => IInv'
    BY MovingType, MovingOwn, MovingStop DEF IInv
  <2> QED
    BY <2>1, <2>2, StepKinds
<1> QED
  BY <1>1, <1>2, PTL DEF Spec

\* Every variable of the accept thread, the cells and the closing thread keeps
\* its type, and the accept thread has a connection in hand exactly between
\* accept() and addClient or destorySocket (TcpServer.hpp:151-248).
THEOREM TypeCorrect == Spec => []TypeOK
BY Inductive, PTL DEF IInv

\* Whatever the number of cells and the reuse of descriptors, an entry of a
\* running cell's map names an open client under its own descriptor, except for
\* the client being deleted (Server.hpp:51-139, EpollServer.hpp:81-88,
\* SelectServer.hpp:92-161).
THEOREM MapsExact == Spec => []MapExact
<1>1. IInv => MapExact
  BY DEF IInv, OwnInv, Local, ExactAt, MapExact
<1> QED
  BY <1>1, Inductive, PTL

\* A client has one owner: a buffer once, a map, or the accept thread
\* (TcpServer.hpp:217-248, Server.hpp:55-69, 187-193).
THEOREM SingleOwner == Spec => []OneOwner
<1>1. IInv => OneOwner
  <2> SUFFICES ASSUME IInv, NEW s \in Cells
               PROVE  /\ \A i, j \in 1..Len(clientsBuff[s]) :
                            clientsBuff[s][i] = clientsBuff[s][j] => i = j
                      /\ next \notin Buffered(s) \union Members(s)
                      /\ \A t \in Cells \ {s} :
                            (Buffered(s) \union Members(s))
                               \cap (Buffered(t) \union Members(t)) = {}
    BY DEF OneOwner
  <2>1. BufferOK(s)
    BY DEF IInv, OwnInv, Local
  <2>2. \A t \in Cells : Buffered(t) \union Members(t) \subseteq Holds(t)
    BY DEF Holds
  <2>3. Owned
    BY DEF IInv, OwnInv
  <2> QED
    BY <2>1, <2>2, <2>3 DEF BufferOK, Owned
<1> QED
  BY <1>1, Inductive, PTL

\* No client pushes another out of a map: _clients[sock] = client always finds
\* the entry of that descriptor empty or its own (Server.hpp:60).
THEOREM NeverOverwritten == Spec => NoClientOverwritten
<1> DEFINE Kept(s, f) == clients[s][f] # NoConn => clients'[s][f] \in {clients[s][f], NoConn}
           Overwrites == \A s \in Cells, f \in FDs : Kept(s, f)
<1>1. IInv /\ [Next]_vars => [Overwrites]_vars
  <2> SUFFICES ASSUME IInv, Next PROVE Overwrites
    OBVIOUS
  <2>1. TypeOK /\ OwnInv
    BY DEF IInv
  <2>2. CASE Quiet
    BY <2>1, <2>2, QuietFrame DEF data
  <2>3. ASSUME NEW s \in Cells, JoinOne(s) PROVE Overwrites
    <3> DEFINE c == clientsBuff[s][idx[s] + 1]
    <3>1. /\ pc[s] = "join" /\ clients' = [clients EXCEPT ![s][sock[c]] = c]
          /\ c \in Buffered(s)
      <4>1. idx[s] + 1 \in 1..Len(clientsBuff[s])
        BY <2>1, <2>3 DEF JoinOne, TypeOK
      <4> QED
        BY <2>3, <4>1 DEF JoinOne, Buffered
    <3> HIDE DEF c
    <3>2. Local(s) /\ cur[s] = NoConn
      BY <2>1, <3>1 DEF OwnInv, Local, CurOK, Removing
    <3>3. c \in Conns /\ sock[c] # NoFd /\ sock[c] \in FDs
      BY <2>1, <3>1, <3>2 DEF Local, BufferOK, Looping, OwnInv, Arrived, Holds, TypeOK
    <3>4. clients[s][sock[c]] \in {c, NoConn}
      <4>1. clients[s][sock[c]] # NoConn => sock[clients[s][sock[c]]] = sock[c]
        BY <3>1, <3>2, <3>3 DEF Local, ExactAt, Looping
      <4>2. clients[s][sock[c]] \in Conns \union {NoConn}
        BY <2>1, <3>3 DEF TypeOK
      <4> QED
        BY <2>1, <3>3, <4>1, <4>2 DEF OwnInv, FdUnique
    <3>5. \A t \in Cells, f \in FDs :
             clients'[t][f] = IF t = s /\ f = sock[c] THEN c ELSE clients[t][f]
      BY <2>1, <3>1, <3>3 DEF TypeOK
    <3> QED
      BY <3>4, <3>5
  <2>4. ASSUME NEW s \in Cells, NEW f \in FDs, EpollErase(s, f) PROVE Overwrites
    BY <2>1, <2>4 DEF EpollErase, TypeOK
  <2>5. ASSUME NEW s \in Cells, Erase(s) \/ ClearMap(s) PROVE Overwrites
    <3>1. CASE Erase(s)
      <4>1. clients' = [clients EXCEPT ![s] =
                [f \in FDs |-> IF clients[s][f] = cur[s] THEN NoConn ELSE clients[s][f]]]
        BY <3>1 DEF Erase
      <4>2. \A t \in Cells, f \in FDs : clients'[t][f] \in {clients[t][f], NoConn}
        BY <2>1, <4>1 DEF TypeOK
      <4> QED
        BY <4>2
    <3>2. CASE ClearMap(s)
      <4>1. clients' = [clients EXCEPT ![s] = [f \in FDs |-> NoConn]]
        BY <3>2 DEF ClearMap
      <4>2. \A t \in Cells, f \in FDs : clients'[t][f] \in {clients[t][f], NoConn}
        BY <2>1, <4>1 DEF TypeOK
      <4> QED
        BY <4>2
    <3> QED
      BY <2>5, <3>1, <3>2
  <2>6. CASE \/ \E s \in Cells :
                  \/ JoinEnd(s) \/ RmLeave(s) \/ Delete(s)
                  \/ \E f \in FDs : CheckExpire(s, f) \/ SelectDrop(s, f)
                  \/ FreeMap(s) \/ FreeBuff(s) \/ ClearBuff(s)
             \/ \E c \in Conns : Accept(c)
             \/ AddClient \/ Refuse
    <3>1. UNCHANGED clients
      BY <2>6 DEF JoinEnd, RmLeave, Delete, CheckExpire, SelectDrop, Leave, FreeMap,
                  FreeBuff, ClearBuff, Accept, AddClient, Refuse, cellVars
    <3> QED
      BY <3>1
  <2> QED
    BY <2>2, <2>3, <2>4, <2>5, <2>6, StepKinds DEF Moving
<1> QED
  BY <1>1, Inductive, PTL DEF Spec, NoClientOverwritten

\* TcpServer::Close frees a cell only after the cell's thread has ended, unless
\* a failed wait has made a thread leave through Exit (TcpServer.hpp:270-286,
\* Server.hpp:18-48, Thread.hpp:44-63).
THEOREM CellsJoined == Spec => []CloseJoinsCells
BY Inductive, PTL DEF IInv
===============================================================================
