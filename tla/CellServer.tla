------------------------------ MODULE CellServer ------------------------------
(***************************************************************************)
(* The server side of LindaNet: the accept thread of TcpServer             *)
(* (TcpServer.hpp, TcpEpollServer.hpp, TcpSelectServer.hpp), its Servers,  *)
(* here called cells as in the code's comments (Server.hpp,                *)
(* EpollServer.hpp, SelectServer.hpp), and the thread that closes it all.  *)
(*                                                                         *)
(* The accept thread counts the admitted clients and puts each one into    *)
(* the buffer of the cell it believes to hold the fewest.  A cell moves    *)
(* its buffer into its map, keyed by the socket descriptor, and removes    *)
(* clients on a missed heartbeat or a socket error.  Descriptors are the   *)
(* process's: closing one lets the next accept return it again.            *)
(*                                                                         *)
(* A step is one access to what the threads share: the counters, a buffer, *)
(* the size of a map, a descriptor.  The Thread objects are used through   *)
(* what Thread.tla shows: Close clears _isRun and waits for the worker,    *)
(* Exit called while a Close waits blocks, Close after Exit does not wait. *)
(* The test of _isRun at the top of a cell's loop is one step with what    *)
(* follows: only its Close writes _isRun, and reads nothing the cell       *)
(* writes, so a Close between the two is as one that comes after both.     *)
(***************************************************************************)
EXTENDS Integers, Sequences, FiniteSets

CONSTANTS
    NumCells,   \* nCELLServer
    FDs,        \* socket descriptors the process may own
    Conns,      \* the connections that arrive, each served by one Client
    NoFd,       \* INVALID_SOCKET
    NoConn,     \* no client
    MaxClient,  \* _nMaxClient
    Pollers,    \* the builds considered, a subset of {"epoll", "select"}
    MaxLeaves,  \* bound: clients that miss a heartbeat or meet a socket error
    MaxFaults   \* bound: epoll_wait and select calls that fail

ASSUME CellsAssumption == NumCells \in Nat \ {0}
ASSUME NoFdAssumption == NoFd \notin FDs
ASSUME NoConnAssumption == NoConn \notin Conns
ASSUME LimitAssumption == MaxClient \in Nat
ASSUME PollersAssumption == Pollers \subseteq {"epoll", "select"}
ASSUME BoundsAssumption == MaxLeaves \in Nat /\ MaxFaults \in Nat

Cells == 1..NumCells

VARIABLES
    poller,         \* which of the two servers was built
    arrived,        \* connections accept() has returned
    sock,           \* the open descriptor of each connection, or NoFd
    clientAccept,   \* _clientAccept
    clientJoin,     \* _clientJoin
    clientsBuff,    \* per cell: _clientsBuff
    clients,        \* per cell: _clients, descriptor -> client
    pc,             \* per cell: where its thread stands, see CellState
    cur,            \* per cell: the client it is removing, or NoConn
    idx,            \* per cell: how many of the buffer it has joined
    run,            \* per cell: its _thread's _isRun
    acc,            \* where the accept thread stands, see AccState
    next,           \* the connection the accept thread has in hand
    pMin,           \* pMinServer
    probe,          \* the cell the accept thread compares pMin with
    accRun,         \* the accept thread's _isRun
    main,           \* where the closing thread stands, see MainState
    closing,        \* the cell it deletes next; those below are freed
    leaves,         \* clients that have left so far
    faults          \* waits that have failed so far

sockVars == <<arrived, sock>>
countVars == <<clientAccept, clientJoin>>
cellVars == <<clientsBuff, clients, pc, cur, idx, run>>
accVars == <<acc, next, pMin, probe, accRun>>
mainVars == <<main, closing>>
bounds == <<leaves, faults>>
vars == <<poller, sockVars, countVars, cellVars, accVars, mainVars, bounds>>

\* top: loop test; join: moving the buffer, its lock held; check: CheckTime;
\* net: DoNetEvents; send: inside its blocking send() to a client.  A removal has three parts, OnNetLeave, delete pClient and
\* _clients.erase: CheckTime (ck..) and select (rd..) leave, delete, erase;
\* epoll's rmClient (rm..) erases, leaves, deletes.  exitLock: in Exit; the
\* rest is ClearClients.
CellState ==
    {"top", "join", "check", "net", "send",
     "ckDelete", "ckErase", "rdDelete", "rdErase", "rmLeave", "rmDelete",
     "exitLock", "freeMap", "clearMap", "freeBuff", "clearBuff", "done"}
AccState == {"loop", "wait", "choose", "refuse", "exitLock", "done"}
MainState == {"serving", "joinAcc", "delete", "joinCell", "closed"}

\* Where the thread of a cell goes from each step of a removal.
After == [ckDelete |-> "ckErase", ckErase |-> "check",
          rdDelete |-> "rdErase", rdErase |-> "net",
          rmLeave |-> "rmDelete", rmDelete |-> "net"]

Members(s) == {clients[s][f] : f \in FDs} \ {NoConn}
Buffered(s) == {clientsBuff[s][i] : i \in 1..Len(clientsBuff[s])}
Open == {c \in Conns : sock[c] # NoFd}

\* getClientCount: the two sizes, read without the lock.
getClientCount(s) ==
    Cardinality({f \in FDs : clients[s][f] # NoConn}) + Len(clientsBuff[s])

Init ==
    /\ poller \in Pollers
    /\ arrived = {}
    /\ sock = [c \in Conns |-> NoFd]
    /\ clientAccept = 0
    /\ clientJoin = 0
    /\ clientsBuff = [s \in Cells |-> << >>]
    /\ clients = [s \in Cells |-> [f \in FDs |-> NoConn]]
    /\ pc = [s \in Cells |-> "top"]
    /\ cur = [s \in Cells |-> NoConn]
    /\ idx = [s \in Cells |-> 0]
    /\ run = [s \in Cells |-> TRUE]
    /\ acc = "loop"
    /\ next = NoConn
    /\ pMin = 1
    /\ probe = 1
    /\ accRun = TRUE
    /\ main = "serving"
    /\ closing = 1
    /\ leaves = 0
    /\ faults = 0

Goto(s, label) == pc' = [pc EXCEPT ![s] = label]
-----------------------------------------------------------------------------
(* A cell: Server::OnRun.                                                  *)

\* Variant of JoinBegin that starts at the second client.
JoinBeginLate(s) ==
    /\ pc[s] = "top"
    /\ run[s]
    /\ clientsBuff[s] # << >>
    /\ idx' = [idx EXCEPT ![s] = 1]
    /\ Goto(s, "join")
    /\ UNCHANGED <<poller, sockVars, countVars, clientsBuff, clients, cur, run,
                   accVars, mainVars, bounds>>

\* The unlocked emptiness test finds clients in the buffer; the lock is taken.
JoinBegin(s) ==
    /\ pc[s] = "top"
    /\ run[s]
    /\ clientsBuff[s] # << >>
    /\ idx' = [idx EXCEPT ![s] = 0]
    /\ Goto(s, "join")
    /\ UNCHANGED <<poller, sockVars, countVars, clientsBuff, clients, cur, run,
                   accVars, mainVars, bounds>>

\* One client of the buffer into the map; it stays in the buffer.
JoinOne(s) ==
    LET c == clientsBuff[s][idx[s] + 1] IN
    /\ pc[s] = "join"
    /\ idx[s] < Len(clientsBuff[s])
    /\ clients' = [clients EXCEPT ![s][sock[c]] = c]
    /\ clientJoin' = clientJoin + 1
    /\ idx' = [idx EXCEPT ![s] = idx[s] + 1]
    /\ UNCHANGED <<poller, sockVars, clientAccept, clientsBuff, pc, cur, run,
                   accVars, mainVars, bounds>>

\* The buffer is cleared and the lock released.
JoinEnd(s) ==
    /\ pc[s] = "join"
    /\ idx[s] = Len(clientsBuff[s])
    /\ clientsBuff' = [clientsBuff EXCEPT ![s] = << >>]
    /\ Goto(s, IF Members(s) = {} THEN "top" ELSE "check")
    /\ UNCHANGED <<poller, sockVars, countVars, clients, cur, idx, run,
                   accVars, mainVars, bounds>>

\* Nothing in the buffer; an empty map means sleep and continue, no step.
NoJoin(s) ==
    /\ pc[s] = "top"
    /\ run[s]
    /\ clientsBuff[s] = << >>
    /\ Members(s) # {}
    /\ Goto(s, "check")
    /\ UNCHANGED <<poller, sockVars, countVars, clientsBuff, clients, cur, idx,
                   run, accVars, mainVars, bounds>>

LoopExit(s) ==
    /\ pc[s] = "top"
    /\ ~run[s]
    /\ Goto(s, "freeMap")
    /\ UNCHANGED <<poller, sockVars, countVars, clientsBuff, clients, cur, idx,
                   run, accVars, mainVars, bounds>>

\* OnNetLeave for the client under descriptor f, about to be deleted.
Leave(s, f, label) ==
    /\ clients[s][f] # NoConn
    /\ leaves < MaxLeaves
    /\ leaves' = leaves + 1
    /\ clientAccept' = clientAccept - 1
    /\ clientJoin' = clientJoin - 1
    /\ cur' = [cur EXCEPT ![s] = clients[s][f]]
    /\ Goto(s, label)
    /\ UNCHANGED <<poller, sockVars, clientsBuff, clients, idx, run,
                   accVars, mainVars, faults>>

\* CheckTime finds a client whose heartbeat is overdue.
CheckExpire(s, f) == pc[s] = "check" /\ Leave(s, f, "ckDelete")

CheckDone(s) ==
    /\ pc[s] = "check"
    /\ Goto(s, "net")
    /\ UNCHANGED <<poller, sockVars, countVars, clientsBuff, clients, cur, idx,
                   run, accVars, mainVars, bounds>>

\* ReadData or WriteData of SelectServer meets a socket error.
SelectDrop(s, f) ==
    /\ pc[s] = "net"
    /\ poller = "select"
    /\ Leave(s, f, "rdDelete")

\* EpollServer::rmClient: the entry is found by the client's descriptor.
EpollErase(s, f) ==
    LET c == clients[s][f] IN
    /\ pc[s] = "net"
    /\ poller = "epoll"
    /\ c # NoConn
    /\ leaves < MaxLeaves
    /\ leaves' = leaves + 1
    /\ clients' = [clients EXCEPT ![s][sock[c]] = NoConn]
    /\ cur' = [cur EXCEPT ![s] = c]
    /\ Goto(s, "rmLeave")
    /\ UNCHANGED <<poller, sockVars, countVars, clientsBuff, idx, run,
                   accVars, mainVars, faults>>

\* Variant of RmLeave that gives back only the join count.
RmLeaveKeepsSlot(s) ==
    /\ pc[s] = "rmLeave"
    /\ clientJoin' = clientJoin - 1
    /\ Goto(s, After[pc[s]])
    /\ UNCHANGED <<poller, sockVars, clientAccept, clientsBuff, clients, cur,
                   idx, run, accVars, mainVars, bounds>>

RmLeave(s) ==
    /\ pc[s] = "rmLeave"
    /\ clientAccept' = clientAccept - 1
    /\ clientJoin' = clientJoin - 1
    /\ Goto(s, After[pc[s]])
    /\ UNCHANGED <<poller, sockVars, clientsBuff, clients, cur, idx, run,
                   accVars, mainVars, bounds>>

\* delete pClient: ~Client closes the socket.
Delete(s) ==
    /\ pc[s] \in {"ckDelete", "rdDelete", "rmDelete"}
    /\ sock' = [sock EXCEPT ![cur[s]] = NoFd]
    /\ cur' = IF pc[s] = "rmDelete" THEN [cur EXCEPT ![s] = NoConn] ELSE cur
    /\ Goto(s, After[pc[s]])
    /\ UNCHANGED <<poller, arrived, countVars, clientsBuff, clients, idx, run,
                   accVars, mainVars, bounds>>

\* Variant of Erase that forgets to.
EraseForgotten(s) ==
    /\ pc[s] \in {"ckErase", "rdErase"}
    /\ cur' = [cur EXCEPT ![s] = NoConn]
    /\ Goto(s, After[pc[s]])
    /\ UNCHANGED <<poller, sockVars, countVars, clientsBuff, clients, idx, run,
                   accVars, mainVars, bounds>>

\* _clients.erase(iter), after the client is gone.
Erase(s) ==
    /\ pc[s] \in {"ckErase", "rdErase"}
    /\ clients' = [clients EXCEPT ![s] =
                      [f \in FDs |-> IF @[f] = cur[s] THEN NoConn ELSE @[f]]]
    /\ cur' = [cur EXCEPT ![s] = NoConn]
    /\ Goto(s, After[pc[s]])
    /\ UNCHANGED <<poller, sockVars, countVars, clientsBuff, idx, run,
                   accVars, mainVars, bounds>>

\* SendDataReal of a client that can be written: the sockets are blocking, so
\* the cell is inside send() until the peer makes room.
SendWait(s) ==
    /\ pc[s] = "net"
    /\ Members(s) # {}
    /\ Goto(s, "send")
    /\ UNCHANGED <<poller, sockVars, countVars, clientsBuff, clients, cur, idx,
                   run, accVars, mainVars, bounds>>

\* send() returns; when with an error, SelectDrop or EpollErase follows.
SendReturn(s) ==
    /\ pc[s] = "send"
    /\ Goto(s, "net")
    /\ UNCHANGED <<poller, sockVars, countVars, clientsBuff, clients, cur, idx,
                   run, accVars, mainVars, bounds>>

\* DoNetEvents returns true; DoMsg changes nothing kept here.
NetDone(s) ==
    /\ pc[s] = "net"
    /\ Goto(s, "top")
    /\ UNCHANGED <<poller, sockVars, countVars, clientsBuff, clients, cur, idx,
                   run, accVars, mainVars, bounds>>

\* The wait fails (select does not wait for an empty map): Exit, its test of
\* _isRun included.
NetFail(s) ==
    /\ pc[s] = "net"
    /\ poller = "epoll" \/ Members(s) # {}
    /\ faults < MaxFaults
    /\ faults' = faults + 1
    /\ Goto(s, IF run[s] THEN "exitLock" ELSE "freeMap")
    /\ UNCHANGED <<poller, sockVars, countVars, clientsBuff, clients, cur, idx,
                   run, accVars, mainVars, leaves>>

\* Exit takes the thread's mutex, which a waiting Close holds.
ExitSet(s) ==
    /\ pc[s] = "exitLock"
    /\ ~(main = "joinCell" /\ closing = s)
    /\ run' = [run EXCEPT ![s] = FALSE]
    /\ Goto(s, "freeMap")
    /\ UNCHANGED <<poller, sockVars, countVars, clientsBuff, clients, cur, idx,
                   accVars, mainVars, bounds>>
-----------------------------------------------------------------------------
(* ClearClients, the onDestory of a cell; it takes no lock.                *)

Free(cs) == sock' = [c \in Conns |-> IF c \in cs THEN NoFd ELSE sock[c]]

FreeMap(s) ==
    /\ pc[s] = "freeMap"
    /\ Free(Members(s))
    /\ Goto(s, "clearMap")
    /\ UNCHANGED <<poller, arrived, countVars, clientsBuff, clients, cur, idx,
                   run, accVars, mainVars, bounds>>

ClearMap(s) ==
    /\ pc[s] = "clearMap"
    /\ clients' = [clients EXCEPT ![s] = [f \in FDs |-> NoConn]]
    /\ Goto(s, "freeBuff")
    /\ UNCHANGED <<poller, sockVars, countVars, clientsBuff, cur, idx, run,
                   accVars, mainVars, bounds>>

\* Variant of FreeBuff that clears the buffer without deleting its clients.
FreeBuffNothing(s) ==
    /\ pc[s] = "freeBuff"
    /\ Goto(s, "clearBuff")
    /\ UNCHANGED <<poller, sockVars, countVars, clientsBuff, clients, cur, idx,
                   run, accVars, mainVars, bounds>>

FreeBuff(s) ==
    /\ pc[s] = "freeBuff"
    /\ Free(Buffered(s))
    /\ Goto(s, "clearBuff")
    /\ UNCHANGED <<poller, arrived, countVars, clientsBuff, clients, cur, idx,
                   run, accVars, mainVars, bounds>>

ClearBuff(s) ==
    /\ pc[s] = "clearBuff"
    /\ clientsBuff' = [clientsBuff EXCEPT ![s] = << >>]
    /\ Goto(s, "done")
    /\ UNCHANGED <<poller, sockVars, countVars, clients, cur, idx, run,
                   accVars, mainVars, bounds>>
-----------------------------------------------------------------------------
(* The accept thread.                                                      *)

\* Variant of Accept whose limit is one too high.
AcceptOneMore(c) ==
    /\ acc = "wait"
    /\ c \notin arrived
    /\ arrived' = arrived \union {c}
    /\ \E f \in FDs :
          /\ \A d \in Conns : sock[d] # f
          /\ sock' = [sock EXCEPT ![c] = f]
    /\ next' = c
    /\ \/ /\ clientAccept <= MaxClient
          /\ clientAccept' = clientAccept + 1
          /\ acc' = "choose"
       \/ /\ clientAccept > MaxClient
          /\ acc' = "refuse"
          /\ UNCHANGED clientAccept
    /\ pMin' = 1
    /\ probe' = 1
    /\ UNCHANGED <<poller, clientJoin, cellVars, accRun, mainVars, bounds>>

\* accept() returns c on some free descriptor; AcceptClient admits or refuses.
Accept(c) ==
    /\ acc = "wait"
    /\ c \notin arrived
    /\ arrived' = arrived \union {c}
    /\ \E f \in FDs :
          /\ \A d \in Conns : sock[d] # f
          /\ sock' = [sock EXCEPT ![c] = f]
    /\ next' = c
    /\ \/ /\ clientAccept < MaxClient
          /\ clientAccept' = clientAccept + 1
          /\ acc' = "choose"
       \/ /\ clientAccept >= MaxClient
          /\ acc' = "refuse"
          /\ UNCHANGED clientAccept
    /\ pMin' = 1
    /\ probe' = 1
    /\ UNCHANGED <<poller, clientJoin, cellVars, accRun, mainVars, bounds>>

\* Variant of Choose that adds the client to each better cell it meets.
ChooseAdds ==
    /\ acc = "choose"
    /\ probe <= NumCells
    /\ \/ /\ getClientCount(pMin) > getClientCount(probe)
          /\ pMin' = probe
          /\ clientsBuff' = [clientsBuff EXCEPT ![probe] = Append(@, next)]
       \/ /\ getClientCount(pMin) <= getClientCount(probe)
          /\ UNCHANGED <<pMin, clientsBuff>>
    /\ probe' = probe + 1
    /\ UNCHANGED <<poller, sockVars, countVars, clients, pc, cur, idx, run, acc,
                   next, accRun, mainVars, bounds>>

\* One round of the search for the cell with the fewest clients.
Choose ==
    /\ acc = "choose"
    /\ probe <= NumCells
    /\ pMin' = IF getClientCount(pMin) > getClientCount(probe) THEN probe ELSE pMin
    /\ probe' = probe + 1
    /\ UNCHANGED <<poller, sockVars, countVars, cellVars, acc, next, accRun,
                   mainVars, bounds>>

\* addClient, under the lock of the cell's buffer.
AddClient ==
    /\ acc = "choose"
    /\ probe > NumCells
    /\ pc[pMin] # "join"
    /\ clientsBuff' = [clientsBuff EXCEPT ![pMin] = Append(@, next)]
    /\ next' = NoConn
    /\ acc' = "loop"
    /\ UNCHANGED <<poller, sockVars, countVars, clients, pc, cur, idx, run, pMin,
                   probe, accRun, mainVars, bounds>>

\* Variant of Refuse that keeps the connection in hand.
RefuseKeeps ==
    /\ acc = "refuse"
    /\ sock' = [sock EXCEPT ![next] = NoFd]
    /\ acc' = "loop"
    /\ UNCHANGED <<poller, arrived, countVars, cellVars, next, pMin, probe, accRun,
                   mainVars, bounds>>

\* Over the limit: destorySocket.
Refuse ==
    /\ acc = "refuse"
    /\ sock' = [sock EXCEPT ![next] = NoFd]
    /\ next' = NoConn
    /\ acc' = "loop"
    /\ UNCHANGED <<poller, arrived, countVars, cellVars, pMin, probe, accRun,
                   mainVars, bounds>>

AccTest ==
    /\ acc = "loop"
    /\ acc' = IF accRun THEN "wait" ELSE "done"
    /\ UNCHANGED <<poller, sockVars, countVars, cellVars, next, pMin, probe,
                   accRun, mainVars, bounds>>

\* The wait ends without a connection.
AccIdle ==
    /\ acc = "wait"
    /\ acc' = "loop"
    /\ UNCHANGED <<poller, sockVars, countVars, cellVars, next, pMin, probe,
                   accRun, mainVars, bounds>>

\* The wait of the accept thread fails: Exit, its test of _isRun included.
AccFail ==
    /\ acc = "wait"
    /\ faults < MaxFaults
    /\ faults' = faults + 1
    /\ acc' = IF accRun THEN "exitLock" ELSE "done"
    /\ UNCHANGED <<poller, sockVars, countVars, cellVars, next, pMin, probe,
                   accRun, mainVars, leaves>>

AccExitSet ==
    /\ acc = "exitLock"
    /\ main # "joinAcc"
    /\ accRun' = FALSE
    /\ acc' = "done"
    /\ UNCHANGED <<poller, sockVars, countVars, cellVars, next, pMin, probe,
                   mainVars, bounds>>
-----------------------------------------------------------------------------
(* TcpServer::Close: the accept thread first, then delete of each cell.    *)

CloseAccept ==
    /\ main = "serving"
    /\ accRun' = FALSE
    /\ main' = IF accRun THEN "joinAcc" ELSE "delete"
    /\ UNCHANGED <<poller, sockVars, countVars, cellVars, acc, next, pMin, probe,
                   closing, bounds>>

JoinAcc ==
    /\ main = "joinAcc"
    /\ acc = "done"
    /\ main' = "delete"
    /\ UNCHANGED <<poller, sockVars, countVars, cellVars, accVars, closing, bounds>>

\* Variant of DeleteCell that does not wait for the cell.
DeleteCellNoWait ==
    /\ main = "delete"
    /\ closing <= NumCells
    /\ run' = [run EXCEPT ![closing] = FALSE]
    /\ closing' = closing + 1
    /\ UNCHANGED <<poller, sockVars, countVars, clientsBuff, clients, pc, cur, idx,
                   accVars, main, bounds>>

\* Variant of DeleteCell that waits without stopping the cell.
DeleteCellNoStop ==
    /\ main = "delete"
    /\ closing <= NumCells
    /\ \/ run[closing] /\ main' = "joinCell" /\ UNCHANGED closing
       \/ ~run[closing] /\ closing' = closing + 1 /\ UNCHANGED main
    /\ UNCHANGED <<poller, sockVars, countVars, cellVars, accVars, bounds>>

\* delete s: ~Server closes its thread, waiting only if it is marked running.
DeleteCell ==
    /\ main = "delete"
    /\ closing <= NumCells
    /\ run' = [run EXCEPT ![closing] = FALSE]
    /\ \/ run[closing] /\ main' = "joinCell" /\ UNCHANGED closing
       \/ ~run[closing] /\ closing' = closing + 1 /\ UNCHANGED main
    /\ UNCHANGED <<poller, sockVars, countVars, clientsBuff, clients, pc, cur, idx,
                   accVars, bounds>>

JoinCell ==
    /\ main = "joinCell"
    /\ pc[closing] = "done"
    /\ main' = "delete"
    /\ closing' = closing + 1
    /\ UNCHANGED <<poller, sockVars, countVars, cellVars, accVars, bounds>>

CloseEnd ==
    /\ main = "delete"
    /\ closing > NumCells
    /\ main' = "closed"
    /\ UNCHANGED <<poller, sockVars, countVars, cellVars, accVars, closing, bounds>>
-----------------------------------------------------------------------------
CellStep(s) ==
    \/ JoinBegin(s) \/ JoinOne(s) \/ JoinEnd(s) \/ NoJoin(s) \/ LoopExit(s)
    \/ \E f \in FDs : CheckExpire(s, f) \/ SelectDrop(s, f) \/ EpollErase(s, f)
    \/ CheckDone(s) \/ RmLeave(s) \/ Delete(s) \/ Erase(s)
    \/ SendWait(s) \/ SendReturn(s) \/ NetDone(s) \/ NetFail(s) \/ ExitSet(s)
    \/ FreeMap(s) \/ ClearMap(s) \/ FreeBuff(s) \/ ClearBuff(s)

\* What the accept thread does without a new connection or a failed wait.
AccStep == AccTest \/ AccIdle \/ Choose \/ AddClient \/ Refuse \/ AccExitSet

\* What a thread inside Close does.
CloseStep == JoinAcc \/ DeleteCell \/ JoinCell \/ CloseEnd

Next ==
    \/ \E s \in Cells : CellStep(s)
    \/ \E c \in Conns : Accept(c)
    \/ AccStep
    \/ AccFail
    \/ CloseAccept
    \/ CloseStep

\* Every started thread keeps running: callbacks and waits (1 ms) return, and
\* DoNetEvents, which handles a socket once, comes to its end if no send() in
\* it blocks for ever.  Whether a send() returns is up to the peer.  No
\* connection need arrive and nobody need call Close.
Fairness ==
    /\ \A s \in Cells : WF_vars(pc[s] # "send" /\ CellStep(s))
    /\ \A s \in Cells : SF_vars(NetDone(s))
    /\ WF_vars(AccStep)
    /\ WF_vars(CloseStep)

Spec == Init /\ [][Next]_vars /\ Fairness
-----------------------------------------------------------------------------
(* Properties.                                                             *)

\* Every field has its type, and the accept thread has a connection in hand
\* from accept() to the end of AcceptClient (TcpServer.hpp:217-248).
TypeOK ==
    /\ poller \in Pollers
    /\ arrived \subseteq Conns
    /\ sock \in [Conns -> FDs \union {NoFd}]
    /\ clientAccept \in Int
    /\ clientJoin \in Int
    /\ clientsBuff \in [Cells -> Seq(Conns)]
    /\ clients \in [Cells -> [FDs -> Conns \union {NoConn}]]
    /\ pc \in [Cells -> CellState]
    /\ cur \in [Cells -> Conns \union {NoConn}]
    /\ idx \in [Cells -> Nat]
    /\ run \in [Cells -> BOOLEAN]
    /\ acc \in AccState
    /\ next \in Conns \union {NoConn}
    /\ pMin \in Cells
    /\ probe \in 1..(NumCells + 1)
    /\ accRun \in BOOLEAN
    /\ main \in MainState
    /\ closing \in 1..(NumCells + 1)
    /\ leaves \in 0..MaxLeaves
    /\ faults \in 0..MaxFaults
    /\ acc \in {"choose", "refuse"} <=> next # NoConn

\* The thread of a cell runs its loop (it is not in Exit or ClearClients).
Looping(s) ==
    pc[s] \in {"top", "join", "check", "net", "send", "ckDelete", "ckErase",
               "rdDelete", "rdErase", "rmLeave", "rmDelete"}

\* The client whose deletion is under way is the one entry of a map that may
\* be stale: every other entry of a running cell names an open client under
\* its own descriptor, although descriptors are reused as soon as they are
\* closed (Server.hpp:93-139, EpollServer.hpp:81-88, SelectServer.hpp:92-161).
MapExact ==
    \A s \in Cells : Looping(s) =>
        \A f \in FDs : clients[s][f] \notin {NoConn, cur[s]} => sock[clients[s][f]] = f

\* A client belongs to one cell and waits in one buffer, once; what the accept
\* thread has in hand is in none (TcpServer.hpp:217-248, Server.hpp:55-69).
OneOwner ==
    \A s \in Cells :
        /\ \A i, j \in 1..Len(clientsBuff[s]) :
              clientsBuff[s][i] = clientsBuff[s][j] => i = j
        /\ next \notin Buffered(s) \union Members(s)
        /\ \A t \in Cells \ {s} :
              (Buffered(s) \union Members(s)) \cap (Buffered(t) \union Members(t)) = {}

\* A client is never pushed out of a map by another: an entry changes only to
\* the client's erasure (Server.hpp:60, with descriptors reused).
NoClientOverwritten ==
    [][\A s \in Cells, f \in FDs :
         clients[s][f] # NoConn => clients'[s][f] \in {clients[s][f], NoConn}]_vars

\* Slots given back by OnNetLeave for a client whose socket is still open.
Windows == {s \in Cells : pc[s] \in {"ckDelete", "rdDelete", "rmDelete"}}

\* The connection limit (TcpServer.hpp:34-35, 221-233): never more admitted
\* than nMaxClient, and the sockets open at most that many, plus one being
\* refused and one per cell between OnNetLeave and delete.
LimitRespected ==
    /\ clientAccept <= MaxClient
    /\ Cardinality(Open) <= clientAccept + Cardinality(Windows)
                              + (IF acc = "refuse" THEN 1 ELSE 0)

\* The counters tell the truth as long as no cell has left its loop:
\* _clientAccept is the number of admitted open clients and _clientJoin the
\* number of clients in the maps, removals under way aside
\* (TcpServer.hpp:288-302).
CountersExact ==
    (\A s \in Cells : Looping(s)) =>
        /\ clientAccept + Cardinality(Windows) + (IF acc = "refuse" THEN 1 ELSE 0)
             = Cardinality(Open)
        /\ clientJoin + Cardinality({s \in Cells : pc[s] \in
                             {"ckDelete", "ckErase", "rdDelete", "rdErase"}})
             = Cardinality(UNION {Members(s) : s \in Cells})
               + Cardinality({s \in Cells : pc[s] = "rmLeave"})

Freed(s) == s < closing

\* The thread of a cell is in ClearClients.
Clearing(s) == pc[s] \in {"freeMap", "clearMap", "freeBuff", "clearBuff"}

\* A cell is freed only after its thread has ended, ClearClients included.  Only
\* when a failed wait had made the thread call Exit does Close not wait for it;
\* then too the thread has left its loop for good and at most ClearClients still
\* runs on the freed cell (TcpServer.hpp:270-286, Server.hpp:18-48, Thread.hpp:44-61).
CloseJoinsCells ==
    \A s \in Cells : Freed(s) => pc[s] = "done" \/ (faults > 0 /\ Clearing(s))

\* Close leaves no client behind: when it has returned every socket of an
\* admitted client is closed, in the maps and in the buffers
\* (TcpServer.hpp:270-286, Server.hpp:233-246).
CloseFreesAll == main = "closed" /\ faults = 0 => Open = {}

\* A client put into a buffer is moved to the map of its cell, or freed
\* because the cell is closed (Server.hpp:51-89, 233-246), unless a peer that
\* does not read keeps the cell inside a send() for ever (Buffer.hpp:104).
BufferedJoins ==
    \A s \in Cells, c \in Conns :
        \/ c \in Buffered(s) ~> (c \in Members(s) \/ sock[c] = NoFd)
        \/ <>[](pc[s] = "send")

\* TcpServer::Close comes to its end: every thread it waits for leaves its loop
\* and finishes ClearClients (TcpServer.hpp:270-286, Server.hpp:42-48).  Only a
\* cell it waits for that never returns from a send() (Buffer.hpp:104) holds it.
CloseEnds ==
    \/ main = "joinAcc" ~> main = "closed"
    \/ <>[](main = "joinCell" /\ pc[closing] = "send")
===============================================================================
