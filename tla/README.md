# A TLA+ model of LindaNet

LindaNet (`src/`) is a header-only C++ network library: a TCP server with one
accept thread and several message threads, on epoll or select; a client side; a
small HTTP client and server on top; and an asynchronous log. This directory
models the parts whose correctness depends on threads, order and shared
state, checks them with TLC on small instances and proves their main properties
with TLAPS for every value of the constants.

Paths below are relative to `src/depends/include/` unless they start with
another directory of `src/`.

## 1. Inventory

| Component | Files | State | Operations |
|---|---|---|---|
| Thread, Semaphore | `Thread.hpp`, `Semaphore.hpp` | `_isRun`, `_mutex`; `_wait`, `_wakeup` | `Start`, `Close`, `Exit`, `OnWork`; `wait`, `wakeup` |
| TaskServer | `Task.hpp` | `_tasks`, `_tasksBuf`, its Thread | `addTask`, `Start`, `Close`, `OnRun` |
| Server ("cell") | `Server.hpp`, `EpollServer.hpp`, `SelectServer.hpp` | `_clients` (descriptor to client), `_clientsBuff`, `_mutex`, its Thread | `addClient`, `OnRun` (join, `CheckTime`, `DoNetEvents`, `DoMsg`), `OnClientLeave`, `ClearClients`, `Close` |
| TcpServer | `TcpServer.hpp`, `TcpEpollServer.hpp`, `TcpSelectServer.hpp` | `_cellServers`, `_clientAccept`, `_clientJoin`, `_nMaxClient`, its Thread | `Start`, `Accept`, `AcceptClient`, `addClientToCELLServer`, `OnNetJoin`, `OnNetLeave`, `Close` |
| Client, Buffer | `Client.hpp`, `Buffer.hpp`, `MessageHeader.hpp` | descriptor, two byte buffers, heartbeat and send time | `SendData`, `SendDataReal`, `RecvData`, `hasMsg`, `pop_front_msg`, `checkHeart` |
| Echo server, load generator | `TcpServer/server.cpp`, `TcpClient/client.cpp` | message ids in both directions, send counters | `OnNetMsg`, `SendTest`, `checkSend`, `WorkThread` |
| TcpClient | `TcpClient.hpp`, `TcpEpollClient.hpp`, `TcpSelectClient.hpp` | `_pClient`, `_isConnect` | `Connect`, `OnRun`, `DoMsg`, `Close` |
| HTTP request client | `TcpHttpClient.hpp`, `HttpClientC.hpp` | queue of requests, the current callback | `get`, `post`, `nextRequest`, `OnNetMsg`, `OnDisConnect` |
| HTTP server | `HttpClientS.hpp`, `TcpHttpServer.hpp`, `HttpServer/server.cpp`, `SplitString.hpp`, `KeyString.hpp` | a request's header and body length, its headers and arguments, keep-alive | `hasMsg`, `getRequestInfo`, `pop_front_msg`, `writeResponse`, `onSendComplete`, `OnNetMsgHttp` |
| Log, Config | `Log.hpp`, `Config.hpp` | a file, a map | `Info` ..., `Init`, `getInt` ... |
| Poller wrappers, network and time helpers | `Epoll.hpp`, `FDSet.hpp`, `NetWork.hpp`, `Timestamp.hpp` | a descriptor or array | one system call or pure function each |
| WebSocket, base64, sha1 | `WebSocketObject.hpp`, `base64.hpp`, `sha1.hpp` | | used by no program of the repository |

How they interact. `TcpServer::Start` creates the cells and starts their
threads, then its own. The accept thread calls `AcceptClient`, which tests the
limit, chooses a cell by `getClientCount` (unlocked reads of the cell's two
containers) and pushes the client into that cell's buffer under the cell's
lock. The cell's thread moves the buffer into its map and calls back
`OnNetJoin`, later `OnNetLeave`, which change the server's atomic counters from
every cell's thread. `TcpServer::Close`, called by the main thread, closes the
accept thread and then deletes the cells one after the other; each cell closes
its thread, whose `onDestory` is `ClearClients`. Every one of these threads is
a `Thread`, whose `Close` waits on a `Semaphore` while it holds the `Thread`'s
mutex. Log messages of all threads go through one `TaskServer`. The HTTP server is
the same server with `HttpClientS` as its clients: a cell's `DoMsg` asks `hasMsg`
whether a whole request is in front of the receive buffer, `TcpHttpServer` parses it
in place and `MyServer` pushes the answer into the send buffer, which a
later round sends; when it is empty `onSendComplete` may mark the client as
closed, and the next `CheckTime` removes it.

What is hard: the shared fields read without the lock that guards their
writes; `Close`, `Exit` and the end of a worker in any order; descriptors that
the kernel reuses the moment they are closed, as keys of the maps; counters
changed by several threads; a failed wait, after which one thread ends and the
others go on; time that is charged by the round to clients that were not there for all
of it; text that arrives in pieces, is looked for with string functions in a
buffer that holds the next request as well, and is parsed by writing into it. `PROJECT.json` lists each such place under "hazards" with its line and the
properties about it.

What makes each component correct: a closed Thread's worker has finished, and
nothing waits for ever; tasks run once each and in order, none accepted before
`Close` is lost; a client belongs to one cell, is never lost between the buffer and
the map and never pushed out of the map; the limit holds and the counters tell
the truth; closing waits for every thread and closes every socket; a message stream
delivers what was sent, in order; a silent client goes and a regular one stays;
an HTTP request is recognised exactly when it is whole, and gets one answer;
an HTTP answer reaches the request it answers.

## 2. Modules

| Module | Models | Proofs |
|---|---|---|
| `Thread` | `Thread` and `Semaphore`, callers and successive workers of one object | `ThreadProofs` |
| `TaskQueue` | what `TaskServer` promises: a FIFO queue (abstract) | |
| `TaskServer` | `TaskServer`; implements `TaskQueue` | `TaskServerProofs` |
| `CellServer` | accept thread, cells (epoll or select), closing thread | `CellServerProofs`, `CellCountsProofs` |
| `MCCellServer` | `CellServer` with its symmetry, for TLC | |
| `Heartbeat` | the clock of one cell, `CheckTime`, `_oldTime`, `checkHeart` and what resets it | `HeartbeatProofs` |
| `MsgChannel` | what one direction of a connection promises: a FIFO channel of messages (abstract) | |
| `MsgStream` | one connection: load generator and echo server, `TcpClient`, `Client`, `Buffer`; implements two `MsgChannel`s | `MsgStreamProofs` |
| `HttpRequests` | the request queue of `TcpHttpClient` over a `TcpEpollClient`, its callbacks, the server as environment | `HttpRequestsProofs` |
| `HttpConnection` | one connection to the HTTP server: `HttpClientS`, `TcpHttpServer`, `MyServer`, and the answers at `HttpClientC`; implements a `MsgChannel` of answers | `HttpConnectionProofs` |
| `MCHttpConnection` | the requests of its run, for TLC | |

### Thread

State: `isRun` is `_isRun`; `mutex` the holder of `Thread::_mutex`; `wait` and
`wakeup` the semaphore's two counts; `caller[c]` and `worker[w]` say where each
thread stands. Worker `n` is the detached thread of the `n`-th `Start`; an old
worker may still be running when the next is started, as in the code.

Each access to a shared field is a step. `Start` is one step (all under the
mutex). `Close` is `CloseLock` (mutex taken, `_isRun` cleared), `SemWait` (the
decrement, and either the return or the block) and `SemResume`; `CloseSkip` is
`Close` on an object not running. The semaphore's own mutex makes each
of its halves one step. `Exit` is `ExitTest` (its unlocked test) and `ExitSet`
(lock, clear, unlock). `OnWork` ends in `OnDestory`, `Wakeup`, `Clear`, the last
without the mutex. `_onCreate` is null wherever the code calls `Start`.

### TaskServer

State: the two lists, `_isRun` of its Thread, the worker's place and its
iterator. `Fetch` is the unlocked emptiness test, `Swap` the move under the lock,
`Exec`/`Clear` the loop over `_tasks`, `Drain` one round of the unlocked loop over the
live `_tasksBuf`. `Remaining`, the refinement mapping, is the part of the lists
still to be executed. Two history variables, `added` and `late`, say which
tasks were accepted, and which of them after `Close` had begun.

Its Thread is not instantiated: `Close` clears `isRun` and `CloseReturn` waits
for the end of `OnRun`. That is what `Thread` proves of an object started once
(`CloseWaits`), and every `TaskServer` of the repository is.

### CellServer

State: `sock` gives each connection its open descriptor, `clientsBuff` and
`clients` are the cells' containers, `clientAccept` and `clientJoin` the
counters; `pc`, `cur` and `idx` are a cell thread's place, the client it removes
and how far it has joined the buffer; `acc`, `next`, `pMin`, `probe` the accept
thread; `main`, `closing` the closing thread. `poller` is the build, epoll or
select: it decides the order in which a removal erases, leaves and deletes.

| Code | Actions |
|---|---|
| `Server::OnRun` | `JoinBegin`, `JoinOne`, `JoinEnd`, `NoJoin`, `LoopExit`, `SendWait`, `SendReturn`, `NetDone`, `NetFail`, `ExitSet` |
| `CheckTime`, `OnClientLeave` | `CheckExpire`, `CheckDone`, then `Delete`, `Erase` |
| `SelectServer::ReadData`, `WriteData` | `SelectDrop`, then `Delete`, `Erase` |
| `EpollServer::rmClient` | `EpollErase`, `RmLeave`, `Delete` |
| `ClearClients` | `FreeMap`, `ClearMap`, `FreeBuff`, `ClearBuff` |
| `OnRun` of the accept thread, `AcceptClient` | `AccTest`, `AccIdle`, `Accept`, `Refuse`, `AccFail`, `AccExitSet` |
| `addClientToCELLServer`, `addClient` | `Choose`, one per cell compared; `AddClient` |
| `TcpServer::Close`, `~Server` | `CloseAccept`, `JoinAcc`, `DeleteCell`, `JoinCell`, `CloseEnd` |

What is abstracted: which client misses its heartbeat or meets an error is any
client at any round (`Heartbeat` has the time); messages and buffers of a client are left out (`DoMsg`
changes nothing kept here); the Threads appear as flags and waits, with the
blocking of `Exit` behind a waiting `Close`. The sockets are blocking, so a cell may
be inside `send()` (`SendWait`, `SendReturn`) for as long as a peer does not read.
Grouped accesses: both sizes in `getClientCount` are read in one step, the deletes of one loop of
`ClearClients` are one step, and a cell's test of `_isRun` is one step with what
follows it (only its `Close` writes the flag, and reads nothing the cell
writes). `Accept` tests the limit and increments `_clientAccept` in one step: only the
accept thread increments it, so a decrement in between is as one that comes after both. `JoinOne`, `Leave` and `RmLeave`
move a counter together with the map, or both counters: the cell alone reads
its map's entries, nothing but these steps touches `_clientJoin`, and the others read
only the map's size and `_clientAccept`, so the two halves commute with
what other threads do in between. Reads of plain `bool`s and of container sizes without the lock return
the value of the moment, which is what the builds do on the platforms
of the repository.

### Heartbeat

One cell and the clients it has, with a clock that may advance between any two
steps. State: `now` is the clock, `oldTime` is `_oldTime`, `dtHeart` each client's
timer, `conn` where the client is (not connected, in the buffer, in the map, gone
because of its timer, gone otherwise), `unread` and `inBuff` its messages in the
socket and in the receive buffer. Histories: when its last message came, the
longest silence between two, when the cell last handled one, when the cell last
polled it, and the longest round.

| Code | Actions |
|---|---|
| `Client::Client`, `addClient` | `AddClient` |
| `OnRun`: the buffer into the map, the sleep without clients | `Top`, `Idle` |
| `CheckTime`, `checkHeart` | `CheckTime` with `Dead`, `Refresh` |
| `DoNetEvents`, `RecvData` | `Poll`, `PollInterrupted`, `Recv`, `SocketError`, `NetDone` |
| `onSendComplete`, `onClose` | `OnClose` |
| `DoMsg`, `OnNetMsg`, `resetDTHeart` | `OnNetMsg`, `MsgDone` |

The code charges a client the time since the cell last looked at the clock,
whether or not the client was there for all of it, and resets a timer when a message is
handled, not when it comes. Neither "a client that sends every
`CLIENT_HREAT_DEAD_TIME` stays" nor "a silent one is removed at that time" is
true as it stands, so the properties say by how much: `RegularStays` allows one
round charged too much and the time since the round that last polled the client;
`SilentRemoved` one round spent in the buffer.
A message here is one that resets the timer: the kinds that do are `Login`
and `Heart` at the echo server and any whole request at the HTTP server. A
message fits into the buffer and the buffer holds no whole message before the
read (`RoomToRead` of `MsgStream`), so `Recv` takes at least the oldest. The cell may
hold other clients, which matter here only because a cell without any skips the round.
The clock does not go back: the code reads `high_resolution_clock`, which is steady
or not as the library likes.

### MsgStream

One client of the load generator and the echo server, each with its thread and
its two buffers. A message is `MsgLen` units long; a unit is a pair of the
message's id and its place in it, so that a message cut anywhere, merged
with its neighbour or shifted is told from a whole one. State, per end: `sendBuff`
and `recvBuff` are the two `Buffer`s (`sendBuff` without what the running `send()`
has already given to the kernel), `wire` what it has sent and the peer has not
received, `pc` and `writable` its place in the round, `open` its socket, and the two
message ids. For the client also `_bSend`, `_nSendCount` and the global `nConnect`.
`accepted` and `handled` are histories of the messages that `SendData` took
and `OnNetMsg` was given.

| Code | Actions |
|---|---|
| `WorkThread` | `LoopTest`, `SendTest`, `SendTestEnd`, `CheckSend`, `WorkStop` |
| `OnRun` of `TcpEpollClient`, `TcpSelectClient` | `Poll`, `Recv`, `Send`, and after an error `RecvError`, `SendError`, `WaitFail` |
| `DoNetEvents` and `RecvData` of the cell | the same actions of the end `"server"` |
| `DoMsg`, `OnNetMsg` | `ClientMsg`, `ServerMsg` (with `Answer`), `MsgEnd` |
| `Buffer::push`, `hasMsg`, `pop` | `Push`, `Fits`, `HasMsg`, `Pop` |
| `read4socket`, `write2socket` | `Recv`, `Send`, `SendPart` |
| removal by the cell for its own reasons | `ServerDrop` |

What is abstracted. The bytes of a message, its header included: all that
`hasMsg` takes from it is the length, which is the same for the two messages the
programs exchange. The sockets are blocking, as in the code, so `Send` leaves the
thread inside `send()` (`"sending"`) until everything is in the kernel or a
signal interrupts it (`SendPart`). A poll may miss what is still on its way, so
each of its answers is a choice. The connection is established before the model
starts. A client closes once; reconnecting is left out because no program of the
repository does it on this client.

### HttpRequests

Everything of the HTTP client happens in the thread that calls `OnRun`, so what
interleaves here is not threads: it is `get` and `post`, called between two
`OnRun`s or from a callback, with answers, closed connections and failed attempts
to connect. State: `queue` is `_eventQueue` with each request's `questCount`,
`bNextRequest` and `onResponseCall` the fields of that name, `hostBack` the
server of the last success, `client` whether there is a `_pClient` and whether
it is connected; `sendBuff`, `asked` and `answers` are the requests and answers
on their way; `pc` is the place inside `OnRun`, `addrs` the addresses still to be tried.
Histories: the host of each request issued, the callbacks called with the answer they
got, and whether a request was ever issued while another was pending (`overlap`).

| Code | Actions |
|---|---|
| `get`, `post` | `get`; from inside a callback, the argument `more` |
| `nextRequest` | `NextNone`, `NextDrop`, `NextTry`, `Request` |
| `hostname2ip`, `connect2ip`, `InitSocket`, `Connect` | `NextTry`, `SkipAddress`, `Connect`, `ConnectFail` |
| `TcpEpollClient::OnRun` | `PollIdle`, `Poll`, `Recv`, `Send`, `LinkError` |
| `DoMsg`, `OnNetMsg`, `onRecvComplete` | `OnNetMsg`, `OnNetMsgClose`, `MsgEnd` |
| `Close`, `OnDisConnect` | operators inside `Connect`, `ConnectFail`, `LinkError` |

`Close` from inside `DoMsg` frees what `OnRun` then reads
(`TcpEpollClient.hpp:66`): `OnNetMsgClose` either goes on or ends in `"crashed"`.
Abstracted: the bytes. A request takes a slot of the send buffer, an answer is
taken when it is complete, a host stands for host and port. Callbacks only call
`get` and `post`, at most once each; calling `Close` from one would delete the client
under `OnNetMsg`. `TcpHttpClient` is used by no program of the repository, so the
model allows any calls of this kind.

### HttpConnection

One connection of the HTTP server, over the rounds of its cell, and a client at
the other end. A text is a sequence of units: a word of the first line, its
arguments, a `Connection`, `Content-Length` or other header, an end of a line, a
body. TCP may cut between any two. A unit is what the string functions of the
code either find or do not find; nothing the code looks for is shorter, and a cut inside
one differs from a cut before it only in that it is not found yet. State: `recvBuff`, `sendBuff`,
`keepalive`, `dtHeart` are the fields of that name, `closing` is `isClose`; `up` and
`down` what is on its way; `clientBuff` the receive buffer of `HttpClientC`; `pc` and
`writable` the cell's place in the round. `_headerLen` and `_bodyLen` are functions of the
buffer whenever they are used, and the two maps live only from `getRequestInfo` to
`pop_front_msg`, inside one action. Histories: `asked`, `handled`, `taken`.

| Code | Definitions |
|---|---|
| `checkHttpRequest`, `checkHttpResponse` | `Headed`, `Measured`, `Whole`, `BadRequest` |
| `getRequestInfo`, `request_args`, `splitUrlArgs` | `Arguments`, `Value`, `Keeps`, and `Split` for what they write into the buffer |
| `OnNetMsgHttp`, `writeResponse`, `SendData`, `push` | `Status`, `Content`, `Written`, `Pushed`, `Fits` |
| `DoMsg`, `TcpHttpServer::OnNetMsg`, `pop_front_msg` | `OnNetMsg`, `MsgEnd` |
| `DoNetEvents`, `read4socket`, `SendDataReal`, `onSendComplete` | `Poll`, `Recv`, `Send`, `SocketError` |
| `CheckTime`, `OnClientLeave` | `CheckTime`, `Remove` |
| a failed wait, `Close` of the cell: `Exit` or the end of the loop, `ClearClients` | `LoopEnds` |
| the client: `RecvData`, `DoMsg` with `HttpClientC` | `Ask`, `ClientRecv`, `ClientTake`, `ClientClose` |

`SplitString` writes a `\0` over every end of a line that lies in the buffer, also of
the request behind the one it parses; the unit becomes `nul`, and all searches
stop there. So a request that came together with an earlier one
can be lost for good, and the connection waits until its timer ends it. That is
what `Split`, `Seen` and the client kinds are for: `serial` asks again only after the
answer (what `HttpRequests` shows of a program that issues one request at a
time), `eager` does not wait, `odd` sends anything. Behind the data the buffer
still holds old bytes, which `strstr` may reach between `pop` and the next
`recv`; they were parsed, so they contain no end of a line any more and cannot
complete a text.

Abstracted: which other headers there are; the number of a `Content-Length`, which is
read up to the next end of a line: `NumberEnds` takes anything else in between, and
`Measured` a number too big for the buffer, as one of more than six digits; the first line, which has its three words (with
fewer `_url_path` stays unset). `Content-Length` is searched in the whole buffer, as in
the code, so a body may contain one; `WellFormed` asks that a request's own comes
first. The blocking `send()` is the subject of
`MsgStream` and, for the other clients of a cell, of `CellServer`: here the client and
those it shares the cell with read what they are sent, and the kernel takes all, or a
part when a signal interrupts it. What becomes of the buffer and of the
other clients when the loop ends is `CellServer`'s; here `LoopEnds` deletes the client
wherever it is. The
overlapping `memcpy` in `Buffer::pop` and `write2socket` is taken to copy forwards, as
the C library of the build does.

## 3. Runs

| Run | Question | Bounds | Result |
|---|---|---|---|
| `thread` | type, `SemBalance`, `CloseWaits`, `CloseReturnsOrExitWaits` | 2 callers, 3 starts | holds |
| `thread_exit_deadlock` | does a worker that enters `Exit` come out of it? | 1 caller, 1 start | no |
| `tasks` | type, `CloseDrains`, `ImplementsTaskQueue`, `TaskRuns` | 4 tasks | holds |
| `cells` | type, `MapExact`, `OneOwner`, `LimitRespected`, `CountersExact`, `CloseJoinsCells`, `CloseFreesAll`, `NoClientOverwritten` | 2 cells, 3 descriptors, 4 connections, limit 2, 2 removals, 1 failed wait | holds |
| `cells_live` | `BufferedJoins`, `CloseEnds` | 2 cells, 2 descriptors, 3 connections, epoll, 1 removal, no failed wait | holds |
| `cells_dead` | `BufferedJoins` with a failed wait | 2 cells, 2 connections, 1 failed wait | no |
| `heartbeat` | type, `SilentRemoved`, `RegularStays` | 1 client followed, limit 4, clock up to 6, 1 interrupted poll | holds |
| `msg_stream` | type, `IdsConsecutive`, `RoomToRead`, `OneUnderWay`, `ImplementsChannels`, `AnswerArrives` | messages of 2 units, send buffers of 3, receive buffers of 5, kernel 3, 4 messages, bursts of 2, 1 failed wait, both builds, both options on and off | holds |
| `msg_blocked` | does `OnRun(0)` always return? | messages of 1 unit, 10 messages, no `-chekSendBack` | no |
| `http` | type, `CallsInOrder`, `RightServer`, `OwnAnswer`, `NothingLost`, `LossKnown`, `CallbackComes` | 3 requests, 2 servers, 2 addresses each, send buffer of 1 request, 2 failures, 1 unasked close | holds |
| `http_server` | type, `ExactlyWhole`, `CloseAfterAnswer`, `AnswersInOrder`, `AnswerComes`, `StuckRemoved` | 3 well formed and 3 other requests, 2 per connection, send buffer of 6 units (one answer), receive buffers of 10, kernel 2, limit 2 rounds | holds |
| `http_given_up` | is a request given up only after an error? | 2 requests, 1 server, no failure, no close | no |

Why the bounds are enough. Two callers are needed for one `Close` to find another
at work, three starts for a worker to run while a second is started and a third
finds what both left. Four tasks fill both lists with more than one
element around a `Close`. Two cells give two maps, a comparison and an order of closing;
more connections than descriptors force the reuse of a descriptor, a limit
below the connections forces a refusal, a descriptor above the limit lets the
refused one coexist with the full server, and two removals are one in each
cell at the same time. The liveness run is smaller because
symmetry would be unsound there; its one removal and third connection keep the reuse.
A send buffer of one and a half messages refuses a second message and still
holds a part of the first; a receive buffer of two and a half and a kernel share of
one and a half make pieces end inside messages and span two of them; two sends per
burst and four in all let the client run ahead of an echo server that drops
answers. The client stops sending at `MaxMsg`, so `AnswerArrives` is about every
answer up to that one.
Three requests are one answered, one waiting and one that comes between; two
servers force a change of connection; two failures with two addresses make a
whole attempt fail, after which `nextRequest` still counts the request as sent.
One client is followed in `heartbeat` because a client meets another only in the
test whether the cell has any; the clock runs past the limit, so a client can be
charged from before it joined, be silent for the limit, and stay
beyond it; the proofs have any number. In `http_server` a send buffer of exactly one answer
refuses the second while the first waits, a receive buffer of ten holds any one
request and the beginning of the next, and two requests are
the one that is parsed and the one that is torn by it; the requests have
arguments, a body, a `Connection` header or none, and the others are
an unknown method in a text too short, a length that stands in the body and is refused
while its end is missing, and a header that never ends. A kernel of two units cuts each
answer several times.
Deadlock checking is off in all runs because all programs may stop: nobody is
obliged to connect, to add a task, to send or to close.

The four runs that end in a violation show disagreements between the code and
its comments, quoted in `PROJECT.json` under "findings":

* `thread_exit_deadlock`: `Exit` tests `_isRun`, then `Close` takes the mutex
  and waits for the worker, which waits for the mutex (`Thread.hpp:46-61`).
* `cells_dead`: `ClearClients` takes no lock, so a client added between its
  deletes and its `clear()` is dropped without being closed
  (`Server.hpp:241-245`); without a failed wait no socket is lost (theorem
  `NoSocketLost`).
* `msg_blocked`: both programs can be inside a blocking `send()`, each waiting for
  the other to read (`Buffer.hpp:104`); with `-sendBack` and `-chekSendBack` this
  cannot happen for any sizes (theorem `NeverBothBlocked`).
* `http_given_up`: a `get` while a request waits makes `nextRequest` count a second
  try of it, drop it and give its callback's place away
  (`TcpHttpClient.hpp:88`, `230`). `OwnAnswer`, `NothingLost` and
  `CallbackComes` are therefore about programs that issue a request when no other is pending;
  the last two are also about one server, because a change of server has the same
  effect on the request that waits.

Two more differences are kept in the models but have no run. The worker of a
`Thread` posts the semaphore before it writes `_isRun` (`Thread.hpp:81-82`, `Wakeup` and
`Clear`), so `CloseWaits` speaks of `onDestory` and not of the last access. And
`TcpEpollClient::OnRun` returns true for a connection it has just closed
(`TcpEpollClient.hpp:61`, `CloseOnError`), so the load generator's `nConnect` never goes down on
epoll. `StuckRemoved` is likewise a weak promise for a reason: a request of fewer than 20
bytes (`GET / HTTP/1.0` and an empty line are 18) and one that is refused with 400 both
stay in front of the buffer until the timer ends the connection, the second refused
again in every round.

Fairness. Weak fairness for every thread that has been started and is not
waiting for input: a worker of a `Thread`, the worker of a `TaskServer`, a
cell, the accept thread and a thread inside `Close`. The code justifies it: the loops
wait at most a millisecond, the callbacks return, and the mutexes
are held for a bounded time, except by a `Close` that waits, which the models keep.
It does not reach into `send()`: in `CellServer` a cell at `send` is obliged to nothing, and
`BufferedJoins` and `CloseEnds` name a cell that stays there as the only thing that
keeps a buffered client or a `Close` waiting for ever. `NetDone` has
strong fairness: `DoNetEvents` handles each socket at most once, so a cell whose sends return
comes to the end of a round and does not enter `send()` again and again in the same one.
In `MsgStream` each thread takes its next step unless it waits inside `send()`
(weak fairness of `ClientStep` and `ServerStep`, disabled there), and a poll that
could report data or room again and again does so some time (strong fairness of
`Poll` with either answer): TCP delivers what was sent on a connection that
stays open, and the pollers are level-triggered. A signal, a reset, a failed
wait and the end of the program are never obliged to happen.
In `HttpRequests` the program calls `OnRun` again and again (weak fairness), the
server answers what it got (weak), and what can be read, sent or handled
again and again is so some time (strong fairness of `Poll`, `Send` and `OnNetMsg`: the answer
arrives whole if the connection stays open).
In `HttpConnection` the cell goes on and the client reads and takes its answers (weak), a
poll that could report data or room does so some time, as in `MsgStream`, and rounds
take time again and again (strong fairness of `CheckTime` with a positive
time), which is what ends a silent connection; `AnswerComes` is about
connections on which no time passes, since a timer may otherwise end any of them.
`LoopEnds` is never obliged to happen; when it does, the client is deleted with
its answer unsent, which `AnswerComes` excepts by the history `ended`.
Nobody is obliged to ask or to close.
No fairness for connections, errors, `Start`, `Close`, `Exit`, or for a work
function that would return by itself. Weak fairness on a whole cell, `CellStep(s)`,
does not oblige the environment to make clients leave: `CheckDone` and
`NetDone` are always there as an alternative.

## 4. Proofs

Each proof module shows `Spec => []IInv` (theorem `Inductive`, in `CellCountsProofs`
`CountInductive`) from three facts, and derives the rest from it. TLC checked each
invariant first.

* `ThreadProofs`, for any number of callers and starts: `TypeCorrect`,
  `SemaphoreBalanced`, `CloseJoins`. The invariant adds to the
  properties that while `_isRun` is set the worker of the last `Start` is alive
  (`RunningHasWorker`), that the mutex is held exactly by the one caller inside `Close`
  (`MutexHeld`; without it two waiters could share one wakeup), that workers are
  born in order (`BornInOrder`), and, for an object started once, that a permit
  exists only if its worker has posted it (`OneStart`, from which `CloseWaits`).
* `TaskServerProofs`, for any set of tasks: `TypeCorrect`, `CloseHasDrained`,
  and `Refinement`, that `TaskServer` implements `TaskQueue`. Most of it is
  lemmas on `SubSeq`, `\o` and `Append`: `Exec` takes the head of
  `Remaining`, `AddTask` appends to it, `Swap` and `Clear` leave it alone.
  The invariant says that each accepted task is executed or in `Remaining`
  (`NothingLost`), that the drain begins only after `Close` (`Shape`), and that
  what a finished drain leaves behind was added late (`OnlyLateLeft`).
* `CellServerProofs`, for any number of cells, descriptors, connections,
  removals and failed waits: `TypeCorrect`, `MapsExact`, `SingleOwner`,
  `NeverOverwritten`, `CellsJoined`. The invariant `OwnInv` has four parts: an
  open descriptor belongs to one connection; what is held has arrived; what
  two cells hold, the client in removal included, is disjoint; and each cell's own
  part `Local(s)`. Ownership alone is not inductive: that no stale entry is under a
  reused descriptor needs to know that only the client in `cur[s]` may
  have been closed, hence `CurOK`. Steps are split into `Quiet` (they move a
  program counter or flag only) and `Moving`; lemma `CellOwn` does the part common to
  every step of a cell, so each action proves only its own `Local(s)`.
  `StopOK`, that a cell is stopped only by its `Close` or after a failed
  wait, and then has left its loop when `Close` finds it stopped, carries
  `CellsJoined`: also after a failed wait, a freed cell runs at most
  `ClearClients`.
* `CellCountsProofs`, on top of that, for any number of cells, descriptors and
  connections and any limit: `LimitHolds`, `CountersTrue`, `NothingLeftOpen`,
  `NoSocketLost`, `DeletedOnce`, `StaysInCell`. A count is the cardinality of the set of open
  connections, of the clients in the maps, or of the cells that stand at certain
  labels (`At`); all are finite because finitely many connections have arrived
  (`Finite`). `AtMoves`, `OneLess` and `OneMore` say what one step does to
  them, and `JoinedLess`, `JoinedMore` need the ownership of `CellServerProofs`: the
  client that leaves one map is in no other. `CountOK` has equalities only while
  every cell is in its loop. `ClearClients` gives no slot back, so after that the
  open sockets are just at most the slots taken, which is all that `LimitRespected` claims.
  Counting needs to know that each removal deletes a client that is still open and
  erases it only once (`RemovalOK`), and that the part of a buffer not moved yet is
  not in the map (`JoinOK`). `NothingLeftOpen` needs in addition where open
  sockets can be (`OpenHeld`), what `ClearClients` has done at each of its steps
  (`ClearOK`) and the order of `Close` (`ShutOK`): without a failed wait the
  accept thread has ended before the first cell is stopped, so nothing comes into a buffer
  behind `ClearClients` (`AcceptEnded`). `DeletedOnce` adds that a cell out of its loop
  still has everything open that it has not yet deleted (`UnfreedOK`), also when a
  wait has failed and the accept thread goes on filling its buffer. `StaysInCell` looks at
  each step of each thread: what a cell holds stays with that cell or has been closed
  (`Keeps`), and only the `clear()` of the buffer can break that.

* `MsgStreamProofs`, for every length of a message, every size of the buffers and
  of the kernel's share and any number of messages: `TypeCorrect`, `IdsAgree`,
  `RoomLeft`, `OneMessage`, and `Refinement`, that each direction implements
  `MsgChannel`. What makes the invariant work is to look at a direction as one
  stream: the receive buffer, the wire and the send buffer, one behind the other.
  `Recv` and `Send` only move the borders inside it (`MoveUnits`), `SendData` puts a
  message behind it (`PushFollows`), `pop_front_msg` takes one off its front
  (`PopFollows`), and closing an end cuts it behind (`PrefixFollows`).
  `StreamInv` says that the stream continues with the message the receiver
  expects, unit by unit, and is exactly as long as the ids of the two ends say. That an
  answer is never dropped while it is waited for follows: all ids are in
  balance, so the stream of answers is empty, so the send buffer is. `OneWayAtATime`
  puts the two directions together: data that leaves in a direction is at least one
  message (`LeavingOnWay`), and only one is under way, so the other direction is empty;
  `NeverBothBlocked` follows, since a `send()` that waits has filled its direction.
* `HttpRequestsProofs`, for any number of requests, servers, addresses, failures and
  closed connections: `TypeCorrect`, `CallbacksInOrder`, `ServersMatch`,
  `OwnAnswers`, `NoneLost`. `CallsInOrder` needs to know what `nextRequest` can still
  set: the queue holds requests in the order of issue, only the one in front tried
  (`QueueInv`), and it is past every request called or waiting (`Passed`,
  `OrderInv`). `RightServer` needs that the request about to be sent has the
  host the client is connected to (`LinkInv`). `SerialInv` is about a program that
  issues one request at a time: one is pending, and what is on the connection
  is that one, once, while its callback waits. `NoneLost` adds `CalmInv`: while a
  callback waits its request is alone in the queue and `_b_nextRequest` is clear, so
  `nextRequest` can neither drop it nor take its callback's place; it is proved
  from the other invariant, as the premise of `NothingLost` only gets harder to keep
  (`CalmBack`). `ThreeWaysToLose` proves `LossKnown`, which has no premise on the program or the network: it
  says of every step that a request which loses its future there (`Lost`) was `Overtaken` by the
  next one, had `NoAddress`, or was `PoppedUntried` by an answer to another request.
  The run reaches each of the three; in the last one the request may be the one that the
  callback issues in that very step, when `nextRequest` has dropped the one it
  answers. A second `get` is not even needed for that: `InitSocket`, which closes the client of
  an earlier address before it makes the next, sets `_b_nextRequest` through `OnDisConnect`.

* `HeartbeatProofs`, for any number of clients, any limit, any clock and any
  length of rounds: `TypesKept`, `SilentClientGoes`, `RegularClientStays`. The
  invariant bounds each timer from both sides. From above (`ChargedAtMost`): it is
  never more than the time between the client's last handled message, or its
  creation, and `_oldTime`, plus one round. From below (`ChargedAtLeast`): not less
  than that time, less a round, which a client may have spent in the buffer
  (`BufferedNew`). What is unread came after the last poll, or is about to be handled
  (`UnreadIsNew`), and the oldest unread message came within the longest silence
  after the last one handled (`OldestWithinGap`), which turns the bound on handled
  messages into one on messages sent.
* `HttpConnectionProofs`, for any requests, any sizes, cuts and timers:
  `TypesKept`, `RecognisedWhole`, `ClosedAfterAnswer` and `Refinement`. `Recognised`
  is the lemma on texts: with a well formed text in front of it, a buffer is recognised
  exactly when it holds all of the text, whatever follows. The invariant
  `FrameInv` says that what is in the receive buffer and on the wire is the
  requests not yet handled, one behind the other, given by the place where each ends
  (`Framed`), except that a request may be torn: then it has a `nul` before its
  first intact end of a line, and nothing recognises it or makes it recognisable again
  (`Torn`, `TornUnseen`, `TornStays`). Adding, cutting and popping text keep it
  (`FramedAppend`, `FramedFront`, `FramedPop`); `SplitIs` shows that parsing tears
  whatever it reaches. `SerialInv` is for a client that waits: at most one request
  is under way, what is not taken of the answers is exactly the answer to
  it, so the send buffer has room for each answer, and keep-alive is what the last
  request handled said. Recognition looks for the first of several places; that a
  non-empty set of numbers has a least element is proved from well-foundedness
  of `<` (`HasLeast`), so the lemmas use no induction.

The assumptions are those of the modules: the sentinels (`NoOne`, `NoFd`, `NoConn`) lie
outside their sets, there is at least one cell, the bounds are natural numbers,
a message fits into the receive buffer, and, for the HTTP server, well formed requests are
those of `WellFormed`, an answer fits into the send buffer and the least length of a text is not
more than that of an answer.

Model-checked only: the liveness properties (`CloseReturnsOrExitWaits`,
`TaskRuns`, `BufferedJoins`, `CloseEnds`, `AnswerArrives`, `CallbackComes`, `AnswerComes`,
`StuckRemoved`), since fairness and ENABLED are out of the proof system's reach. Every
other property of a run that holds is stated by a theorem.

## 5. Plan

Done: `Thread`, `TaskServer` over `TaskQueue`, `CellServer`, `Heartbeat`, `MsgStream` and
`HttpConnection` over `MsgChannel`, and `HttpRequests`, with their proofs. What could follow is a
composition of `HttpRequests` with `HttpConnection` in place of its
environment: now the one assumes of the server what the other shows, answers
in order to a client that asks one thing at a time.

## 6. Not modelled

The Windows and IOCP branches (the repository's own scripts and this model take
the POSIX ones); `Bind`, `Listen`, `Connect` and option setting, which are single
system calls before the threads start; `Config`, filled once; splitting a URL and writing
a request in `TcpHttpClient`, which are formatting;
the formatting and file output of `Log`, whose threading is `TaskServer`;
`WebSocketObject.hpp`, `base64.hpp`, `sha1.hpp`, which no program includes; the
project and shell files. The mains of the three programs only read
options and wait for a console command. Memory safety as such is not a property here; a
use after the owner is gone shows as a step of a thread that should have ended
(`CloseJoinsCells`).
