----------------------------- MODULE ThreadProofs -----------------------------
(***************************************************************************)
(* Thread.tla, for every set of callers and every number of restarts: the  *)
(* type invariant, the accounting of the semaphore, that a set _isRun has  *)
(* a live worker, and that Close is a join on an object started once.      *)
(***************************************************************************)
EXTENDS Thread, TLAPS

\* The mutex is held exactly from CloseLock to the end of the wait, and
\* _isRun stays clear all that time because Start needs the mutex.
MutexHeld ==
    /\ \A c \in Callers : mutex = c <=> ~Outside(c)
    /\ mutex # NoOne => ~isRun

\* Workers are born in order and do not become unborn again.
BornInOrder == \A w \in Workers : worker[w] = "unborn" <=> w > starts

\* While _isRun is set the worker of the last Start is alive: nothing but the
\* end of that worker makes Start spawn another, and a worker that returned by
\* itself does not leave the object marked running (Thread.hpp:20-41, 72-83).
RunningHasWorker == isRun => /\ starts \in Workers
                             /\ worker[starts] \notin {"unborn", "done"}

Posted == IF PastPost(1) THEN 1 ELSE 0

\* One start: _wait is the worker's post less the one wait of Close.
OneStart ==
    /\ starts = 0 => /\ wait = 0 /\ mutex = NoOne
                     /\ \A c \in Callers : caller[c] # "joined"
    /\ starts = 1 =>
          /\ isRun => wait = Posted
          /\ \A c \in Callers :
                /\ caller[c] = "closing" => wait = Posted
                /\ caller[c] = "blocked" => wait = Posted - 1

IInv ==
    /\ TypeOK
    /\ MutexHeld
    /\ BornInOrder
    /\ SemBalance
    /\ RunningHasWorker
    /\ OneStart
    /\ CloseWaits

USE CallersAssumption, MaxStartsAssumption

\* The initial state: nothing started, nothing counted.
LEMMA InitIInv == Init => IInv
<1> SUFFICES ASSUME Init PROVE IInv
  OBVIOUS
<1>1. TypeOK
  <2>1. 0 \in 0..MaxStarts
    BY MaxStartsAssumption
  <2>2. caller \in [Callers -> CallerState] /\ worker \in [Workers -> WorkerState]
    BY DEF Init, CallerState, WorkerState
  <2>3. isRun \in BOOLEAN /\ mutex \in Callers \union {NoOne}
    BY DEF Init
  <2>4. wait \in Int /\ wakeup \in {0, 1}
    BY DEF Init
  <2> QED
    BY <2>1, <2>2, <2>3, <2>4 DEF Init, TypeOK
<1>2. MutexHeld /\ BornInOrder
  BY DEF Init, MutexHeld, BornInOrder, Outside, Workers
<1>3. SemBalance /\ RunningHasWorker
  BY DEF Init, SemBalance, Blocked, RunningHasWorker
<1>4. OneStart /\ CloseWaits
  BY DEF Init, OneStart, CloseWaits
<1> QED
  BY <1>1, <1>2, <1>3, <1>4 DEF IInv

\* The steps of a caller (Start and the two halves of Close).
LEMMA CallerStepIInv ==
  ASSUME IInv, NEW c \in Callers, CallerStep(c)
  PROVE  IInv'
<1> USE DEF IInv, TypeOK, CallerState, WorkerState, Workers, Outside, semVars
<1>1. CASE Start(c)
  <2> USE <1>1 DEF Start
  <2>1. TypeOK'
    OBVIOUS
  <2>2. MutexHeld' /\ BornInOrder'
    BY DEF MutexHeld, BornInOrder
  <2>3. SemBalance' /\ RunningHasWorker'
    <3>1. Blocked = {} /\ Blocked' = {}
      BY DEF MutexHeld, Blocked
    <3> QED
      BY <3>1 DEF SemBalance, RunningHasWorker
  <2>4. OneStart'
    <3>1. \A d \in Callers : Outside(d)'
      BY DEF MutexHeld
    <3> QED
      BY <3>1 DEF OneStart, Posted, PastPost
  <2>5. CloseWaits'
    BY DEF CloseWaits, PastPost, OneStart
  <2> QED
    BY <2>1, <2>2, <2>3, <2>4, <2>5
<1>2. CASE CloseLock(c)
  <2> USE <1>2 DEF CloseLock
  <2>1. TypeOK' /\ MutexHeld' /\ BornInOrder'
    BY DEF MutexHeld, BornInOrder
  <2>2. SemBalance' /\ RunningHasWorker'
    BY DEF SemBalance, Blocked, RunningHasWorker
  <2>3. OneStart' /\ CloseWaits'
    BY DEF MutexHeld, RunningHasWorker, OneStart, CloseWaits, Posted, PastPost
  <2> QED
    BY <2>1, <2>2, <2>3
<1>3. CASE CloseSkip(c)
  <2> USE <1>3 DEF CloseSkip
  <2>1. TypeOK' /\ MutexHeld' /\ BornInOrder'
    BY DEF MutexHeld, BornInOrder
  <2>2. SemBalance' /\ RunningHasWorker'
    BY DEF SemBalance, Blocked, RunningHasWorker
  <2>3. OneStart' /\ CloseWaits'
    BY DEF OneStart, CloseWaits, Posted, PastPost
  <2> QED
    BY <2>1, <2>2, <2>3
<1>4. CASE SemWait(c)
  <2> USE <1>4 DEF SemWait
  <2>1. mutex = c /\ ~isRun /\ Blocked = {} /\ wakeup = 0 /\ wait >= 0
    BY DEF MutexHeld, Blocked, SemBalance
  <2>2. TypeOK' /\ MutexHeld' /\ BornInOrder' /\ RunningHasWorker'
    BY <2>1 DEF MutexHeld, BornInOrder, RunningHasWorker
  <2>3. SemBalance'
    BY <2>1 DEF SemBalance, Blocked
  <2>4. OneStart'
    BY <2>1 DEF MutexHeld, OneStart, Posted, PastPost
  <2>5. CloseWaits'
    BY <2>1 DEF OneStart, CloseWaits, Posted, PastPost
  <2> QED
    BY <2>2, <2>3, <2>4, <2>5
<1>5. CASE SemResume(c)
  <2> USE <1>5 DEF SemResume
  <2>1. mutex = c /\ ~isRun /\ Blocked = {c} /\ wakeup = 1 /\ wait >= 0
    BY DEF MutexHeld, Blocked, SemBalance
  <2>2. TypeOK' /\ MutexHeld' /\ BornInOrder' /\ RunningHasWorker'
    BY <2>1 DEF MutexHeld, BornInOrder, RunningHasWorker
  <2>3. SemBalance'
    BY <2>1 DEF SemBalance, Blocked
  <2>4. OneStart'
    BY <2>1 DEF MutexHeld, OneStart, Posted, PastPost
  <2>5. CloseWaits'
    BY <2>1 DEF OneStart, CloseWaits, Posted, PastPost
  <2> QED
    BY <2>2, <2>3, <2>4, <2>5
<1> QED
  BY <1>1, <1>2, <1>3, <1>4, <1>5 DEF CallerStep

\* The steps of a worker (OnWork and Exit).
LEMMA WorkerStepIInv ==
  ASSUME IInv, NEW w \in Workers, WorkerStep(w)
  PROVE  IInv'
<1> USE DEF IInv, TypeOK, CallerState, WorkerState, Workers, Outside, semVars
<1>1. CASE LoopExit(w) \/ Finish(w) \/ ExitTest(w) \/ ExitSet(w) \/ OnDestory(w)
  <2> USE <1>1 DEF LoopExit, Finish, ExitTest, ExitSet, OnDestory
  <2>1. TypeOK'
    OBVIOUS
  <2>4. MutexHeld' /\ BornInOrder'
    BY DEF MutexHeld, BornInOrder
  <2>2. SemBalance' /\ RunningHasWorker'
    BY DEF SemBalance, Blocked, RunningHasWorker
  <2>3. OneStart' /\ CloseWaits'
    BY DEF OneStart, CloseWaits, Posted, PastPost
  <2> QED
    BY <2>1, <2>2, <2>3, <2>4
<1>2. CASE Wakeup(w)
  <2> USE <1>2 DEF Wakeup
  <2>1. TypeOK' /\ MutexHeld' /\ BornInOrder'
    BY DEF MutexHeld, BornInOrder, SemBalance, Blocked
  <2>2. SemBalance' /\ RunningHasWorker'
    BY DEF SemBalance, Blocked, RunningHasWorker
  <2>3. starts = 1 => w = 1 /\ Posted = 0 /\ Posted' = 1
    BY DEF BornInOrder, Posted, PastPost
  <2>4. OneStart'
    BY <2>3 DEF OneStart, BornInOrder
  <2>5. CloseWaits'
    BY DEF CloseWaits, PastPost
  <2> QED
    BY <2>1, <2>2, <2>4, <2>5
<1>3. CASE Clear(w)
  <2> USE <1>3 DEF Clear
  <2>1. TypeOK' /\ MutexHeld' /\ BornInOrder'
    BY DEF MutexHeld, BornInOrder
  <2>2. SemBalance' /\ RunningHasWorker'
    BY DEF SemBalance, Blocked, RunningHasWorker
  <2>3. OneStart' /\ CloseWaits'
    BY DEF OneStart, CloseWaits, Posted, PastPost
  <2> QED
    BY <2>1, <2>2, <2>3
<1> QED
  BY <1>1, <1>2, <1>3 DEF WorkerStep

\* IInv is an inductive invariant of the specification.
THEOREM Inductive == Spec => []IInv
<1>1. IInv /\ UNCHANGED vars => IInv'
  <2> SUFFICES ASSUME IInv, UNCHANGED vars PROVE IInv'
    OBVIOUS
  <2> USE DEF IInv, vars, semVars
  <2>1. TypeOK' /\ MutexHeld' /\ BornInOrder'
    BY DEF TypeOK, MutexHeld, BornInOrder, Outside
  <2>2. SemBalance' /\ RunningHasWorker' /\ CloseWaits'
    BY DEF SemBalance, Blocked, RunningHasWorker, CloseWaits, PastPost
  <2>3. OneStart'
    BY DEF OneStart, Posted, PastPost
  <2> QED
    BY <2>1, <2>2, <2>3
<1>2. IInv /\ [Next]_vars => IInv'
  BY <1>1, CallerStepIInv, WorkerStepIInv DEF Next
<1> QED
  BY InitIInv, <1>2, PTL DEF Spec

\* Type correctness: the wakeup count of the semaphore stays in 0..1 however
\* often the object is restarted (Semaphore.hpp:16-37).
THEOREM TypeCorrect == Spec => []TypeOK
<1>1. IInv => TypeOK
  BY DEF IInv
<1> QED
  BY <1>1, Inductive, PTL

\* No wakeup is lost or left over, for any callers and restarts
\* (Semaphore.hpp:16-37 under the mutex of Thread.hpp:46).
THEOREM SemaphoreBalanced == Spec => []SemBalance
<1>1. IInv => SemBalance
  BY DEF IInv
<1> QED
  BY <1>1, Inductive, PTL

\* The Close that stops a thread started once returns only after the worker's
\* work function and onDestory callback are over (Thread.hpp:44-52, 72-83).
THEOREM CloseJoins == Spec => []CloseWaits
<1>1. IInv => CloseWaits
  BY DEF IInv
<1> QED
  BY <1>1, Inductive, PTL
===============================================================================
