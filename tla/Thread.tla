-------------------------------- MODULE Thread --------------------------------
(***************************************************************************)
(* linda::io::Thread (Thread.hpp) together with the Semaphore it joins     *)
(* its worker with (Semaphore.hpp).  One Thread object is shared by the    *)
(* callers of Start and Close and by the detached std::threads that run    *)
(* OnWork; a worker may call Exit from inside its work function.           *)
(*                                                                         *)
(* Steps are the accesses to the shared fields.  _isRun is a plain bool    *)
(* that workers read without the mutex; every such read is a step of its   *)
(* own and returns the value of that moment.                               *)
(***************************************************************************)
EXTENDS Integers, FiniteSets

CONSTANTS
    Callers,    \* threads that call Start and Close on the object
    NoOne,      \* the value of mutex when nobody holds it
    MaxStarts   \* bound: how many times Start may spawn a worker

ASSUME CallersAssumption == NoOne \notin Callers
ASSUME MaxStartsAssumption == MaxStarts \in Nat

Workers == 1..MaxStarts

VARIABLES
    isRun,      \* _isRun
    mutex,      \* Thread::_mutex: its holder or NoOne
    wait,       \* Semaphore::_wait
    wakeup,     \* Semaphore::_wakeup
    starts,     \* workers spawned so far; worker n is the n-th one
    caller,     \* where each caller stands, see CallerState
    worker      \* where each worker stands in OnWork, see WorkerState

vars == <<isRun, mutex, wait, wakeup, starts, caller, worker>>
semVars == <<wait, wakeup>>

\* idle: outside Close, last call was Start or none; closing: in Close, has
\* the mutex and found _isRun set; blocked: inside _cv.wait; joined: Close
\* returned after _sem.wait(); skipped: Close returned at once.
CallerState == {"idle", "closing", "blocked", "joined", "skipped"}

\* unborn; onRun: in the work function; exitLock: in Exit, past its test of
\* _isRun; onDestory: work function left; wakeup: about to post; clear: about
\* to write _isRun; done.
WorkerState ==
    {"unborn", "onRun", "exitLock", "onDestory", "wakeup", "clear", "done"}

Blocked == {c \in Callers : caller[c] = "blocked"}
Outside(c) == caller[c] \in {"idle", "joined", "skipped"}
PastPost(w) == worker[w] \in {"clear", "done"}

Init ==
    /\ isRun = FALSE
    /\ mutex = NoOne
    /\ wait = 0
    /\ wakeup = 0
    /\ starts = 0
    /\ caller = [c \in Callers |-> "idle"]
    /\ worker = [w \in Workers |-> "unborn"]
-----------------------------------------------------------------------------
(* The callers.                                                            *)

\* Start: under the mutex, a new detached worker if none is marked running.
Start(c) ==
    /\ Outside(c)
    /\ mutex = NoOne
    /\ ~isRun
    /\ starts < MaxStarts
    /\ isRun' = TRUE
    /\ starts' = starts + 1
    /\ worker' = [worker EXCEPT ![starts + 1] = "onRun"]
    /\ caller' = [caller EXCEPT ![c] = "idle"]
    /\ UNCHANGED <<mutex, semVars>>

\* Close, first half: mutex taken, _isRun found set and cleared.
CloseLock(c) ==
    /\ Outside(c)
    /\ mutex = NoOne
    /\ isRun
    /\ mutex' = c
    /\ isRun' = FALSE
    /\ caller' = [caller EXCEPT ![c] = "closing"]
    /\ UNCHANGED <<semVars, starts, worker>>

\* Close on an object whose _isRun is clear returns without waiting.
CloseSkip(c) ==
    /\ Outside(c)
    /\ mutex = NoOne
    /\ ~isRun
    /\ caller' = [caller EXCEPT ![c] = "skipped"]
    /\ UNCHANGED <<isRun, mutex, semVars, starts, worker>>

\* Variant of SemWait that blocks one wait too late.
SemWaitLate(c) ==
    /\ caller[c] = "closing"
    /\ wait' = wait - 1
    /\ \/ /\ wait' < -1
          /\ caller' = [caller EXCEPT ![c] = "blocked"]
          /\ UNCHANGED mutex
       \/ /\ wait' >= -1
          /\ caller' = [caller EXCEPT ![c] = "joined"]
          /\ mutex' = NoOne
    /\ UNCHANGED <<isRun, wakeup, starts, worker>>

\* Close, second half: Semaphore::wait either takes a permit left by the
\* worker, and Close returns, or blocks; the Thread mutex stays held.
SemWait(c) ==
    /\ caller[c] = "closing"
    /\ wait' = wait - 1
    /\ \/ /\ wait' < 0
          /\ caller' = [caller EXCEPT ![c] = "blocked"]
          /\ UNCHANGED mutex
       \/ /\ wait' >= 0
          /\ caller' = [caller EXCEPT ![c] = "joined"]
          /\ mutex' = NoOne
    /\ UNCHANGED <<isRun, wakeup, starts, worker>>

\* _cv.wait returns once _wakeup > 0; spurious wakeups re-test the predicate.
SemResume(c) ==
    /\ caller[c] = "blocked"
    /\ wakeup > 0
    /\ wakeup' = wakeup - 1
    /\ caller' = [caller EXCEPT ![c] = "joined"]
    /\ mutex' = NoOne
    /\ UNCHANGED <<isRun, wait, starts, worker>>
-----------------------------------------------------------------------------
(* The workers: OnWork, and Exit called from the work function.  onCreate  *)
(* is null at every call site and onDestory is a step of its own.          *)

\* The loop test of the work function, or the test at the top of Exit, finds
\* _isRun clear: the work function returns.
LoopExit(w) ==
    /\ worker[w] = "onRun"
    /\ ~isRun
    /\ worker' = [worker EXCEPT ![w] = "onDestory"]
    /\ UNCHANGED <<isRun, mutex, semVars, starts, caller>>

\* The work function returns by itself, _isRun still set (the console thread
\* of both mains does).
Finish(w) ==
    /\ worker[w] = "onRun"
    /\ isRun
    /\ worker' = [worker EXCEPT ![w] = "onDestory"]
    /\ UNCHANGED <<isRun, mutex, semVars, starts, caller>>

\* Exit: the unlocked test finds _isRun set; the lock comes next.
ExitTest(w) ==
    /\ worker[w] = "onRun"
    /\ isRun
    /\ worker' = [worker EXCEPT ![w] = "exitLock"]
    /\ UNCHANGED <<isRun, mutex, semVars, starts, caller>>

\* Exit: lock, clear, unlock; every caller of Exit then leaves its loop.
ExitSet(w) ==
    /\ worker[w] = "exitLock"
    /\ mutex = NoOne
    /\ isRun' = FALSE
    /\ worker' = [worker EXCEPT ![w] = "onDestory"]
    /\ UNCHANGED <<mutex, semVars, starts, caller>>

\* The onDestory callback.
OnDestory(w) ==
    /\ worker[w] = "onDestory"
    /\ worker' = [worker EXCEPT ![w] = "wakeup"]
    /\ UNCHANGED <<isRun, mutex, semVars, starts, caller>>

\* Variant of Wakeup that hands a waiter its wakeup when there is none.
WakeupAlways(w) ==
    /\ worker[w] = "wakeup"
    /\ wait' = wait + 1
    /\ wakeup' = wakeup + 1
    /\ worker' = [worker EXCEPT ![w] = "clear"]
    /\ UNCHANGED <<isRun, mutex, starts, caller>>

\* Variant of Wakeup that tests ++_wait < 0.
WakeupStrict(w) ==
    /\ worker[w] = "wakeup"
    /\ wait' = wait + 1
    /\ wakeup' = IF wait' < 0 THEN wakeup + 1 ELSE wakeup
    /\ worker' = [worker EXCEPT ![w] = "clear"]
    /\ UNCHANGED <<isRun, mutex, starts, caller>>

\* Semaphore::wakeup: a permit, and the wakeup of the waiter if there is one.
Wakeup(w) ==
    /\ worker[w] = "wakeup"
    /\ wait' = wait + 1
    /\ wakeup' = IF wait' <= 0 THEN wakeup + 1 ELSE wakeup
    /\ worker' = [worker EXCEPT ![w] = "clear"]
    /\ UNCHANGED <<isRun, mutex, starts, caller>>

\* The last statement of OnWork, without the mutex.
Clear(w) ==
    /\ worker[w] = "clear"
    /\ isRun' = FALSE
    /\ worker' = [worker EXCEPT ![w] = "done"]
    /\ UNCHANGED <<mutex, semVars, starts, caller>>
-----------------------------------------------------------------------------
CallerStep(c) ==
    \/ Start(c)
    \/ CloseLock(c)
    \/ CloseSkip(c)
    \/ SemWait(c)
    \/ SemResume(c)

WorkerStep(w) ==
    \/ LoopExit(w)
    \/ Finish(w)
    \/ ExitTest(w)
    \/ ExitSet(w)
    \/ OnDestory(w)
    \/ Wakeup(w)
    \/ Clear(w)

Next ==
    \/ \E c \in Callers : CallerStep(c)
    \/ \E w \in Workers : WorkerStep(w)

\* A caller inside Close and a worker keep running; nobody is obliged to call
\* Start, Close or Exit, and a work function need not return by itself.
Fairness ==
    /\ \A c \in Callers : WF_vars(SemWait(c)) /\ WF_vars(SemResume(c))
    /\ \A w \in Workers :
          /\ WF_vars(LoopExit(w))
          /\ WF_vars(ExitSet(w))
          /\ WF_vars(OnDestory(w))
          /\ WF_vars(Wakeup(w))
          /\ WF_vars(Clear(w))

Spec == Init /\ [][Next]_vars /\ Fairness
-----------------------------------------------------------------------------
(* Properties.                                                             *)

\* Every field has its type.  The wakeup count never leaves 0..1: the mutex
\* lets one thread at a time into Semaphore::wait (Semaphore.hpp:16-37).
TypeOK ==
    /\ isRun \in BOOLEAN
    /\ mutex \in Callers \union {NoOne}
    /\ wait \in Int
    /\ wakeup \in {0, 1}
    /\ starts \in 0..MaxStarts
    /\ caller \in [Callers -> CallerState]
    /\ worker \in [Workers -> WorkerState]

\* No wakeup of the semaphore is lost or left over: with nobody blocked in
\* wait no wakeup is pending and _wait counts permits; at most one thread is
\* short of a permit, and with a thread blocked a wakeup is pending exactly
\* when its permit arrived (Semaphore.hpp:16-37).
SemBalance ==
    IF Blocked = {} THEN wakeup = 0 /\ wait >= 0
                    ELSE wait >= -1 /\ (wakeup = 1 <=> wait >= 0)

\* What Close is for (Thread.hpp:44-52): on an object started once, when the
\* Close that stopped the worker returns, the worker has run its work function
\* and its onDestory callback to the end and has posted the semaphore.
CloseWaits ==
    starts <= 1 =>
        \A c \in Callers : caller[c] = "joined" =>
            \A w \in Workers : w <= starts => PastPost(w)

\* A Close that found the thread running returns, unless a worker has meanwhile
\* entered Exit and waits for the mutex that Close holds (Thread.hpp:44-63).
CloseReturnsOrExitWaits ==
    \A c \in Callers :
        ~Outside(c) ~> (Outside(c) \/ \E w \in Workers : worker[w] = "exitLock")

\* The comment on Exit (Thread.hpp:53-55) says it is for leaving from inside
\* the work function because waiting there would block: a worker that enters
\* Exit comes out of it.
ExitDoesNotBlock ==
    \A w \in Workers : worker[w] = "exitLock" ~> worker[w] # "exitLock"
===============================================================================
