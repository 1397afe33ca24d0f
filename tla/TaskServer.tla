------------------------------ MODULE TaskServer ------------------------------
(***************************************************************************)
(* linda::io::TaskServer (Task.hpp): a list of tasks filled by any thread  *)
(* under the lock and emptied by one worker, which reads the list outside  *)
(* the lock twice: for the emptiness test at the top of its loop and for   *)
(* the whole drain after it.  The log is written through it (Log.hpp).     *)
(*                                                                         *)
(* The Thread inside is used through what Thread.tla shows of an object    *)
(* started once: Close clears _isRun and returns when the work function is *)
(* over (CloseWaits).  Iterating a std::list while push_back runs reaches  *)
(* the new node or not, depending on which comes first; both happen here.  *)
(***************************************************************************)
EXTENDS Integers, Sequences, FiniteSets

CONSTANT Tasks  \* the std::function<void()> objects; each is added once

VARIABLES
    tasksBuf,   \* _tasksBuf
    tasks,      \* _tasks
    isRun,      \* _thread's _isRun
    pc,         \* where the worker stands in OnRun
    idx,        \* next element of the list the worker iterates over
    closer,     \* the thread that calls Close: "no", "waiting", "closed"
    executed,   \* history: the tasks run so far, in order
    added,      \* history: tasks whose addTask has returned
    late        \* history: those added when Close had already begun

vars == <<tasksBuf, tasks, isRun, pc, idx, closer, executed, added, late>>
listVars == <<tasksBuf, tasks>>
history == <<added, late>>

Elements(s) == {s[i] : i \in 1..Len(s)}

Init ==
    /\ tasksBuf = << >>
    /\ tasks = << >>
    /\ isRun = TRUE
    /\ pc = "loop"
    /\ idx = 1
    /\ closer = "no"
    /\ executed = << >>
    /\ added = {}
    /\ late = {}
-----------------------------------------------------------------------------
\* addTask, whole under the lock.
AddTask(t) ==
    /\ t \notin added
    /\ tasksBuf' = Append(tasksBuf, t)
    /\ added' = added \union {t}
    /\ late' = IF isRun THEN late ELSE late \union {t}
    /\ UNCHANGED <<tasks, isRun, pc, idx, closer, executed>>

\* Variant of LoopTest without the drain after the loop.
LoopTestNoDrain ==
    /\ pc = "loop"
    /\ pc' = IF isRun THEN "fetch" ELSE "done"
    /\ UNCHANGED <<listVars, isRun, idx, closer, executed, history>>

\* The test of the while loop.
LoopTest ==
    /\ pc = "loop"
    /\ pc' = IF isRun THEN "fetch" ELSE "drain"
    /\ UNCHANGED <<listVars, isRun, idx, closer, executed, history>>

\* _tasksBuf.empty(), without the lock.
Fetch ==
    /\ pc = "fetch"
    /\ pc' = IF tasksBuf = << >> THEN "exec" ELSE "swap"
    /\ UNCHANGED <<listVars, isRun, idx, closer, executed, history>>

\* Variant of Swap that leaves the moved tasks in the buffer.
SwapKeepsBuf ==
    /\ pc = "swap"
    /\ tasks' = tasks \o tasksBuf
    /\ pc' = "exec"
    /\ UNCHANGED <<tasksBuf, isRun, idx, closer, executed, history>>

\* The whole buffer is moved to _tasks under the lock.
Swap ==
    /\ pc = "swap"
    /\ tasks' = tasks \o tasksBuf
    /\ tasksBuf' = << >>
    /\ pc' = "exec"
    /\ UNCHANGED <<isRun, idx, closer, executed, history>>

\* The next task of _tasks is called.
Exec ==
    /\ pc = "exec"
    /\ idx <= Len(tasks)
    /\ executed' = Append(executed, tasks[idx])
    /\ idx' = idx + 1
    /\ UNCHANGED <<listVars, isRun, pc, closer, history>>

\* Variant of Clear that leaves the iterator where it is.
ClearKeepsIdx ==
    /\ pc = "exec"
    /\ idx > Len(tasks)
    /\ tasks' = << >>
    /\ pc' = "loop"
    /\ UNCHANGED <<tasksBuf, isRun, idx, closer, executed, history>>

\* No task left, at once (the 1 ms sleep and continue) or after the loop over
\* _tasks: _tasks is cleared.
Clear ==
    /\ pc = "exec"
    /\ idx > Len(tasks)
    /\ tasks' = << >>
    /\ idx' = 1
    /\ pc' = "loop"
    /\ UNCHANGED <<tasksBuf, isRun, closer, executed, history>>

\* After the loop: the next task of the live _tasksBuf is called, unlocked,
\* and left in the list.
Drain ==
    /\ pc = "drain"
    /\ idx <= Len(tasksBuf)
    /\ executed' = Append(executed, tasksBuf[idx])
    /\ idx' = idx + 1
    /\ UNCHANGED <<listVars, isRun, pc, closer, history>>

\* The iterator reached end(): OnRun returns and the worker ends.
DrainEnd ==
    /\ pc = "drain"
    /\ idx > Len(tasksBuf)
    /\ pc' = "done"
    /\ UNCHANGED <<listVars, isRun, idx, closer, executed, history>>

\* Close: _isRun cleared, then the wait.
Close ==
    /\ closer = "no"
    /\ isRun' = FALSE
    /\ closer' = "waiting"
    /\ UNCHANGED <<listVars, pc, idx, executed, history>>

\* Variant of CloseReturn that does not wait.
CloseReturnEarly ==
    /\ closer = "waiting"
    /\ closer' = "closed"
    /\ UNCHANGED <<listVars, isRun, pc, idx, executed, history>>

\* Close returns once the worker's function is over.
CloseReturn ==
    /\ closer = "waiting"
    /\ pc = "done"
    /\ closer' = "closed"
    /\ UNCHANGED <<listVars, isRun, pc, idx, executed, history>>
-----------------------------------------------------------------------------
WorkerStep ==
    \/ LoopTest
    \/ Fetch
    \/ Swap
    \/ Exec
    \/ Clear
    \/ Drain
    \/ DrainEnd

Next ==
    \/ \E t \in Tasks : AddTask(t)
    \/ WorkerStep
    \/ Close
    \/ CloseReturn

\* The worker and a caller inside Close keep running (a task that never
\* returned would stop both); nobody is obliged to add a task or to close.
Fairness == WF_vars(WorkerStep) /\ WF_vars(CloseReturn)

Spec == Init /\ [][Next]_vars /\ Fairness
-----------------------------------------------------------------------------
(* Properties.                                                             *)

\* Every field has its type; the iterator is within its list or at its end.
TypeOK ==
    /\ tasksBuf \in Seq(Tasks)
    /\ tasks \in Seq(Tasks)
    /\ isRun \in BOOLEAN
    /\ pc \in {"loop", "fetch", "swap", "exec", "drain", "done"}
    /\ idx \in 1..(IF pc \in {"drain", "done"} THEN Len(tasksBuf) + 1
                                               ELSE Len(tasks) + 1)
    /\ closer \in {"no", "waiting", "closed"}
    /\ executed \in Seq(Tasks)
    /\ added \subseteq Tasks
    /\ late \subseteq added

\* Close waits for the drain: when it returns, every task whose addTask came
\* before it has been executed (Task.hpp:46-51, 82-86).
CloseDrains == closer = "closed" => added \ late \subseteq Elements(executed)

\* The tasks accepted and still to run, in the order they will run.
Remaining ==
    IF pc \in {"drain", "done"}
    THEN SubSeq(tasksBuf, idx, Len(tasksBuf))
    ELSE SubSeq(tasks, idx, Len(tasks)) \o tasksBuf

TQ == INSTANCE TaskQueue WITH queue <- Remaining

\* The two lists, the unlocked test and the unlocked drain implement the
\* queue: each task at most once, in the order of addTask (Task.hpp:33-88).
ImplementsTaskQueue == TQ!Spec

\* A task in the buffer while the server runs is executed, whether or not a
\* Close comes in between (Task.hpp:54-88).
TaskRuns ==
    \A t \in Tasks :
        (isRun /\ t \in Elements(tasksBuf)) ~> t \in Elements(executed)
===============================================================================
