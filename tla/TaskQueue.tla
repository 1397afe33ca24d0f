------------------------------ MODULE TaskQueue ------------------------------
(***************************************************************************)
(* What TaskServer (Task.hpp) promises: tasks are executed one at a time,  *)
(* each at most once, in the order in which addTask accepted them.         *)
(***************************************************************************)
EXTENDS Sequences

CONSTANT Tasks  \* the std::function<void()> objects; each is added once

VARIABLES
    queue,      \* accepted and not yet executed, oldest first
    executed    \* executed, oldest first

vars == <<queue, executed>>

TypeOK == queue \in Seq(Tasks) /\ executed \in Seq(Tasks)

Init == queue = << >> /\ executed = << >>

Accept(t) == queue' = Append(queue, t) /\ UNCHANGED executed

Execute ==
    /\ queue # << >>
    /\ executed' = Append(executed, Head(queue))
    /\ queue' = Tail(queue)

Next == (\E t \in Tasks : Accept(t)) \/ Execute

Spec == Init /\ [][Next]_vars
===============================================================================
