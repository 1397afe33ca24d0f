------------------------------ MODULE MsgChannel ------------------------------
(***************************************************************************)
(* What one direction of a connection promises to the two programs: the    *)
(* messages handled at one end are those accepted at the other, whole, in  *)
(* order, each once.  The last ones may never arrive, since a connection   *)
(* may be closed at any moment.                                            *)
(***************************************************************************)
EXTENDS Integers, Sequences

CONSTANT Messages

VARIABLES
    put,    \* the messages accepted so far
    got     \* the messages handled so far

vars == <<put, got>>

Init == put = << >> /\ got = << >>

Put(m) == put' = Append(put, m) /\ UNCHANGED got

Get ==
    /\ Len(got) < Len(put)
    /\ got' = Append(got, put[Len(got) + 1])
    /\ UNCHANGED put

Next == Get \/ \E m \in Messages : Put(m)

Spec == Init /\ [][Next]_vars
===============================================================================
