--------------------------- MODULE TaskServerProofs ---------------------------
(***************************************************************************)
(* TaskServer.tla for every set of tasks: type correctness, that the two   *)
(* lists implement the queue of TaskQueue.tla, and that Close drains.      *)
(***************************************************************************)
EXTENDS TaskServer, SequenceTheorems, TLAPS

\* _tasks is empty and the iterator at rest wherever the worker is not in the
\* middle of _tasks.
Shape ==
    /\ pc \in {"loop", "fetch", "swap", "drain", "done"} => tasks = << >>
    /\ pc \in {"loop", "fetch", "swap"} => idx = 1
    /\ pc \in {"drain", "done"} => ~isRun
    /\ closer = "no" <=> isRun
    /\ closer = "closed" => pc = "done"

\* Every task added has been executed or waits in a list.
NothingLost == added = Elements(executed) \union Elements(Remaining)

\* Once the drain is over only late tasks are left behind.
OnlyLateLeft == pc = "done" => Elements(Remaining) \subseteq late

IInv == TypeOK /\ Shape /\ NothingLost /\ OnlyLateLeft
-----------------------------------------------------------------------------
(* Sequences.                                                              *)

\* The suffix of a list follows the list when one element is appended.
LEMMA SuffixAppend ==
  ASSUME NEW S, NEW s \in Seq(S), NEW t \in S, NEW i \in 1..(Len(s) + 1)
  PROVE  SubSeq(Append(s, t), i, Len(Append(s, t))) = Append(SubSeq(s, i, Len(s)), t)
<1> DEFINE l == SubSeq(Append(s, t), i, Len(Append(s, t)))
           r == Append(SubSeq(s, i, Len(s)), t)
<1>1. Append(s, t) \in Seq(S) /\ Len(Append(s, t)) = Len(s) + 1
  OBVIOUS
<1>2. /\ SubSeq(s, i, Len(s)) \in Seq(S)
      /\ Len(SubSeq(s, i, Len(s))) = Len(s) - i + 1
      /\ \A j \in 1..(Len(s) - i + 1) : SubSeq(s, i, Len(s))[j] = s[i + j - 1]
  BY SubSeqProperties, LenProperties, ElementOfSeq
<1>3. /\ l \in Seq(S) /\ Len(l) = Len(s) - i + 2
      /\ \A j \in 1..(Len(s) - i + 2) : l[j] = Append(s, t)[i + j - 1]
  BY <1>1, SubSeqProperties, LenProperties, ElementOfSeq
<1>4. r \in Seq(S) /\ Len(r) = Len(s) - i + 2
  BY <1>2
<1>5. ASSUME NEW j \in 1..Len(l) PROVE l[j] = r[j]
  BY <1>2, <1>3, <1>4
<1> HIDE DEF l, r
<1>6. l = r
  BY <1>3, <1>4, <1>5, SeqEqual
<1> QED
  BY <1>6 DEF l, r

\* Appending to the second of two lists appends to their concatenation.
LEMMA ConcatAppend ==
  ASSUME NEW S, NEW s \in Seq(S), NEW u \in Seq(S), NEW t \in S
  PROVE  s \o Append(u, t) = Append(s \o u, t)
<1> DEFINE v == << t >>
<1>1. v \in Seq(S)
  OBVIOUS
<1>2. ASSUME NEW w \in Seq(S) PROVE Append(w, t) = w \o v
  <2> DEFINE l == Append(w, t)
             r == w \o v
  <2>1. /\ l \in Seq(S) /\ Len(l) = Len(w) + 1
        /\ \A j \in 1..Len(w) : l[j] = w[j]
        /\ l[Len(w) + 1] = t
    OBVIOUS
  <2>2. v[1] = t /\ Len(v) = 1
    OBVIOUS
  <2> HIDE DEF l, v
  <2>3. /\ r \in Seq(S) /\ Len(r) = Len(w) + 1
        /\ \A j \in 1..(Len(w) + 1) : r[j] = IF j <= Len(w) THEN w[j] ELSE v[j - Len(w)]
    <3>1. /\ r \in Seq(S) /\ Len(r) = Len(w) + Len(v)
          /\ \A j \in 1..(Len(w) + Len(v)) :
                r[j] = IF j <= Len(w) THEN w[j] ELSE v[j - Len(w)]
      BY <1>1, ConcatProperties
    <3> QED
      BY <2>2, <3>1
  <2>4. r[Len(w) + 1] = t
    BY <2>2, <2>3
  <2> HIDE DEF r
  <2>5. ASSUME NEW j \in 1..Len(l) PROVE l[j] = r[j]
    BY <2>1, <2>3, <2>4
  <2>6. l = r
    BY <2>1, <2>3, <2>5, SeqEqual
  <2> QED
    BY <2>6 DEF l, r
<1> HIDE DEF v
<1>3. s \o u \in Seq(S)
  BY ConcatProperties
<1>4. (s \o u) \o v = s \o (u \o v)
  BY <1>1, ConcatAssociative
<1> QED
  BY <1>2, <1>3, <1>4

\* Taking the first element of a suffix followed by another list.
LEMMA SuffixHead ==
  ASSUME NEW S, NEW s \in Seq(S), NEW u \in Seq(S), NEW i \in 1..Len(s)
  PROVE  LET q == SubSeq(s, i, Len(s)) \o u IN
         /\ q # << >>
         /\ Head(q) = s[i]
         /\ Tail(q) = SubSeq(s, i + 1, Len(s)) \o u
<1> DEFINE a == SubSeq(s, i, Len(s))
           b == SubSeq(s, i + 1, Len(s))
           q == a \o u
           r == b \o u
<1>1. /\ a \in Seq(S) /\ Len(a) = Len(s) - i + 1
      /\ \A j \in 1..(Len(s) - i + 1) : a[j] = s[i + j - 1]
  BY SubSeqProperties, LenProperties, ElementOfSeq
<1>2. /\ b \in Seq(S) /\ Len(b) = Len(s) - i
      /\ \A j \in 1..(Len(s) - i) : b[j] = s[i + j]
  BY SubSeqProperties, LenProperties, ElementOfSeq
<1> HIDE DEF a, b
<1>3. /\ q \in Seq(S) /\ Len(q) = Len(a) + Len(u)
      /\ \A j \in 1..(Len(a) + Len(u)) :
            q[j] = IF j <= Len(a) THEN a[j] ELSE u[j - Len(a)]
  BY <1>1, ConcatProperties
<1>4. /\ r \in Seq(S) /\ Len(r) = Len(b) + Len(u)
      /\ \A j \in 1..(Len(b) + Len(u)) :
            r[j] = IF j <= Len(b) THEN b[j] ELSE u[j - Len(b)]
  BY <1>2, ConcatProperties
<1> HIDE DEF q, r
<1>5. q # << >> /\ Len(q) >= 1
  BY <1>1, <1>3
<1>6. Head(q) = s[i]
  BY <1>1, <1>3, <1>5
<1>7. /\ Tail(q) \in Seq(S) /\ Len(Tail(q)) = Len(q) - 1
      /\ \A j \in 1..Len(Tail(q)) : Tail(q)[j] = q[j + 1]
  BY <1>3, <1>5, HeadTailProperties
<1>8. Len(Tail(q)) = Len(r)
  BY <1>1, <1>2, <1>3, <1>4, <1>7
<1>9. ASSUME NEW j \in 1..Len(r) PROVE Tail(q)[j] = r[j]
  <2>1. Tail(q)[j] = q[j + 1] /\ j + 1 \in 1..(Len(a) + Len(u))
    BY <1>3, <1>7, <1>8
  <2>2. CASE j <= Len(b)
    <3>1. j \in 1..(Len(s) - i) /\ j + 1 \in 1..(Len(s) - i + 1)
      BY <1>2, <2>2
    <3>2. b[j] = s[i + j]
      BY <1>2, <3>1
    <3>3. a[j + 1] = s[i + j]
      <4>1. a[j + 1] = s[i + (j + 1) - 1]
        BY <1>1, <3>1
      <4>2. i + (j + 1) - 1 = i + j
        BY <3>1
      <4> QED
        BY <4>1, <4>2
    <3>4. q[j + 1] = a[j + 1] /\ r[j] = b[j]
      BY <1>1, <1>2, <1>3, <1>4, <2>1, <2>2
    <3> QED
      BY <2>1, <3>2, <3>3, <3>4
  <2>3. CASE j > Len(b)
    <3>1. j + 1 - Len(a) = j - Len(b) /\ j + 1 > Len(a)
      BY <1>1, <1>2, <2>3
    <3>2. q[j + 1] = u[j + 1 - Len(a)]
      <4>1. ~(j + 1 <= Len(a))
        BY <1>1, <3>1
      <4> QED
        BY <1>3, <2>1, <4>1
    <3>3. r[j] = u[j - Len(b)]
      BY <1>2, <1>4, <2>3
    <3>4. u[j + 1 - Len(a)] = u[j - Len(b)]
      BY <3>1, Zenon
    <3> QED
      BY <2>1, <3>2, <3>3, <3>4, Zenon
  <2>4. j <= Len(b) \/ j > Len(b)
    BY <1>2, <1>4
  <2> QED
    BY <2>2, <2>3, <2>4
<1>10. Tail(q) = r
  BY <1>4, <1>7, <1>8, <1>9, SeqEqual
<1> QED
  BY <1>5, <1>6, <1>10 DEF q, r, a, b

\* The elements of a list after an append and after taking the head.
LEMMA ElementsProperties ==
  ASSUME NEW S, NEW s \in Seq(S)
  PROVE  /\ \A t \in S : Elements(Append(s, t)) = Elements(s) \union {t}
         /\ s # << >> => Elements(s) = Elements(Tail(s)) \union {Head(s)}
<1>1. ASSUME NEW t \in S
      PROVE  Elements(Append(s, t)) = Elements(s) \union {t}
  BY DEF Elements
<1>2. ASSUME s # << >>
      PROVE  Elements(s) = Elements(Tail(s)) \union {Head(s)}
  <2>1. /\ Len(s) \in Nat \ {0} /\ Len(Tail(s)) = Len(s) - 1
        /\ \A i \in 1..Len(Tail(s)) : Tail(s)[i] = s[i + 1]
        /\ Head(s) = s[1]
    BY <1>2, HeadTailProperties, EmptySeq
  <2>2. ASSUME NEW x \in Elements(s) PROVE x \in Elements(Tail(s)) \union {Head(s)}
    <3>1. PICK i \in 1..Len(s) : x = s[i]
      BY DEF Elements
    <3>2. CASE i = 1
      BY <2>1, <3>1, <3>2
    <3>3. CASE i # 1
      <4>1. i - 1 \in 1..Len(Tail(s)) /\ Tail(s)[i - 1] = s[i]
        BY <2>1, <3>3
      <4> QED
        BY <3>1, <4>1 DEF Elements
    <3> QED
      BY <3>2, <3>3
  <2>3. ASSUME NEW x \in Elements(Tail(s)) \union {Head(s)} PROVE x \in Elements(s)
    <3>1. CASE x = Head(s)
      BY <2>1, <3>1 DEF Elements
    <3>2. CASE x \in Elements(Tail(s))
      <4>1. PICK i \in 1..Len(Tail(s)) : x = Tail(s)[i]
        BY <3>2 DEF Elements
      <4>2. i + 1 \in 1..Len(s) /\ x = s[i + 1]
        BY <2>1, <4>1
      <4> QED
        BY <4>2 DEF Elements
    <3> QED
      BY <3>1, <3>2
  <2> QED
    BY <2>2, <2>3
<1> QED
  BY <1>1, <1>2
-----------------------------------------------------------------------------
(* The step simulation.                                                    *)

\* What a step does to Remaining and executed: nothing, one Accept or one
\* Execute of the queue; what it does to the sets of tasks.
LEMMA AddTaskSim ==
  ASSUME TypeOK, Shape, NEW t \in Tasks, AddTask(t)
  PROVE  Remaining \in Seq(Tasks) /\ Remaining' = Append(Remaining, t)
<1> USE DEF TypeOK, AddTask
<1>1. CASE pc \in {"drain", "done"}
  <2>1. idx \in 1..(Len(tasksBuf) + 1)
    BY <1>1
  <2>2. SubSeq(tasksBuf, idx, Len(tasksBuf)) \in Seq(Tasks)
    BY <2>1, SubSeqProperties, LenProperties, ElementOfSeq
  <2>3. SubSeq(tasksBuf', idx, Len(tasksBuf'))
          = Append(SubSeq(tasksBuf, idx, Len(tasksBuf)), t)
    BY <2>1, SuffixAppend
  <2>4. /\ Remaining = SubSeq(tasksBuf, idx, Len(tasksBuf))
        /\ Remaining' = SubSeq(tasksBuf', idx, Len(tasksBuf'))
    BY <1>1 DEF Remaining
  <2> QED
    BY <2>2, <2>3, <2>4
<1>2. CASE pc \notin {"drain", "done"}
  <2>1. idx \in 1..(Len(tasks) + 1)
    BY <1>2
  <2>2. SubSeq(tasks, idx, Len(tasks)) \in Seq(Tasks)
    BY <2>1, SubSeqProperties, LenProperties, ElementOfSeq
  <2>3. /\ SubSeq(tasks, idx, Len(tasks)) \o tasksBuf \in Seq(Tasks)
        /\ SubSeq(tasks, idx, Len(tasks)) \o Append(tasksBuf, t)
             = Append(SubSeq(tasks, idx, Len(tasks)) \o tasksBuf, t)
    <3> DEFINE u == SubSeq(tasks, idx, Len(tasks))
    <3> HIDE DEF u
    <3>1. u \in Seq(Tasks)
      BY <2>2 DEF u
    <3>2. u \o tasksBuf \in Seq(Tasks)
      BY <3>1, ConcatProperties
    <3>3. u \o Append(tasksBuf, t) = Append(u \o tasksBuf, t)
      BY <3>1, ConcatAppend
    <3> QED
      BY <3>2, <3>3 DEF u
  <2>4. /\ Remaining = SubSeq(tasks, idx, Len(tasks)) \o tasksBuf
        /\ Remaining' = SubSeq(tasks, idx, Len(tasks)) \o Append(tasksBuf, t)
    BY <1>2 DEF Remaining
  <2> QED
    BY <2>3, <2>4
<1> QED
  BY <1>1, <1>2

LEMMA RunSim ==
  ASSUME TypeOK, Shape, Exec \/ Drain
  PROVE  /\ Remaining \in Seq(Tasks) /\ Remaining # << >>
         /\ executed' = Append(executed, Head(Remaining))
         /\ Remaining' = Tail(Remaining)
<1> USE DEF TypeOK
<1>1. CASE Exec
  <2>1. idx \in 1..Len(tasks) /\ SubSeq(tasks, idx, Len(tasks)) \in Seq(Tasks)
    BY <1>1, SubSeqProperties, LenProperties, ElementOfSeq DEF Exec
  <2>2. Remaining = SubSeq(tasks, idx, Len(tasks)) \o tasksBuf
    BY <1>1 DEF Exec, Remaining
  <2>3. Remaining' = SubSeq(tasks, idx + 1, Len(tasks)) \o tasksBuf
    BY <1>1 DEF Exec, Remaining, listVars
  <2>4. tasks \in Seq(Tasks) /\ tasksBuf \in Seq(Tasks)
    OBVIOUS
  <2>5. /\ SubSeq(tasks, idx, Len(tasks)) \o tasksBuf # << >>
        /\ Head(SubSeq(tasks, idx, Len(tasks)) \o tasksBuf) = tasks[idx]
        /\ Tail(SubSeq(tasks, idx, Len(tasks)) \o tasksBuf)
             = SubSeq(tasks, idx + 1, Len(tasks)) \o tasksBuf
    BY ONLY <2>1, <2>4, SuffixHead
  <2>6. Remaining \in Seq(Tasks)
    <3> DEFINE a == SubSeq(tasks, idx, Len(tasks))
    <3>1. a \in Seq(Tasks) /\ Remaining = a \o tasksBuf
      BY <2>1, <2>2
    <3> HIDE DEF a
    <3> QED
      BY ONLY <2>4, <3>1, ConcatProperties
  <2>7. Remaining # << >> /\ Head(Remaining) = tasks[idx] /\ Remaining' = Tail(Remaining)
    BY ONLY <2>2, <2>3, <2>5
  <2>8. executed' = Append(executed, tasks[idx])
    BY <1>1 DEF Exec
  <2> QED
    BY ONLY <2>6, <2>7, <2>8
<1>2. CASE Drain
  <2>1. idx \in 1..Len(tasksBuf) /\ << >> \in Seq(Tasks)
    BY <1>2 DEF Drain
  <2>2. /\ SubSeq(tasksBuf, idx, Len(tasksBuf)) \in Seq(Tasks)
        /\ SubSeq(tasksBuf, idx + 1, Len(tasksBuf)) \in Seq(Tasks)
    BY <2>1, SubSeqProperties, LenProperties, ElementOfSeq
  <2>3. Remaining = SubSeq(tasksBuf, idx, Len(tasksBuf)) \o << >>
    BY <1>2, <2>2, ConcatEmptySeq DEF Drain, Remaining
  <2>4. Remaining' = SubSeq(tasksBuf, idx + 1, Len(tasksBuf)) \o << >>
    BY <1>2, <2>2, ConcatEmptySeq DEF Drain, Remaining, listVars
  <2>5. tasksBuf \in Seq(Tasks)
    OBVIOUS
  <2>6. /\ SubSeq(tasksBuf, idx, Len(tasksBuf)) \o << >> # << >>
        /\ Head(SubSeq(tasksBuf, idx, Len(tasksBuf)) \o << >>) = tasksBuf[idx]
        /\ Tail(SubSeq(tasksBuf, idx, Len(tasksBuf)) \o << >>)
             = SubSeq(tasksBuf, idx + 1, Len(tasksBuf)) \o << >>
    BY ONLY <2>1, <2>5, SuffixHead
  <2>7. Remaining \in Seq(Tasks)
    <3> DEFINE a == SubSeq(tasksBuf, idx, Len(tasksBuf))
    <3>1. a \in Seq(Tasks) /\ Remaining = a \o << >>
      BY <2>2, <2>3
    <3> HIDE DEF a
    <3> QED
      BY ONLY <2>1, <3>1, ConcatProperties
  <2>8. Remaining # << >> /\ Head(Remaining) = tasksBuf[idx] /\ Remaining' = Tail(Remaining)
    BY ONLY <2>3, <2>4, <2>6
  <2>9. executed' = Append(executed, tasksBuf[idx])
    BY <1>2 DEF Drain
  <2> QED
    BY ONLY <2>7, <2>8, <2>9
<1> QED
  BY <1>1, <1>2

LEMMA InternalSim ==
  ASSUME TypeOK, Shape,
         \/ LoopTest \/ Fetch \/ Swap \/ Clear \/ DrainEnd \/ Close \/ CloseReturn
         \/ UNCHANGED vars
  PROVE  Remaining \in Seq(Tasks) /\ Remaining' = Remaining /\ executed' = executed
<1> USE DEF TypeOK, Shape
<1>0. Remaining \in Seq(Tasks)
  <2>1. CASE pc \in {"drain", "done"}
    <3>1. idx \in 1..(Len(tasksBuf) + 1)
      BY <2>1
    <3> QED
      BY <2>1, <3>1, SubSeqProperties, LenProperties, ElementOfSeq DEF Remaining
  <2>2. CASE pc \notin {"drain", "done"}
    <3>1. idx \in 1..(Len(tasks) + 1)
      BY <2>2
    <3>2. SubSeq(tasks, idx, Len(tasks)) \in Seq(Tasks)
      BY <3>1, SubSeqProperties, LenProperties, ElementOfSeq
    <3> QED
      BY <2>2, <3>2, ConcatProperties DEF Remaining
  <2> QED
    BY <2>1, <2>2
<1>1. CASE LoopTest
  <2>1. tasks = << >> /\ idx = 1
    BY <1>1 DEF LoopTest
  <2>2. Remaining = tasksBuf
    BY <1>1, <2>1, SubSeqEmpty, ConcatEmptySeq DEF LoopTest, Remaining
  <2>3. Remaining' = tasksBuf
    <3>1. CASE isRun
      BY <1>1, <2>1, <3>1, SubSeqEmpty, ConcatEmptySeq DEF LoopTest, Remaining, listVars
    <3>2. CASE ~isRun
      BY <1>1, <2>1, <3>2, SubSeqFull DEF LoopTest, Remaining, listVars
    <3> QED
      BY <3>1, <3>2
  <2> QED
    BY <1>0, <1>1, <2>2, <2>3 DEF LoopTest
<1>2. CASE Fetch \/ DrainEnd \/ Close \/ CloseReturn \/ UNCHANGED vars
  BY <1>0, <1>2 DEF Fetch, DrainEnd, Close, CloseReturn, vars, Remaining, listVars
<1>3. CASE Swap
  <2>1. tasks = << >> /\ idx = 1 /\ tasks' = tasksBuf /\ tasksBuf' = << >>
    BY <1>3, ConcatEmptySeq DEF Swap
  <2>2. Remaining = tasksBuf
    BY <1>3, <2>1, SubSeqEmpty, ConcatEmptySeq DEF Swap, Remaining
  <2>3. Remaining' = SubSeq(tasksBuf, 1, Len(tasksBuf)) \o << >>
    BY <1>3, <2>1 DEF Swap, Remaining
  <2> QED
    BY <1>0, <1>3, <2>2, <2>3, SubSeqFull, ConcatEmptySeq DEF Swap
<1>4. CASE Clear
  <2>1. Remaining = tasksBuf
    BY <1>4, SubSeqEmpty, ConcatEmptySeq DEF Clear, Remaining
  <2>2. Remaining' = tasksBuf
    BY <1>4, SubSeqEmpty, ConcatEmptySeq DEF Clear, Remaining
  <2> QED
    BY <1>0, <1>4, <2>1, <2>2 DEF Clear
<1> QED
  BY <1>1, <1>2, <1>3, <1>4
-----------------------------------------------------------------------------
(* The invariant.                                                          *)

LEMMA InitIInv == Init => IInv /\ TQ!Init
<1> SUFFICES ASSUME Init PROVE IInv /\ TQ!Init
  OBVIOUS
<1> USE DEF Init
<1>1. TypeOK
  <2>1. isRun \in BOOLEAN /\ added \subseteq Tasks /\ late \subseteq added
    OBVIOUS
  <2>2. tasksBuf \in Seq(Tasks) /\ tasks \in Seq(Tasks) /\ executed \in Seq(Tasks)
    OBVIOUS
  <2>3. idx \in 1..(Len(tasks) + 1)
    OBVIOUS
  <2> QED
    BY <2>1, <2>2, <2>3 DEF TypeOK
<1>2. Shape
  BY DEF Shape
<1>3. Remaining = << >>
  BY SubSeqEmpty, ConcatEmptySeq, EmptySeq DEF Remaining
<1>4. NothingLost /\ OnlyLateLeft
  BY <1>3 DEF NothingLost, OnlyLateLeft, Elements
<1> QED
  BY <1>1, <1>2, <1>3, <1>4 DEF IInv, TQ!Init

LEMMA TypeStep == TypeOK /\ Shape /\ [Next]_vars => TypeOK' /\ Shape'
<1> SUFFICES ASSUME TypeOK, Shape, [Next]_vars PROVE TypeOK' /\ Shape'
  OBVIOUS
<1> USE DEF TypeOK, Shape, listVars, history
<1>1. ASSUME NEW t \in Tasks, AddTask(t) PROVE TypeOK' /\ Shape'
  BY <1>1 DEF AddTask
<1>2. CASE LoopTest
  BY <1>2 DEF LoopTest
<1>3. CASE Fetch
  BY <1>3 DEF Fetch
<1>4. CASE Swap
  <2>1. tasks \o tasksBuf \in Seq(Tasks)
    BY ConcatProperties
  <2> QED
    BY <1>4, <2>1, LenProperties DEF Swap
<1>5. CASE Exec
  <2>1. executed' \in Seq(Tasks)
    BY <1>5, ElementOfSeq DEF Exec
  <2> QED
    BY <1>5, <2>1 DEF Exec
<1>6. CASE Clear
  BY <1>6 DEF Clear
<1>7. CASE Drain
  <2>1. executed' \in Seq(Tasks)
    BY <1>7, ElementOfSeq DEF Drain
  <2> QED
    BY <1>7, <2>1 DEF Drain
<1>8. CASE DrainEnd
  BY <1>8 DEF DrainEnd
<1>9. CASE Close
  BY <1>9 DEF Close
<1>10. CASE CloseReturn
  BY <1>10 DEF CloseReturn
<1>11. CASE UNCHANGED vars
  BY <1>11 DEF vars
<1> QED
  BY <1>1, <1>2, <1>3, <1>4, <1>5, <1>6, <1>7, <1>8, <1>9, <1>10, <1>11 DEF Next, WorkerStep

LEMMA TasksStep == IInv /\ [Next]_vars => NothingLost' /\ OnlyLateLeft'
<1> SUFFICES ASSUME IInv, [Next]_vars PROVE NothingLost' /\ OnlyLateLeft'
  OBVIOUS
<1> USE DEF IInv, NothingLost, OnlyLateLeft, history
<1>1. ASSUME NEW t \in Tasks, AddTask(t) PROVE NothingLost' /\ OnlyLateLeft'
  <2>1. Elements(Remaining)' = Elements(Remaining) \union {t}
    BY <1>1, AddTaskSim, ElementsProperties DEF Elements
  <2>2. Elements(executed)' = Elements(executed)
    BY <1>1 DEF AddTask, Elements
  <2> QED
    BY <1>1, <2>1, <2>2 DEF AddTask, Shape
<1>2. CASE Exec \/ Drain
  <2>1. Elements(executed)' = Elements(executed) \union {Head(Remaining)}
    <3>1. Head(Remaining) \in Tasks
      BY <1>2, RunSim, HeadTailProperties
    <3>2. Elements(Append(executed, Head(Remaining)))
            = Elements(executed) \union {Head(Remaining)}
      BY <3>1, ElementsProperties DEF TypeOK
    <3>3. Elements(executed)' = Elements(Append(executed, Head(Remaining)))
      BY <1>2, RunSim DEF Elements
    <3> QED
      BY <3>2, <3>3
  <2>2. Elements(Remaining) = Elements(Remaining)' \union {Head(Remaining)}
    <3>1. Elements(Remaining) = Elements(Tail(Remaining)) \union {Head(Remaining)}
      BY <1>2, RunSim, ElementsProperties
    <3>2. Elements(Remaining)' = Elements(Tail(Remaining))
      BY <1>2, RunSim DEF Elements
    <3> QED
      BY <3>1, <3>2
  <2>3. added' = added /\ pc' # "done"
    BY <1>2 DEF Exec, Drain
  <2> QED
    BY <2>1, <2>2, <2>3
<1>3. CASE LoopTest \/ Fetch \/ Swap \/ Clear \/ DrainEnd \/ Close \/ CloseReturn
           \/ UNCHANGED vars
  <2>1. /\ Elements(Remaining)' = Elements(Remaining)
        /\ Elements(executed)' = Elements(executed)
    BY <1>3, InternalSim DEF Elements
  <2>2. added' = added /\ late' = late
    BY <1>3 DEF LoopTest, Fetch, Swap, Clear, DrainEnd, Close, CloseReturn, vars
  <2>3. pc' = "done" => pc = "done" \/ DrainEnd
    BY <1>3 DEF LoopTest, Fetch, Swap, Clear, Close, CloseReturn, vars
  <2>4. ASSUME DrainEnd PROVE Elements(Remaining) = {}
    BY <2>4, SubSeqEmpty DEF DrainEnd, Remaining, Elements, TypeOK
  <2> QED
    BY <2>1, <2>2, <2>3, <2>4
<1> QED
  BY <1>1, <1>2, <1>3 DEF Next, WorkerStep

LEMMA InvStep == IInv /\ [Next]_vars => IInv'
BY TypeStep, TasksStep DEF IInv

THEOREM Inductive == Spec => []IInv
BY InitIInv, InvStep, PTL DEF Spec

\* Type correctness; the iterators of OnRun never leave their lists
\* (Task.hpp:54-88).
THEOREM TypeCorrect == Spec => []TypeOK
<1>1. IInv => TypeOK
  BY DEF IInv
<1> QED
  BY <1>1, Inductive, PTL

\* When Close has returned every task added before it has run, for any tasks
\* and any timing of the unlocked reads (Task.hpp:46-51, 82-86).
THEOREM CloseHasDrained == Spec => []CloseDrains
<1>1. IInv => CloseDrains
  BY DEF IInv, Shape, NothingLost, OnlyLateLeft, CloseDrains
<1> QED
  BY <1>1, Inductive, PTL

\* TaskServer implements TaskQueue: the unlocked emptiness test, the move under
\* the lock and the unlocked drain lose, repeat and reorder nothing
\* (Task.hpp:33-88).
THEOREM Refinement == Spec => ImplementsTaskQueue
<1>1. TypeOK /\ Shape /\ [Next]_vars => [TQ!Next]_(TQ!vars)
  <2> SUFFICES ASSUME TypeOK, Shape, [Next]_vars PROVE [TQ!Next]_(TQ!vars)
    OBVIOUS
  <2> USE DEF TQ!Next, TQ!vars, TQ!Accept, TQ!Execute
  <2>1. ASSUME NEW t \in Tasks, AddTask(t) PROVE TQ!Next
    BY <2>1, AddTaskSim DEF AddTask
  <2>2. CASE Exec \/ Drain
    BY <2>2, RunSim
  <2>3. CASE LoopTest \/ Fetch \/ Swap \/ Clear \/ DrainEnd \/ Close \/ CloseReturn
             \/ UNCHANGED vars
    BY <2>3, InternalSim
  <2> QED
    BY <2>1, <2>2, <2>3 DEF Next, WorkerStep
<1>2. IInv => TypeOK /\ Shape
  BY DEF IInv
<1> QED
  BY InitIInv, Inductive, <1>1, <1>2, PTL DEF Spec, ImplementsTaskQueue, TQ!Spec
===============================================================================
