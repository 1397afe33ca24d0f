--------------------------- MODULE HttpRequestsProofs ---------------------------
(***************************************************************************)
(* HttpRequests.tla for any number of requests, servers, addresses,        *)
(* failures and closed connections: types, callbacks once and in order,    *)
(* requests to their own server, and, for a program that issues them one   *)
(* at a time, its own answers and no request lost.                         *)
(***************************************************************************)
EXTENDS HttpRequests, SequenceTheorems, TLAPS

Trying == pc \in {"connect", "request"}

\* The queue holds issued requests in order, of which only the one in front
\* may have been tried.
QueueInv ==
    /\ \A i \in 1..Len(queue) : queue[i].req \in Issued
    /\ \A i, j \in 1..Len(queue) : i < j => queue[i].req < queue[j].req
    /\ \A i \in 1..Len(queue) : i > 1 => queue[i].questCount = 0
    /\ Trying => queue # << >> /\ queue[1].questCount = 1
    /\ pc = "connect" => addrs > 0

\* The queue is past request r: r's callback will not be set from it again.
Passed(r) ==
    \A i \in 1..Len(queue) :
        \/ r < queue[i].req
        \/ r = queue[i].req /\ i = 1 /\ queue[1].questCount = 1 /\ ~Trying

OrderInv ==
    /\ \A i, j \in 1..Len(calls) : i < j => calls[i][1] < calls[j][1]
    /\ \A k \in 1..Len(calls) :
          /\ calls[k][1] \in Issued
          /\ Passed(calls[k][1])
          /\ onResponseCall # NoReq => calls[k][1] < onResponseCall
    /\ onResponseCall # NoReq => onResponseCall \in Issued /\ Passed(onResponseCall)

ToHost(r) == r \in Issued /\ hosts[r] = hostBack

LinkInv ==
    /\ \A i \in 1..Len(sendBuff) : ToHost(sendBuff[i])
    /\ \A i \in 1..Len(asked) : ToHost(asked[i])
    /\ \A i \in 1..Len(answers) : ToHost(answers[i].req)
    /\ pc = "request" /\ client = "run" => hostBack = hosts[queue[1].req]

\* While requests are issued one at a time only one is pending, and all there
\* is on the connection is that one, once, while its callback waits.
Awaited ==
    /\ Len(sendBuff) + Len(asked) + Len(answers) <= 1
    /\ \A i \in 1..Len(sendBuff) : sendBuff[i] = onResponseCall
    /\ \A i \in 1..Len(asked) : asked[i] = onResponseCall
    /\ \A i \in 1..Len(answers) : answers[i].req = onResponseCall

OnePending == \A r, s \in Pending : r = s

SerialInv ==
    ~overlap =>
        /\ OnePending
        /\ Awaited
        /\ \A i \in 1..Len(calls) : calls[i][2] \in {calls[i][1], NoReq}

\* A pending request whose callback waits, or which is to be tried or is tried.
Waits(r) ==
    \/ r = onResponseCall
    \/ \E i \in 1..Len(queue) :
          /\ queue[i].req = r
          /\ queue[i].questCount = 0 \/ (i = 1 /\ Trying)

\* The premise of NothingLost, under which nextRequest is never called while a
\* callback waits.
Calm == ~overlap /\ OneHost /\ fails = 0

CalmInv ==
    Calm =>
        /\ \A r \in Pending : Waits(r)
        /\ client \in {"none", "run"}
        /\ client = "run" => \E r \in Issued : hosts[r] = hostBack
        /\ pc = "connect" => client = "none"
        /\ onResponseCall # NoReq =>
              /\ Len(queue) = 1 /\ queue[1].req = onResponseCall
              /\ ~bNextRequest /\ ~Trying
        /\ Trying => ~bNextRequest

IInv == TypeOK /\ QueueInv /\ OrderInv /\ LinkInv /\ SerialInv
-----------------------------------------------------------------------------
(* Sequences.                                                              *)

QueueSeq == Seq([req : Nat \ {0}, questCount : 0..maxQuestCount])

LEMMA TailFacts ==
  ASSUME NEW S, NEW s \in Seq(S), s # << >>
  PROVE  /\ Tail(s) \in Seq(S) /\ Len(Tail(s)) = Len(s) - 1
         /\ \A i \in 1..(Len(s) - 1) : Tail(s)[i] = s[i + 1]
         /\ Len(s) \in Nat \ {0} /\ Head(s) = s[1]
BY HeadTailProperties, EmptySeq, LenProperties

LEMMA AppendFacts ==
  ASSUME NEW S, NEW s \in Seq(S), NEW e \in S
  PROVE  /\ Append(s, e) \in Seq(S) /\ Len(Append(s, e)) = Len(s) + 1
         /\ \A i \in 1..Len(s) : Append(s, e)[i] = s[i]
         /\ Append(s, e)[Len(s) + 1] = e
         /\ Len(s) \in Nat
BY AppendProperties, LenProperties

\* What a request to the host more leaves of the history and the queue.
LEMMA IssueFacts ==
  ASSUME TypeOK, NEW more \in Hosts \cup {NoHost}, NEW P, Issue(more, P)
  PROVE  /\ hosts' \in Seq(Hosts) /\ overlap' \in BOOLEAN
         /\ \A r \in Issued : r \in Issued' /\ hosts'[r] = hosts[r]
         /\ Issued' = IF more = NoHost THEN Issued ELSE Issued \cup {Len(hosts) + 1}
         /\ overlap => overlap'
         /\ ~overlap' /\ more # NoHost => P = {}
         /\ Len(hosts) \in Nat /\ Len(hosts') \in Nat
<1>0. hosts \in Seq(Hosts) /\ overlap \in BOOLEAN /\ Len(hosts) \in Nat
  BY LenProperties DEF TypeOK
<1>1. CASE more = NoHost
  BY <1>0, <1>1 DEF Issue, Issued
<1>2. CASE more # NoHost
  <2>1. hosts' = Append(hosts, more) /\ overlap' = (overlap \/ P # {}) /\ more \in Hosts
    BY <1>2 DEF Issue
  <2>2. /\ hosts' \in Seq(Hosts) /\ Len(hosts') = Len(hosts) + 1
        /\ \A i \in 1..Len(hosts) : hosts'[i] = hosts[i]
    BY <1>0, <2>1, AppendFacts
  <2>3. Issued' = Issued \cup {Len(hosts) + 1}
    BY <1>0, <2>2 DEF Issued
  <2>4. /\ overlap' \in BOOLEAN /\ (overlap => overlap')
        /\ (~overlap' => P = {})
    BY <2>1
  <2>5. \A r \in Issued : r \in Issued' /\ hosts'[r] = hosts[r]
    BY <1>0, <2>2 DEF Issued
  <2> QED
    BY <1>0, <1>2, <2>2, <2>3, <2>4, <2>5
<1> QED
  BY <1>1, <1>2

LEMMA QueuedFacts ==
  ASSUME TypeOK, QueueInv, NEW more \in Hosts \cup {NoHost}, NEW P, Issue(more, P)
  PROVE  /\ Queued(more) \in QueueSeq
         /\ Len(Queued(more)) = IF more = NoHost THEN Len(queue) ELSE Len(queue) + 1
         /\ \A i \in 1..Len(queue) : Queued(more)[i] = queue[i]
         /\ more # NoHost => Queued(more)[Len(queue) + 1]
                                = [req |-> Len(hosts) + 1, questCount |-> 0]
         /\ \A i \in 1..Len(Queued(more)) : Queued(more)[i].req \in Issued'
         /\ \A i, j \in 1..Len(Queued(more)) :
               i < j => Queued(more)[i].req < Queued(more)[j].req
         /\ \A i \in 1..Len(Queued(more)) : i > 1 => Queued(more)[i].questCount = 0
         /\ Len(queue) \in Nat
<1> DEFINE q == Queued(more)
           new == [req |-> Len(hosts) + 1, questCount |-> 0]
<1>0. queue \in QueueSeq /\ Len(queue) \in Nat
  BY LenProperties DEF TypeOK, QueueSeq
<1>1. /\ Len(hosts) \in Nat /\ Issued = 1..Len(hosts)
      /\ Issued' = IF more = NoHost THEN Issued ELSE Issued \cup {Len(hosts) + 1}
  BY IssueFacts DEF Issued
<1>2. CASE more = NoHost
  <2>1. q = queue
    BY <1>2 DEF Queued
  <2> HIDE DEF q
  <2> QED
    BY <1>0, <1>1, <1>2, <2>1 DEF QueueInv, q
<1>3. CASE more # NoHost
  <2>1. q = Append(queue, new)
    BY <1>3 DEF Queued
  <2>2. new \in [req : Nat \ {0}, questCount : 0..maxQuestCount]
    BY <1>1 DEF maxQuestCount
  <2> HIDE DEF q
  <2>3. /\ q \in QueueSeq /\ Len(q) = Len(queue) + 1
        /\ \A i \in 1..Len(queue) : q[i] = queue[i]
        /\ q[Len(queue) + 1] = new
    BY <1>0, <2>1, <2>2, AppendFacts DEF QueueSeq
  <2>4. ASSUME NEW i \in 1..Len(q)
        PROVE  q[i].req \in Issued' /\ (i > 1 => q[i].questCount = 0)
    BY <1>0, <1>1, <1>3, <2>3, <2>4 DEF QueueInv
  <2>5. ASSUME NEW i \in 1..Len(q), NEW j \in 1..Len(q), i < j
        PROVE  q[i].req < q[j].req
    <3>1. i \in 1..Len(queue) /\ q[i] = queue[i] /\ queue[i].req \in 1..Len(hosts)
      BY <1>0, <1>1, <2>3, <2>5 DEF QueueInv
    <3> QED
      BY <1>0, <1>1, <2>3, <2>5, <3>1 DEF QueueInv
  <2> QED
    BY <1>0, <1>3, <2>3, <2>4, <2>5 DEF q
<1> QED
  BY <1>2, <1>3

\* A request that the queue has passed stays passed when another is issued.
LEMMA PassedQueued ==
  ASSUME TypeOK, QueueInv, NEW more \in Hosts \cup {NoHost}, NEW P, Issue(more, P),
         NEW r \in Issued, Passed(r), NEW i \in 1..Len(Queued(more))
  PROVE  \/ r < Queued(more)[i].req
         \/ /\ r = Queued(more)[i].req /\ i = 1 /\ Len(queue) > 0
            /\ queue[1].questCount = 1 /\ ~Trying
<1> DEFINE q == Queued(more)
<1>1. /\ Len(q) = IF more = NoHost THEN Len(queue) ELSE Len(queue) + 1
      /\ \A j \in 1..Len(queue) : q[j] = queue[j]
      /\ more # NoHost => q[Len(queue) + 1] = [req |-> Len(hosts) + 1, questCount |-> 0]
      /\ Len(queue) \in Nat
  BY QueuedFacts
<1>2. Len(hosts) \in Nat /\ r \in 1..Len(hosts)
  BY IssueFacts DEF Issued
<1> HIDE DEF q
<1>3. CASE i \in 1..Len(queue)
  BY <1>1, <1>2, <1>3 DEF Passed, q
<1>4. CASE i \notin 1..Len(queue)
  <2>1. more # NoHost /\ i = Len(queue) + 1
    BY <1>1, <1>4 DEF q
  <2> QED
    BY <1>1, <1>2, <2>1 DEF q
<1> QED
  BY <1>3, <1>4

\* What calling _onResponseCall does to the history.
LEMMA CallBackFacts ==
  ASSUME TypeOK, OrderInv, NEW more \in Hosts \cup {NoHost}, NEW answer \in Nat,
         CallBack(answer, more)
  PROVE  /\ Issue(more, Pending \ {onResponseCall})
         /\ onResponseCall' = NoReq
         /\ calls' \in Seq((Nat \ {0}) \X Nat)
         /\ \A i, j \in 1..Len(calls') : i < j => calls'[i][1] < calls'[j][1]
         /\ \A k \in 1..Len(calls') : calls'[k][1] \in Issued /\ Passed(calls'[k][1])
         /\ \A k \in 1..Len(calls') :
               \/ k \in 1..Len(calls) /\ calls'[k] = calls[k]
               \/ onResponseCall # NoReq /\ calls'[k] = <<onResponseCall, answer>>
         /\ Called' = IF onResponseCall = NoReq THEN Called ELSE Called \cup {onResponseCall}
         /\ onResponseCall = NoReq => more = NoHost
<1>0. calls \in Seq((Nat \ {0}) \X Nat) /\ Len(calls) \in Nat /\ DOMAIN calls = 1..Len(calls)
  BY LenProperties DEF TypeOK
<1>1. CASE onResponseCall = NoReq
  <2>1. more = NoHost /\ onResponseCall' = NoReq /\ calls' = calls /\ Issue(more, Pending \ {onResponseCall})
    BY <1>1 DEF CallBack, Issue, history
  <2>2. Called' = Called
    BY <2>1 DEF Called
  <2> QED
    BY <1>0, <1>1, <2>1, <2>2 DEF OrderInv
<1>2. CASE onResponseCall # NoReq
  <2> DEFINE c == <<onResponseCall, answer>>
  <2>1. /\ calls' = Append(calls, c) /\ onResponseCall' = NoReq
        /\ Issue(more, Pending \ {onResponseCall})
    BY <1>2 DEF CallBack
  <2>2. c \in (Nat \ {0}) \X Nat /\ c[1] = onResponseCall
    BY <1>2 DEF TypeOK, NoReq
  <2> HIDE DEF c
  <2>3. /\ calls' \in Seq((Nat \ {0}) \X Nat) /\ Len(calls') = Len(calls) + 1
        /\ \A k \in 1..Len(calls) : calls'[k] = calls[k]
        /\ calls'[Len(calls) + 1] = c
    BY <1>0, <2>1, <2>2, AppendFacts
  <2>4. \A k \in 1..Len(calls') : k \in 1..Len(calls) \/ k = Len(calls) + 1
    BY <1>0, <2>3
  <2>5. \A i, j \in 1..Len(calls') : i < j => calls'[i][1] < calls'[j][1]
    <3>1. ASSUME NEW i \in 1..Len(calls'), NEW j \in 1..Len(calls'), i < j
          PROVE  calls'[i][1] < calls'[j][1]
      <4> DEFINE n == Len(calls)
      <4>0. n \in Nat /\ i \in 1..(n + 1) /\ j \in 1..(n + 1)
        BY <1>0, <2>3
      <4> HIDE DEF n
      <4>5. i \in 1..n
        BY <3>1, <4>0
      <4>1. i \in 1..Len(calls) /\ calls'[i] = calls[i]
        BY <2>3, <4>5 DEF n
      <4>2. CASE j \in 1..Len(calls)
        BY <2>3, <3>1, <4>1, <4>2 DEF OrderInv
      <4>3. CASE j = Len(calls) + 1
        BY <1>2, <2>2, <2>3, <4>1, <4>3 DEF OrderInv
      <4> QED
        BY <2>4, <4>2, <4>3
    <3> QED
      BY <3>1
  <2>6. \A k \in 1..Len(calls') : calls'[k][1] \in Issued /\ Passed(calls'[k][1])
    BY <1>2, <2>2, <2>3, <2>4 DEF OrderInv
  <2>7. Called' = Called \cup {onResponseCall}
    <3>1. DOMAIN calls' = 1..(Len(calls) + 1)
      BY <2>3, LenProperties
    <3>2. Called' = {calls'[k][1] : k \in 1..(Len(calls) + 1)}
      BY <3>1 DEF Called
    <3>3. Called = {calls[k][1] : k \in 1..Len(calls)}
      BY <1>0 DEF Called
    <3>4. ASSUME NEW x PROVE x \in Called' <=> x \in Called \cup {onResponseCall}
      <4>1. ASSUME x \in Called' PROVE x \in Called \cup {onResponseCall}
        <5>1. PICK k \in 1..(Len(calls) + 1) : x = calls'[k][1]
          BY <3>2, <4>1
        <5>2. CASE k \in 1..Len(calls)
          BY <2>3, <3>3, <5>1, <5>2
        <5>3. CASE k = Len(calls) + 1
          BY <2>2, <2>3, <5>1, <5>3
        <5> QED
          BY <1>0, <5>1, <5>2, <5>3
      <4>2. ASSUME x \in Called PROVE x \in Called'
        <5>1. PICK k \in 1..Len(calls) : x = calls[k][1]
          BY <3>3, <4>2
        <5>2. k \in 1..(Len(calls) + 1) /\ x = calls'[k][1]
          BY <1>0, <2>3, <5>1
        <5> QED
          BY <3>2, <5>2
      <4>3. onResponseCall \in Called'
        <5>1. Len(calls) + 1 \in 1..(Len(calls) + 1) /\ calls'[Len(calls) + 1][1] = onResponseCall
          BY <1>0, <2>2, <2>3
        <5> QED
          BY <3>2, <5>1
      <4> QED
        BY <4>1, <4>2, <4>3
    <3> QED
      BY <3>4
  <2> QED
    BY <1>2, <2>1, <2>3, <2>4, <2>5, <2>6, <2>7 DEF c
<1> QED
  BY <1>1, <1>2

\* Only the request that is called back and the one it issues change Pending.
LEMMA PendingFacts ==
  ASSUME TypeOK, OrderInv, NEW more \in Hosts \cup {NoHost}, NEW answer \in Nat,
         CallBack(answer, more)
  PROVE  /\ Pending' \subseteq (Pending \ {onResponseCall})
                                \cup (IF more = NoHost THEN {} ELSE {Len(hosts) + 1})
         /\ ~overlap' /\ more # NoHost => Pending \ {onResponseCall} = {}
         /\ overlap => overlap'
<1>1. /\ Issue(more, Pending \ {onResponseCall})
      /\ Called' = IF onResponseCall = NoReq THEN Called ELSE Called \cup {onResponseCall}
  BY CallBackFacts
<1>2. /\ Issued' = IF more = NoHost THEN Issued ELSE Issued \cup {Len(hosts) + 1}
      /\ overlap => overlap'
      /\ ~overlap' /\ more # NoHost => Pending \ {onResponseCall} = {}
  BY <1>1, IssueFacts
<1>3. NoReq \notin Issued
  BY LenProperties DEF Issued, TypeOK, NoReq
<1>4. Pending' = Issued' \ Called'
  BY DEF Pending
<1> QED
  BY <1>1, <1>2, <1>3, <1>4 DEF Pending
-----------------------------------------------------------------------------
(* The queue and the order of the callbacks.                               *)

\* The queue after a request has been issued, or none.
LEMMA QueuedInv ==
  ASSUME TypeOK, QueueInv, NEW more \in Hosts \cup {NoHost}, NEW P, Issue(more, P),
         queue' = Queued(more), Trying' => Trying, pc' = "connect" => addrs' > 0
  PROVE  /\ queue' \in QueueSeq
         /\ QueueInv'
         /\ \A r \in Issued : Passed(r) => r \in Issued' /\ Passed(r)'
<1>1. /\ queue' \in QueueSeq
      /\ Len(queue') = IF more = NoHost THEN Len(queue) ELSE Len(queue) + 1
      /\ \A i \in 1..Len(queue) : queue'[i] = queue[i]
      /\ \A i \in 1..Len(queue') : queue'[i].req \in Issued'
      /\ \A i, j \in 1..Len(queue') : i < j => queue'[i].req < queue'[j].req
      /\ \A i \in 1..Len(queue') : i > 1 => queue'[i].questCount = 0
      /\ Len(queue) \in Nat
  BY QueuedFacts
<1>2. queue # << >> => Len(queue) > 0
  BY <1>1, EmptySeq DEF TypeOK
<1>3. Trying' => queue' # << >> /\ queue'[1].questCount = 1
  <2>1. CASE Trying
    <3>1. 1 \in 1..Len(queue) /\ queue[1].questCount = 1
      BY <1>1, <1>2, <2>1 DEF QueueInv
    <3>2. queue'[1] = queue[1] /\ Len(queue') > 0
      BY <1>1, <3>1
    <3> QED
      BY <3>1, <3>2
  <2> QED
    BY <2>1
<1>4. QueueInv'
  BY <1>1, <1>3 DEF QueueInv
<1>5. ASSUME NEW r \in Issued, Passed(r) PROVE r \in Issued' /\ Passed(r)'
  <2>1. \A i \in 1..Len(queue') :
           \/ r < queue'[i].req
           \/ /\ r = queue'[i].req /\ i = 1 /\ Len(queue) > 0
              /\ queue[1].questCount = 1 /\ ~Trying
    BY <1>5, PassedQueued
  <2>2. Len(queue) > 0 => queue'[1] = queue[1]
    BY <1>1
  <2>3. r \in Issued'
    BY IssueFacts
  <2> QED
    BY <2>1, <2>2, <2>3 DEF Passed
<1> QED
  BY <1>1, <1>4, <1>5

\* The queue after that and a pop; what it has passed is passed for good.
LEMMA PoppedInv ==
  ASSUME TypeOK, QueueInv, NEW more \in Hosts \cup {NoHost}, NEW P, Issue(more, P),
         queue' = IF Queued(more) = << >> THEN << >> ELSE Tail(Queued(more)),
         ~Trying'
  PROVE  /\ queue' \in QueueSeq
         /\ QueueInv'
         /\ \A r \in Issued : Passed(r) =>
               r \in Issued' /\ \A i \in 1..Len(queue') : r < queue'[i].req
<1> DEFINE q == Queued(more)
<1>1. /\ q \in QueueSeq
      /\ \A i \in 1..Len(q) : q[i].req \in Issued'
      /\ \A i, j \in 1..Len(q) : i < j => q[i].req < q[j].req
      /\ \A i \in 1..Len(q) : i > 1 => q[i].questCount = 0
  BY QueuedFacts
<1>2. \A r \in Issued : Passed(r) => \A i \in 1..Len(q) : r < q[i].req \/ i = 1
  BY PassedQueued
<1>3. \A r \in Issued : r \in Issued'
  BY IssueFacts
<1>4. pc' # "connect"
  BY DEF Trying
<1> HIDE DEF q
<1>5. CASE q = << >>
  <2>1. queue' = << >>
    BY <1>5 DEF q
  <2>2. Len(queue') = 0 /\ queue' \in QueueSeq
    BY <2>1, EmptySeq DEF QueueSeq
  <2> QED
    BY <1>3, <1>4, <2>2 DEF QueueInv
<1>6. CASE q # << >>
  <2>1. /\ queue' \in QueueSeq /\ Len(queue') = Len(q) - 1
        /\ \A i \in 1..(Len(q) - 1) : queue'[i] = q[i + 1]
        /\ Len(q) \in Nat \ {0}
    BY <1>1, <1>6, TailFacts DEF q, QueueSeq
  <2>2. \A i \in 1..Len(queue') : i + 1 \in 1..Len(q) /\ i + 1 > 1 /\ i + 1 # 1 /\ queue'[i] = q[i + 1]
    <3> DEFINE n == Len(q)
    <3>1. n \in Nat \ {0} /\ Len(queue') = n - 1 /\ \A i \in 1..(n - 1) : queue'[i] = q[i + 1]
      BY <2>1
    <3> HIDE DEF n
    <3>2. ASSUME NEW i \in 1..Len(queue')
          PROVE  i + 1 \in 1..n /\ i + 1 > 1 /\ i + 1 # 1 /\ queue'[i] = q[i + 1]
      <4>1. i \in 1..(n - 1)
        BY <3>1
      <4>2. i + 1 \in 1..n /\ i + 1 > 1 /\ i + 1 # 1
        BY ONLY <3>1, <4>1
      <4> QED
        BY <3>1, <4>1, <4>2
    <3> QED
      BY <3>2 DEF n
  <2>3. \A i, j \in 1..Len(queue') : i < j => queue'[i].req < queue'[j].req
    <3>1. ASSUME NEW i \in 1..Len(queue'), NEW j \in 1..Len(queue'), i < j
          PROVE  queue'[i].req < queue'[j].req
      <4>1. i + 1 < j + 1
        BY <2>1, <3>1
      <4> QED
        BY <1>1, <2>2, <4>1
    <3> QED
      BY <3>1
  <2>4. QueueInv'
    <3>1. \A i \in 1..Len(queue') : queue'[i].req \in Issued' /\ queue'[i].questCount = 0
      BY <1>1, <2>2
    <3> QED
      BY <1>4, <2>3, <3>1 DEF QueueInv
  <2>5. ASSUME NEW r \in Issued, Passed(r), NEW i \in 1..Len(queue')
        PROVE  r < queue'[i].req
    <3>1. i + 1 \in 1..Len(q) /\ i + 1 # 1 /\ queue'[i] = q[i + 1]
      BY ONLY <2>2, <2>5
    <3>2. r < q[i + 1].req \/ i + 1 = 1
      BY <1>2, <2>5, <3>1
    <3> QED
      BY <3>1, <3>2
  <2> QED
    BY <1>3, <2>1, <2>4, <2>5
<1> QED
  BY <1>5, <1>6

\* OrderInv after a callback, whether or not the queue is popped.
LEMMA CallBackOrder ==
  ASSUME TypeOK, OrderInv, NEW more \in Hosts \cup {NoHost}, NEW answer \in Nat,
         CallBack(answer, more),
         \A r \in Issued : Passed(r) => r \in Issued' /\ Passed(r)'
  PROVE  OrderInv'
<1>1. /\ onResponseCall' = NoReq
      /\ \A i, j \in 1..Len(calls') : i < j => calls'[i][1] < calls'[j][1]
      /\ \A k \in 1..Len(calls') : calls'[k][1] \in Issued /\ Passed(calls'[k][1])
  BY CallBackFacts
<1>2. \A k \in 1..Len(calls') : calls'[k][1] \in Issued' /\ Passed(calls[k][1])'
  BY <1>1 DEF Passed
<1> QED
  BY <1>1, <1>2 DEF OrderInv

\* OrderInv when no callback is called.
LEMMA SameOrder ==
  ASSUME OrderInv, UNCHANGED <<calls, onResponseCall>>,
         \A r \in Issued : Passed(r) => r \in Issued' /\ Passed(r)'
  PROVE  OrderInv'
BY DEF OrderInv

HistoryTypes ==
    /\ queue \in QueueSeq
    /\ bNextRequest \in BOOLEAN
    /\ onResponseCall \in Nat
    /\ hosts \in Seq(Hosts)
    /\ calls \in Seq((Nat \ {0}) \X Nat)
    /\ overlap \in BOOLEAN

\* A step that leaves the queue and the callbacks alone.
LEMMA QuietOrder ==
  ASSUME TypeOK, QueueInv, OrderInv, UNCHANGED <<queue, onResponseCall, history>>,
         bNextRequest' \in BOOLEAN, Trying' => Trying, pc' = "connect" => addrs' > 0
  PROVE  HistoryTypes' /\ QueueInv' /\ OrderInv'
<1>1. Issue(NoHost, {}) /\ queue' = Queued(NoHost)
  BY DEF Issue, Queued, history
<1>2. /\ queue' \in QueueSeq /\ QueueInv'
      /\ \A r \in Issued : Passed(r) => r \in Issued' /\ Passed(r)'
  BY <1>1, QueuedInv
<1>3. OrderInv'
  BY <1>2, SameOrder DEF history
<1> QED
  BY <1>2, <1>3 DEF HistoryTypes, TypeOK, history

LEMMA DisconnectOrder ==
  ASSUME TypeOK, QueueInv, OrderInv, NEW more \in Hosts \cup {NoHost}, OnDisConnect(more),
         Trying' => Trying, pc' = "connect" => addrs' > 0
  PROVE  HistoryTypes' /\ QueueInv' /\ OrderInv'
<1>1. CallBack(NoReq, more) /\ queue' = Queued(more) /\ bNextRequest' = TRUE /\ NoReq \in Nat
  BY DEF OnDisConnect, NoReq
<1>2. /\ Issue(more, Pending \ {onResponseCall}) /\ onResponseCall' = NoReq
      /\ calls' \in Seq((Nat \ {0}) \X Nat)
  BY <1>1, CallBackFacts
<1>3. /\ queue' \in QueueSeq /\ QueueInv'
      /\ \A r \in Issued : Passed(r) => r \in Issued' /\ Passed(r)'
  BY <1>1, <1>2, QueuedInv
<1>4. OrderInv'
  BY <1>1, <1>3, CallBackOrder
<1>5. hosts' \in Seq(Hosts) /\ overlap' \in BOOLEAN
  BY <1>2, IssueFacts
<1> QED
  BY <1>1, <1>2, <1>3, <1>4, <1>5 DEF HistoryTypes

LEMMA CloseOldOrder ==
  ASSUME TypeOK, QueueInv, OrderInv, NEW more \in Hosts \cup {NoHost}, CloseOld(more),
         Trying' => Trying, pc' = "connect" => addrs' > 0
  PROVE  HistoryTypes' /\ QueueInv' /\ OrderInv'
<1>1. CASE client = "none"
  <2>1. UNCHANGED <<queue, bNextRequest, onResponseCall, history>>
    BY <1>1 DEF CloseOld
  <2> QED
    BY <2>1, QuietOrder DEF TypeOK
<1>2. CASE client # "none"
  BY <1>2, DisconnectOrder DEF CloseOld
<1> QED
  BY <1>1, <1>2

LEMMA AnsweredOrder ==
  ASSUME TypeOK, QueueInv, OrderInv, NEW more \in Hosts \cup {NoHost}, Answered(more), ~Trying'
  PROVE  HistoryTypes' /\ QueueInv' /\ OrderInv'
<1>1. /\ CallBack(Head(answers).req, more) /\ answers # << >> /\ bNextRequest' = TRUE
      /\ queue' = IF Queued(more) = << >> THEN << >> ELSE Tail(Queued(more))
  BY DEF Answered
<1>2. Head(answers).req \in Nat
  <2>1. Head(answers) \in [req : Nat \ {0}, keep : BOOLEAN]
    BY <1>1, HeadTailProperties DEF TypeOK
  <2> QED
    BY <2>1
<1>3. /\ Issue(more, Pending \ {onResponseCall}) /\ onResponseCall' = NoReq
      /\ calls' \in Seq((Nat \ {0}) \X Nat)
  BY <1>1, <1>2, CallBackFacts
<1>4. /\ queue' \in QueueSeq /\ QueueInv'
      /\ \A r \in Issued : Passed(r) =>
            r \in Issued' /\ \A i \in 1..Len(queue') : r < queue'[i].req
  BY <1>1, <1>3, PoppedInv
<1>5. \A r \in Issued : Passed(r) => r \in Issued' /\ Passed(r)'
  BY <1>4 DEF Passed
<1>6. OrderInv'
  BY <1>1, <1>2, <1>5, CallBackOrder
<1>7. hosts' \in Seq(Hosts) /\ overlap' \in BOOLEAN
  BY <1>3, IssueFacts
<1> QED
  BY <1>1, <1>3, <1>4, <1>6, <1>7 DEF HistoryTypes, NoReq

LEMMA GetOrder ==
  ASSUME TypeOK, QueueInv, OrderInv, NEW h \in Hosts, get(h)
  PROVE  HistoryTypes' /\ QueueInv' /\ OrderInv'
<1>1. /\ Issue(h, Pending) /\ queue' = Queued(h) /\ bNextRequest' = TRUE
      /\ UNCHANGED <<onResponseCall, calls, pc>> /\ pc = "idle"
  BY DEF get
<1>2. (Trying' => Trying) /\ (pc' = "connect" => addrs' > 0) /\ h \in Hosts \cup {NoHost}
  BY <1>1 DEF Trying
<1>3. /\ queue' \in QueueSeq /\ QueueInv'
      /\ \A r \in Issued : Passed(r) => r \in Issued' /\ Passed(r)'
  BY <1>1, <1>2, QueuedInv
<1>4. OrderInv'
  BY <1>1, <1>3, SameOrder
<1>5. hosts' \in Seq(Hosts) /\ overlap' \in BOOLEAN
  BY <1>1, <1>2, IssueFacts
<1> QED
  BY <1>1, <1>3, <1>4, <1>5 DEF HistoryTypes, TypeOK

LEMMA NextDropOrder ==
  ASSUME TypeOK, QueueInv, OrderInv, NextDrop
  PROVE  HistoryTypes' /\ QueueInv' /\ OrderInv'
<1>1. /\ queue # << >> /\ queue' = Tail(queue) /\ pc' = "poll"
      /\ UNCHANGED <<bNextRequest, onResponseCall, history>>
  BY DEF NextDrop
<1>2. /\ Issue(NoHost, {}) /\ Queued(NoHost) = queue /\ ~Trying'
  BY <1>1 DEF Issue, Queued, history, Trying
<1>3. /\ queue' \in QueueSeq /\ QueueInv'
      /\ \A r \in Issued : Passed(r) =>
            r \in Issued' /\ \A i \in 1..Len(queue') : r < queue'[i].req
  BY <1>1, <1>2, PoppedInv
<1>4. \A r \in Issued : Passed(r) => r \in Issued' /\ Passed(r)'
  BY <1>3 DEF Passed
<1>5. OrderInv'
  BY <1>1, <1>4, SameOrder DEF history
<1> QED
  BY <1>1, <1>3, <1>5 DEF HistoryTypes, TypeOK, history

\* The request in front is tried for the first time: it has not been called.
LEMMA NextTryOrder ==
  ASSUME TypeOK, QueueInv, OrderInv, NextTry
  PROVE  HistoryTypes' /\ QueueInv' /\ OrderInv'
<1>1. /\ queue # << >> /\ ~TriedEnough /\ pc = "idle" /\ bNextRequest' = FALSE
      /\ queue' = [queue EXCEPT ![1].questCount = @ + 1]
      /\ UNCHANGED <<onResponseCall, history>>
  BY DEF NextTry
<1>2. queue \in QueueSeq /\ Len(queue) \in Nat \ {0} /\ Head(queue) = queue[1]
  BY <1>1, TailFacts DEF TypeOK, QueueSeq
<1>3. queue[1] \in [req : Nat \ {0}, questCount : 0..maxQuestCount] /\ queue[1].questCount = 0
  <2>0. 1 \in 1..Len(queue) /\ queue \in Seq([req : Nat \ {0}, questCount : 0..maxQuestCount])
    BY <1>2 DEF QueueSeq
  <2>1. queue[1] \in [req : Nat \ {0}, questCount : 0..maxQuestCount]
    BY ONLY <2>0, ElementOfSeq
  <2> QED
    BY <1>1, <1>2, <2>1 DEF TriedEnough, maxQuestCount
<1>4. /\ queue' \in QueueSeq /\ Len(queue') = Len(queue)
      /\ \A i \in 1..Len(queue) : queue'[i].req = queue[i].req
      /\ \A i \in 1..Len(queue) : i > 1 => queue'[i] = queue[i]
      /\ queue'[1].questCount = 1
  <2> DEFINE e == [queue[1] EXCEPT !.questCount = @ + 1]
  <2>1. queue' = [queue EXCEPT ![1] = e]
    BY <1>1
  <2>2. /\ e \in [req : Nat \ {0}, questCount : 0..maxQuestCount]
        /\ e.req = queue[1].req /\ e.questCount = 1
    BY <1>3 DEF maxQuestCount
  <2> HIDE DEF e
  <2>3. queue' \in QueueSeq /\ Len(queue') = Len(queue)
    BY <1>2, <2>1, <2>2, ExceptSeq DEF QueueSeq
  <2>4. \A i \in 1..Len(queue) : queue'[i] = IF i = 1 THEN e ELSE queue[i]
    BY <1>2, <2>1, <2>2, ExceptSeq DEF QueueSeq
  <2> QED
    BY <1>2, <2>2, <2>3, <2>4
<1>5. /\ pc' = "connect" => addrs' > 0
      /\ queue' # << >>
  BY <1>2, <1>4, EmptySeq, HttpBoundsAssumption DEF NextTry, QueueSeq
<1>6. Issued' = Issued
  BY <1>1 DEF Issued, history
<1>7. QueueInv'
  BY <1>4, <1>5, <1>6 DEF QueueInv
<1>8. \A r \in Issued : Passed(r) => r \in Issued' /\ Passed(r)'
  BY <1>2, <1>3, <1>4, <1>6 DEF Passed
<1>9. OrderInv'
  BY <1>1, <1>8, SameOrder DEF history
<1> QED
  BY <1>1, <1>4, <1>7, <1>9 DEF HistoryTypes, TypeOK, history

\* The callback that is set now belongs to a later request than any before.
LEMMA RequestOrder ==
  ASSUME TypeOK, QueueInv, OrderInv, Request
  PROVE  HistoryTypes' /\ QueueInv' /\ OrderInv'
<1>1. /\ pc = "request" /\ pc' = "poll" /\ onResponseCall' = Head(queue).req
      /\ UNCHANGED <<queue, bNextRequest, history>>
  BY DEF Request, Front
<1>2. /\ Len(queue) \in Nat \ {0} /\ Head(queue) = queue[1] /\ queue[1].questCount = 1
      /\ Trying /\ ~Trying' /\ pc' # "connect"
  <2>1. Trying /\ ~Trying' /\ pc' # "connect"
    BY <1>1 DEF Trying
  <2>2. queue # << >> /\ queue[1].questCount = 1
    BY <2>1 DEF QueueInv
  <2> QED
    BY <2>1, <2>2, TailFacts DEF TypeOK
<1>3. /\ Issued' = Issued /\ Len(hosts) \in Nat /\ Issued = 1..Len(hosts)
      /\ queue[1].req \in Issued
  BY <1>1, <1>2, LenProperties DEF Issued, history, QueueInv, TypeOK
<1>4. QueueInv'
  BY <1>1, <1>2, <1>3 DEF QueueInv
<1>5. Passed(queue[1].req)'
  BY <1>1, <1>2 DEF QueueInv, Passed
<1>6. \A r \in Issued : Passed(r) => r < queue[1].req /\ Passed(r)'
  BY <1>1, <1>2 DEF Passed
<1>7. OrderInv'
  <2>1. onResponseCall' \in Issued' /\ Passed(onResponseCall)'
    BY <1>1, <1>2, <1>3, <1>5 DEF Passed
  <2>2. \A k \in 1..Len(calls) :
           calls[k][1] \in Issued' /\ Passed(calls[k][1])' /\ calls[k][1] < onResponseCall'
    BY <1>1, <1>2, <1>3, <1>6 DEF OrderInv, Passed, history
  <2> QED
    BY <1>1, <2>1, <2>2 DEF OrderInv, history
<1> QED
  BY <1>1, <1>2, <1>3, <1>4, <1>7 DEF HistoryTypes, TypeOK, history, QueueSeq

LEMMA OrderStep ==
  ASSUME TypeOK, QueueInv, OrderInv, Next
  PROVE  HistoryTypes' /\ QueueInv' /\ OrderInv'
<1>0. bNextRequest \in BOOLEAN /\ addrs \in Nat
  BY HttpBoundsAssumption DEF TypeOK
<1>1. ASSUME NEW h \in Hosts, get(h) PROVE HistoryTypes' /\ QueueInv' /\ OrderInv'
  BY <1>1, GetOrder
<1>2. CASE NextNone
  <2>1. bNextRequest' = FALSE /\ pc' = "poll" /\ UNCHANGED <<queue, onResponseCall, history>>
    BY <1>2 DEF NextNone
  <2> QED
    BY <2>1, QuietOrder DEF Trying
<1>3. CASE NextDrop
  BY <1>3, NextDropOrder
<1>4. CASE NextTry
  BY <1>4, NextTryOrder
<1>5. CASE SkipAddress
  <2>1. /\ UNCHANGED <<queue, bNextRequest, onResponseCall, history>> /\ pc = "connect"
        /\ addrs' = addrs - 1 /\ pc' = IF addrs = 1 THEN "poll" ELSE "connect"
    BY <1>5 DEF SkipAddress
  <2>2. pc' = "connect" => addrs' > 0
    BY <1>0, <2>1 DEF QueueInv
  <2> QED
    BY <1>0, <2>1, <2>2, QuietOrder DEF Trying
<1>6. CASE Request
  BY <1>6, RequestOrder
<1>7. CASE PollIdle \/ Recv \/ MsgEnd \/ Send \/ \E in, out \in BOOLEAN : Poll(in, out)
  <2>1. /\ UNCHANGED <<queue, bNextRequest, onResponseCall, history>>
        /\ pc' \in {"idle", "msg", "send", "recv"}
    BY <1>7 DEF PollIdle, Recv, MsgEnd, Send, Poll
  <2> QED
    BY <1>0, <2>1, QuietOrder DEF Trying
<1>8. ASSUME NEW more \in Hosts \cup {NoHost}, NEW result \in {"none", "made"},
             Connect(more) \/ ConnectFail(result, more)
      PROVE  HistoryTypes' /\ QueueInv' /\ OrderInv'
  <2>1. CloseOld(more) /\ pc = "connect"
    BY <1>8 DEF Connect, ConnectFail
  <2>2. pc' = "connect" => addrs' > 0
    BY <1>0, <1>8, <2>1 DEF Connect, ConnectFail, QueueInv
  <2> QED
    BY <2>1, <2>2, CloseOldOrder DEF Trying
<1>9. ASSUME NEW more \in Hosts \cup {NoHost}, LinkError(more)
      PROVE  HistoryTypes' /\ QueueInv' /\ OrderInv'
  <2>1. OnDisConnect(more) /\ pc' = "idle"
    BY <1>9 DEF LinkError, Close
  <2> QED
    BY <2>1, DisconnectOrder DEF Trying
<1>10. ASSUME NEW more \in Hosts \cup {NoHost}, OnNetMsg(more) \/ OnNetMsgClose(more)
       PROVE  HistoryTypes' /\ QueueInv' /\ OrderInv'
  <2>1. Answered(more) /\ pc' \in {"msg", "idle", "crashed"}
    BY <1>10 DEF OnNetMsg, OnNetMsgClose, Answered
  <2> QED
    BY <2>1, AnsweredOrder DEF Trying
<1>11. CASE ServerClose \/ \E keep \in BOOLEAN : Answer(keep)
  <2>1. UNCHANGED <<queue, bNextRequest, onResponseCall, history, pc, addrs>>
    BY <1>11 DEF ServerClose, Answer
  <2>2. (Trying' => Trying) /\ (pc' = "connect" => addrs' > 0)
    BY <2>1 DEF Trying, QueueInv
  <2> QED
    BY <1>0, <2>1, <2>2, QuietOrder
<1> QED
  BY <1>1, <1>2, <1>3, <1>4, <1>5, <1>6, <1>7, <1>8, <1>9, <1>10, <1>11 DEF Next, OnRun
-----------------------------------------------------------------------------
(* The connection.                                                         *)

LinkTypes ==
    /\ hostBack \in Hosts \cup {NoHost}
    /\ client \in {"none", "made", "run"}
    /\ sendBuff \in Seq(Nat \ {0}) /\ Len(sendBuff) <= SendSlots
    /\ asked \in Seq(Nat \ {0})
    /\ answers \in Seq([req : Nat \ {0}, keep : BOOLEAN])
    /\ peer \in BOOLEAN
    /\ pc \in ThreadState
    /\ writable \in BOOLEAN
    /\ addrs \in 0..MaxAddrs
    /\ fails \in 0..MaxFails /\ drops \in 0..MaxDrops

\* What has been issued keeps its host, and the front of the queue its place,
\* in a step of InitSocket.
LEMMA CloseOldFront ==
  ASSUME TypeOK, QueueInv, OrderInv, NEW more \in Hosts \cup {NoHost}, CloseOld(more)
  PROVE  /\ \A r \in Issued : r \in Issued' /\ hosts'[r] = hosts[r]
         /\ queue # << >> => queue' # << >> /\ queue'[1] = queue[1]
<1>1. CASE client = "none"
  <2>1. UNCHANGED <<queue, hosts>>
    BY <1>1 DEF CloseOld, history
  <2> QED
    BY <2>1 DEF Issued
<1>2. CASE client # "none"
  <2>1. CallBack(NoReq, more) /\ queue' = Queued(more) /\ NoReq \in Nat
    BY <1>2 DEF CloseOld, OnDisConnect, NoReq
  <2>2. Issue(more, Pending \ {onResponseCall})
    BY <2>1, CallBackFacts
  <2>3. /\ Len(queue') = IF more = NoHost THEN Len(queue) ELSE Len(queue) + 1
        /\ \A i \in 1..Len(queue) : queue'[i] = queue[i]
        /\ Len(queue) \in Nat /\ queue' \in QueueSeq
    BY <2>1, <2>2, QueuedFacts
  <2>4. queue # << >> => Len(queue) > 0
    BY <2>3, EmptySeq DEF TypeOK
  <2>5. queue # << >> => queue' # << >> /\ queue'[1] = queue[1]
    BY <2>3, <2>4, EmptySeq
  <2> QED
    BY <2>2, <2>5, IssueFacts
<1> QED
  BY <1>1, <1>2

LEMMA HostsGrow ==
  ASSUME TypeOK, QueueInv, OrderInv, Next
  PROVE  \A r \in Issued : r \in Issued' /\ hosts'[r] = hosts[r]
<1> DEFINE Grow == \A r \in Issued : r \in Issued' /\ hosts'[r] = hosts[r]
<1>1. ASSUME NEW h \in Hosts, get(h) PROVE Grow
  <2>1. Issue(h, Pending) /\ h \in Hosts \cup {NoHost}
    BY <1>1 DEF get
  <2> QED
    BY <2>1, IssueFacts
<1>2. ASSUME NEW more \in Hosts \cup {NoHost}, NEW answer \in Nat, CallBack(answer, more)
      PROVE  Grow
  <2>1. Issue(more, Pending \ {onResponseCall})
    BY <1>2, CallBackFacts
  <2> QED
    BY <2>1, IssueFacts
<1>3. ASSUME NEW more \in Hosts \cup {NoHost},
             LinkError(more) \/ OnNetMsg(more) \/ OnNetMsgClose(more)
      PROVE  Grow
  <2>1. CASE LinkError(more)
    BY <1>2, <2>1 DEF LinkError, Close, OnDisConnect, NoReq
  <2>2. CASE ~LinkError(more)
    <3>1. Answered(more) /\ answers # << >>
      BY <1>3, <2>2 DEF OnNetMsg, OnNetMsgClose, Answered
    <3>2. Head(answers) \in [req : Nat \ {0}, keep : BOOLEAN]
      BY <3>1, HeadTailProperties DEF TypeOK
    <3>3. Head(answers).req \in Nat /\ CallBack(Head(answers).req, more)
      BY <3>1, <3>2 DEF Answered
    <3> QED
      BY <1>2, <3>3
  <2> QED
    BY <2>1, <2>2
<1>4. ASSUME NEW more \in Hosts \cup {NoHost}, CloseOld(more) PROVE Grow
  BY <1>4, CloseOldFront
<1>5. ASSUME UNCHANGED hosts PROVE Grow
  BY <1>5 DEF Issued
<1> HIDE DEF Grow
<1>6. Grow
  BY <1>1, <1>3, <1>4, <1>5
     DEF Next, OnRun, NextNone, NextDrop, NextTry, SkipAddress, Request, PollIdle, Recv,
         MsgEnd, Send, Poll, Connect, ConnectFail, Answer, ServerClose, history
<1> QED
  BY <1>6 DEF Grow

\* The three places of a connection after a step that leaves its host alone.
LEMMA SameHost ==
  ASSUME TypeOK, QueueInv, OrderInv, LinkInv, Next, UNCHANGED hostBack, NEW r, ToHost(r)
  PROVE  ToHost(r)'
BY HostsGrow DEF ToHost

LinkFree == sendBuff = << >> /\ asked = << >> /\ answers = << >>

LEMMA FreeLink ==
  ASSUME LinkFree'
  PROVE  /\ sendBuff' \in Seq(Nat \ {0}) /\ Len(sendBuff') <= SendSlots
         /\ asked' \in Seq(Nat \ {0}) /\ answers' \in Seq([req : Nat \ {0}, keep : BOOLEAN])
         /\ Len(sendBuff') = 0 /\ Len(asked') = 0 /\ Len(answers') = 0
BY EmptySeq, SlotsAssumption DEF LinkFree

LEMMA LinkStep ==
  ASSUME TypeOK, QueueInv, OrderInv, LinkInv, Next
  PROVE  LinkTypes' /\ LinkInv'
<1> DEFINE Keeps ==
             /\ \A i \in 1..Len(sendBuff') : ToHost(sendBuff'[i])
             /\ \A i \in 1..Len(asked') : ToHost(asked'[i])
             /\ \A i \in 1..Len(answers') : ToHost(answers'[i].req)
<1>0. /\ sendBuff \in Seq(Nat \ {0}) /\ asked \in Seq(Nat \ {0})
      /\ answers \in Seq([req : Nat \ {0}, keep : BOOLEAN]) /\ addrs \in 0..MaxAddrs
      /\ Len(sendBuff) \in Nat /\ Len(asked) \in Nat /\ Len(answers) \in Nat
      /\ SendSlots \in Nat /\ MaxAddrs \in Nat /\ MaxFails \in Nat /\ MaxDrops \in Nat
  BY LenProperties, SlotsAssumption, HttpBoundsAssumption DEF TypeOK
<1>1. ASSUME Keeps, UNCHANGED hostBack,
             pc' = "request" /\ client' = "run" => hostBack' = hosts'[queue'[1].req]
      PROVE  LinkInv'
  <2>1. \A r : ToHost(r) => ToHost(r)'
    BY <1>1, SameHost
  <2> QED
    BY <1>1, <2>1 DEF LinkInv, ToHost
<1>2. ASSUME NEW h \in Hosts, get(h) PROVE LinkTypes' /\ LinkInv'
  <2>1. UNCHANGED <<hostBack, link, pc, writable, addrs, fails, drops>> /\ pc = "idle"
    BY <1>2 DEF get
  <2>2. Keeps
    BY <2>1 DEF LinkInv, link
  <2> QED
    BY <1>1, <2>1, <2>2 DEF LinkTypes, TypeOK, link
<1>3. CASE NextTry
  <2>1. /\ UNCHANGED <<hostBack, link, writable, drops, hosts>> /\ queue # << >>
        /\ \/ Connected /\ pc' = "request" /\ UNCHANGED <<addrs, fails>>
           \/ pc' = "connect" /\ addrs' \in 1..MaxAddrs /\ UNCHANGED fails
           \/ pc' = "poll" /\ fails < MaxFails /\ fails' = fails + 1 /\ UNCHANGED addrs
    BY <1>3 DEF NextTry, history
  <2>2. Keeps
    BY <2>1 DEF LinkInv, link
  <2>3. queue'[1].req = Front
    <3>1. queue \in QueueSeq /\ Len(queue) \in Nat \ {0} /\ Head(queue) = queue[1]
      BY <2>1, TailFacts DEF TypeOK, QueueSeq
    <3>2. 1 \in 1..Len(queue) /\ queue \in Seq([req : Nat \ {0}, questCount : 0..maxQuestCount])
      BY <3>1 DEF QueueSeq
    <3>3. queue[1] \in [req : Nat \ {0}, questCount : 0..maxQuestCount]
      BY ONLY <3>2, ElementOfSeq
    <3>4. queue'[1] = [queue[1] EXCEPT !.questCount = @ + 1]
      <4>1. queue' = [queue EXCEPT ![1].questCount = @ + 1]
        BY <1>3 DEF NextTry
      <4> QED
        BY <3>2, <4>1
    <3> QED
      BY <3>1, <3>3, <3>4 DEF Front
  <2>4. pc' = "request" => hostBack' = hosts'[queue'[1].req]
    BY <2>1, <2>3 DEF Connected
  <2>5. addrs' \in 0..MaxAddrs /\ fails' \in 0..MaxFails
    <3>1. /\ addrs' = addrs \/ addrs' \in 1..MaxAddrs
          /\ fails' = fails \/ (fails < MaxFails /\ fails' = fails + 1)
      BY <2>1
    <3>2. /\ MaxAddrs \in Nat /\ MaxFails \in Nat
          /\ addrs \in 0..MaxAddrs /\ fails \in 0..MaxFails
      BY <1>0 DEF TypeOK
    <3>3. addrs' \in 0..MaxAddrs
      BY ONLY <3>1, <3>2
    <3>4. fails' \in 0..MaxFails
      BY ONLY <3>1, <3>2
    <3> QED
      BY <3>3, <3>4
  <2>6. LinkTypes'
    BY <2>1, <2>5 DEF LinkTypes, TypeOK, link, ThreadState
  <2> QED
    BY <1>1, <2>1, <2>2, <2>4, <2>6
<1>4. CASE NextNone \/ NextDrop \/ SkipAddress \/ PollIdle \/ Recv \/ MsgEnd
           \/ \E in, out \in BOOLEAN : Poll(in, out)
  <2>1. /\ UNCHANGED <<hostBack, link, drops>> /\ writable' \in BOOLEAN
        /\ pc' \in ThreadState \ {"request"}
    BY <1>4 DEF NextNone, NextDrop, SkipAddress, PollIdle, Recv, MsgEnd, Poll, ThreadState, TypeOK
  <2>2. addrs' \in 0..MaxAddrs /\ fails' \in 0..MaxFails
    <3>1. CASE SkipAddress
      <4>1. addrs > 0 /\ addrs' = addrs - 1 /\ fails < MaxFails /\ fails' = fails + 1
        BY <3>1 DEF SkipAddress, QueueInv
      <4> QED
        BY <1>0, <4>1 DEF TypeOK
    <3>2. CASE ~SkipAddress
      BY <1>4, <3>2 DEF NextNone, NextDrop, PollIdle, Recv, MsgEnd, Poll, TypeOK
    <3> QED
      BY <3>1, <3>2
  <2>3. Keeps
    BY <2>1 DEF LinkInv, link
  <2> QED
    BY <1>1, <2>1, <2>2, <2>3 DEF LinkTypes, TypeOK, link
<1>5. CASE Request
  <2>1. /\ pc = "request" /\ pc' = "poll"
        /\ sendBuff' = IF Fits THEN Append(sendBuff, Front) ELSE sendBuff
        /\ UNCHANGED <<hostBack, client, asked, answers, peer, writable, addrs, fails, drops>>
    BY <1>5 DEF Request
  <2>2. queue # << >>
    BY <2>1 DEF QueueInv, Trying
  <2>3. Head(queue) = queue[1] /\ Len(queue) \in Nat \ {0}
    BY <2>2, TailFacts DEF TypeOK
  <2>4. Front = queue[1].req /\ Front \in Issued /\ Front \in Nat \ {0}
    <3>1. 1 \in 1..Len(queue)
      BY ONLY <2>3
    <3>2. Front = queue[1].req /\ Front \in Issued
      BY <2>3, <3>1 DEF Front, QueueInv
    <3>3. Len(hosts) \in Nat
      BY LenProperties DEF TypeOK
    <3>4. Front \in 1..Len(hosts)
      BY <3>2 DEF Issued
    <3>5. Front \in Nat \ {0}
      BY ONLY <3>3, <3>4
    <3> QED
      BY <3>2, <3>5
  <2>5. CASE Fits
    <3>1. /\ sendBuff' \in Seq(Nat \ {0}) /\ Len(sendBuff') = Len(sendBuff) + 1
          /\ \A i \in 1..Len(sendBuff) : sendBuff'[i] = sendBuff[i]
          /\ sendBuff'[Len(sendBuff) + 1] = Front
      BY <1>0, <2>1, <2>4, <2>5, AppendFacts
    <3>2. client = "run" /\ Len(sendBuff) < SendSlots
      BY <2>5 DEF Fits
    <3>3. ToHost(Front)
      BY <2>1, <2>4, <3>2 DEF LinkInv, ToHost
    <3>4. \A i \in 1..Len(sendBuff') : i \in 1..Len(sendBuff) \/ i = Len(sendBuff) + 1
      BY <1>0, <3>1
    <3>5. Keeps
      BY <2>1, <3>1, <3>3, <3>4 DEF LinkInv
    <3>6. LinkTypes'
      BY <1>0, <2>1, <3>1, <3>2 DEF LinkTypes, TypeOK, ThreadState
    <3> QED
      BY <1>1, <2>1, <3>5, <3>6
  <2>6. CASE ~Fits
    <3>1. Keeps
      BY <2>1, <2>6 DEF LinkInv
    <3> QED
      BY <1>1, <2>1, <2>6, <3>1 DEF LinkTypes, TypeOK, ThreadState
  <2> QED
    BY <2>5, <2>6
<1>6. CASE Send
  <2>1. PICK n \in 0..Len(sendBuff) :
           /\ sendBuff' = SubSeq(sendBuff, n + 1, Len(sendBuff))
           /\ asked' = IF peer THEN asked \o SubSeq(sendBuff, 1, n) ELSE asked
    BY <1>6 DEF Send
  <2>2. /\ sendBuff' \in Seq(Nat \ {0}) /\ Len(sendBuff') = Len(sendBuff) - n
        /\ \A i \in 1..(Len(sendBuff) - n) : sendBuff'[i] = sendBuff[n + i]
    <3>1. n + 1 \in 1..(Len(sendBuff) + 1)
      BY <1>0
    <3> QED
      BY <1>0, <2>1, <3>1, SubSeqProperties
  <2>3. /\ asked' \in Seq(Nat \ {0})
        /\ \A i \in 1..Len(asked') :
              \/ i \in 1..Len(asked) /\ asked'[i] = asked[i]
              \/ \E j \in 1..Len(sendBuff) : asked'[i] = sendBuff[j]
    <3> DEFINE part == SubSeq(sendBuff, 1, n)
    <3>1. /\ part \in Seq(Nat \ {0}) /\ Len(part) = n
          /\ \A i \in 1..n : part[i] = sendBuff[i]
      BY <1>0, SubSeqProperties
    <3> HIDE DEF part
    <3>2. /\ asked \o part \in Seq(Nat \ {0}) /\ Len(asked \o part) = Len(asked) + n
          /\ \A i \in 1..(Len(asked) + n) :
                (asked \o part)[i] = IF i <= Len(asked) THEN asked[i] ELSE part[i - Len(asked)]
      BY <1>0, <3>1, ConcatProperties
    <3>3. CASE peer
      <4>1. asked' = asked \o part
        BY <2>1, <3>3 DEF part
      <4>2. ASSUME NEW i \in 1..Len(asked')
            PROVE  \/ i \in 1..Len(asked) /\ asked'[i] = asked[i]
                   \/ \E j \in 1..Len(sendBuff) : asked'[i] = sendBuff[j]
        <5>1. CASE i <= Len(asked)
          BY <1>0, <3>2, <4>1, <5>1
        <5>2. CASE ~(i <= Len(asked))
          <6>1. i - Len(asked) \in 1..n /\ i - Len(asked) \in 1..Len(sendBuff)
            BY <1>0, <3>2, <4>1, <5>2
          <6>2. asked'[i] = sendBuff[i - Len(asked)]
            BY <3>1, <3>2, <4>1, <5>2, <6>1
          <6> QED
            BY <6>1, <6>2
        <5> QED
          BY <5>1, <5>2
      <4> QED
        BY <3>2, <4>1, <4>2
    <3>4. CASE ~peer
      BY <1>0, <2>1, <3>4
    <3> QED
      BY <3>3, <3>4
  <2>4. /\ pc' = "idle"
        /\ UNCHANGED <<hostBack, client, answers, peer, writable, addrs, fails, drops>>
    BY <1>6 DEF Send
  <2>5. Keeps
    <3>1. \A i \in 1..Len(sendBuff') : n + i \in 1..Len(sendBuff) /\ sendBuff'[i] = sendBuff[n + i]
      BY <1>0, <2>2
    <3> QED
      BY <2>3, <2>4, <3>1 DEF LinkInv
  <2>6. LinkTypes'
    <3>1. Len(sendBuff') <= SendSlots
      BY <1>0, <2>2 DEF TypeOK
    <3> QED
      BY <2>2, <2>3, <2>4, <3>1 DEF LinkTypes, TypeOK, ThreadState
  <2> QED
    BY <1>1, <2>4, <2>5, <2>6
<1>7. ASSUME NEW more \in Hosts \cup {NoHost}, Connect(more) PROVE LinkTypes' /\ LinkInv'
  <2>1. /\ pc = "connect" /\ CloseOld(more) /\ LinkFree' /\ client' = "run" /\ peer' = TRUE
        /\ hostBack' = hosts[Front] /\ pc' = "request" /\ addrs' = 0
        /\ UNCHANGED <<writable, fails, drops>>
    BY <1>7 DEF Connect, DropBuffers, LinkFree
  <2>2. queue # << >>
    BY <2>1 DEF QueueInv, Trying
  <2>3. Head(queue) = queue[1] /\ Len(queue) \in Nat \ {0}
    BY <2>2, TailFacts DEF TypeOK
  <2>4. Front = queue[1].req /\ Front \in Issued /\ hosts[Front] \in Hosts
    <3>1. Front = queue[1].req /\ Front \in 1..Len(hosts)
      BY <2>3 DEF Front, QueueInv, Issued
    <3> QED
      BY <3>1, ElementOfSeq DEF Issued, TypeOK
  <2>5. queue'[1] = queue[1] /\ hosts'[Front] = hosts[Front]
    BY <2>1, <2>2, <2>4, CloseOldFront
  <2>6. LinkInv'
    BY <2>1, <2>4, <2>5, FreeLink DEF LinkInv
  <2>7. LinkTypes'
    BY <1>0, <2>1, <2>4, FreeLink DEF LinkTypes, TypeOK, ThreadState
  <2> QED
    BY <2>6, <2>7
<1>8. ASSUME NEW more \in Hosts \cup {NoHost}, NEW result \in {"none", "made"},
             ConnectFail(result, more)
      PROVE  LinkTypes' /\ LinkInv'
  <2>1. /\ pc = "connect" /\ LinkFree' /\ client' = result /\ peer' = FALSE
        /\ fails < MaxFails /\ fails' = fails + 1
        /\ addrs' = addrs - 1 /\ addrs > 0 /\ pc' \in {"request", "connect"}
        /\ UNCHANGED <<hostBack, writable, drops>>
    BY <1>8 DEF ConnectFail, DropBuffers, LinkFree, QueueInv
  <2>2. LinkInv'
    BY <2>1, FreeLink DEF LinkInv
  <2>3. addrs' \in 0..MaxAddrs /\ fails' \in 0..MaxFails
    BY <1>0, <2>1 DEF TypeOK
  <2>4. LinkTypes'
    BY <2>1, <2>3, FreeLink DEF LinkTypes, TypeOK, ThreadState
  <2> QED
    BY <2>2, <2>4
<1>9. ASSUME NEW more \in Hosts \cup {NoHost}, LinkError(more) \/ OnNetMsgClose(more)
      PROVE  LinkTypes' /\ LinkInv'
  <2>1. /\ LinkFree' /\ client' = "none" /\ peer' = FALSE /\ pc' \in {"idle", "crashed"}
        /\ writable' = FALSE /\ UNCHANGED <<hostBack, addrs, fails, drops>>
    BY <1>9 DEF LinkError, Close, OnNetMsgClose, Answered, DropBuffers, LinkFree
  <2>2. LinkInv'
    BY <2>1, FreeLink DEF LinkInv
  <2>3. LinkTypes'
    BY <2>1, FreeLink DEF LinkTypes, TypeOK, ThreadState
  <2> QED
    BY <2>2, <2>3
<1>10. ASSUME NEW more \in Hosts \cup {NoHost}, OnNetMsg(more) PROVE LinkTypes' /\ LinkInv'
  <2>1. /\ answers # << >> /\ answers' = Tail(answers) /\ pc = "msg"
        /\ UNCHANGED <<hostBack, client, sendBuff, asked, peer, pc, writable, addrs, fails, drops>>
    BY <1>10 DEF OnNetMsg, Answered
  <2>2. /\ answers' \in Seq([req : Nat \ {0}, keep : BOOLEAN]) /\ Len(answers') = Len(answers) - 1
        /\ \A i \in 1..(Len(answers) - 1) : answers'[i] = answers[i + 1]
    BY <1>0, <2>1, TailFacts
  <2>3. Keeps
    <3>1. \A i \in 1..Len(answers') : i + 1 \in 1..Len(answers) /\ answers'[i] = answers[i + 1]
      BY <1>0, <2>2
    <3> QED
      BY <2>1, <3>1 DEF LinkInv
  <2> QED
    BY <1>1, <2>1, <2>2, <2>3 DEF LinkTypes, TypeOK
<1>11. ASSUME NEW keep \in BOOLEAN, Answer(keep) PROVE LinkTypes' /\ LinkInv'
  <2> DEFINE a == [req |-> Head(asked), keep |-> keep]
  <2>1. /\ asked # << >> /\ answers' = Append(answers, a) /\ asked' = Tail(asked)
        /\ peer' \in BOOLEAN
        /\ UNCHANGED <<queue, hosts, hostBack, client, sendBuff, pc, writable, addrs, fails, drops>>
    BY <1>11 DEF Answer, history
  <2>2. /\ asked' \in Seq(Nat \ {0}) /\ Len(asked') = Len(asked) - 1
        /\ \A i \in 1..(Len(asked) - 1) : asked'[i] = asked[i + 1]
        /\ Head(asked) = asked[1] /\ Len(asked) > 0
    BY <1>0, <2>1, TailFacts
  <2>3. 1 \in 1..Len(asked) /\ asked[1] \in Nat \ {0}
    <3>1. 1 \in 1..Len(asked)
      BY <1>0, <2>2
    <3> QED
      BY <1>0, <3>1, ElementOfSeq
  <2>4. a \in [req : Nat \ {0}, keep : BOOLEAN] /\ a.req = asked[1]
    BY <2>2, <2>3
  <2> HIDE DEF a
  <2>5. /\ answers' \in Seq([req : Nat \ {0}, keep : BOOLEAN]) /\ Len(answers') = Len(answers) + 1
        /\ \A i \in 1..Len(answers) : answers'[i] = answers[i]
        /\ answers'[Len(answers) + 1] = a
    BY <1>0, <2>1, <2>4, AppendFacts
  <2>6. Keeps
    <3>1. \A i \in 1..Len(asked') : i + 1 \in 1..Len(asked) /\ asked'[i] = asked[i + 1]
      BY <1>0, <2>2
    <3>2. \A i \in 1..Len(answers') : i \in 1..Len(answers) \/ i = Len(answers) + 1
      BY <1>0, <2>5
    <3> QED
      BY <2>1, <2>3, <2>4, <2>5, <3>1, <3>2 DEF LinkInv
  <2>7. pc' = "request" /\ client' = "run" => hostBack' = hosts'[queue'[1].req]
    BY <2>1 DEF LinkInv
  <2> QED
    BY <1>1, <2>1, <2>2, <2>5, <2>6, <2>7 DEF LinkTypes, TypeOK
<1>12. CASE ServerClose
  <2>1. /\ drops < MaxDrops /\ drops' = drops + 1 /\ peer' = FALSE
        /\ UNCHANGED <<queue, hosts, hostBack, client, sendBuff, asked, answers, pc, writable,
                       addrs, fails>>
    BY <1>12 DEF ServerClose, history
  <2>2. Keeps
    BY <2>1 DEF LinkInv
  <2>3. pc' = "request" /\ client' = "run" => hostBack' = hosts'[queue'[1].req]
    BY <2>1 DEF LinkInv
  <2>4. drops' \in 0..MaxDrops
    BY <1>0, <2>1 DEF TypeOK
  <2>5. LinkTypes'
    BY <2>1, <2>4 DEF LinkTypes, TypeOK
  <2> QED
    BY <1>1, <2>1, <2>2, <2>3, <2>5
<1> QED
  BY <1>2, <1>3, <1>4, <1>5, <1>6, <1>7, <1>8, <1>9, <1>10, <1>11, <1>12 DEF Next, OnRun
-----------------------------------------------------------------------------
(* One request at a time.                                                  *)

\* What the order of the queue says about the request that is pending.
LEMMA PendingOnes ==
  ASSUME TypeOK, QueueInv, OrderInv
  PROVE  /\ NoReq \notin Pending
         /\ onResponseCall # NoReq => onResponseCall \in Pending
         /\ \A i \in 1..Len(queue) :
               queue[i].questCount = 0 \/ Trying => queue[i].req \in Pending
         /\ Trying /\ queue # << >> => onResponseCall # queue[1].req
<1>0. /\ Len(hosts) \in Nat /\ Issued = 1..Len(hosts) /\ Len(calls) \in Nat /\ Len(queue) \in Nat
      /\ DOMAIN calls = 1..Len(calls) /\ queue \in QueueSeq
      /\ \A k \in 1..Len(calls) : calls[k][1] \in Nat
  <2>1. /\ hosts \in Seq(Hosts) /\ queue \in QueueSeq /\ calls \in Seq((Nat \ {0}) \X Nat)
    BY DEF TypeOK, QueueSeq
  <2>2. \A k \in 1..Len(calls) : calls[k] \in (Nat \ {0}) \X Nat
    BY <2>1, ElementOfSeq
  <2> QED
    BY <2>1, <2>2, LenProperties DEF Issued, QueueSeq
<1>1. \A r \in Called : \E k \in 1..Len(calls) : r = calls[k][1]
  BY <1>0 DEF Called
<1>2. NoReq \notin Pending
  BY <1>0 DEF Pending, NoReq
<1>3. ASSUME onResponseCall # NoReq PROVE onResponseCall \in Pending
  <2>1. onResponseCall \in Issued /\ \A k \in 1..Len(calls) : calls[k][1] < onResponseCall
    BY <1>3 DEF OrderInv
  <2>2. onResponseCall \notin Called
    BY <1>0, <1>1, <2>1
  <2> QED
    BY <2>1, <2>2 DEF Pending
<1>4. ASSUME NEW i \in 1..Len(queue), queue[i].questCount = 0 \/ Trying
      PROVE  queue[i].req \in Pending
  <2>1. queue[i].req \in Issued
    BY DEF QueueInv
  <2>2. \A k \in 1..Len(calls) : calls[k][1] < queue[i].req
    BY <1>4 DEF OrderInv, Passed
  <2>3. queue[i].req \notin Called
    BY <1>0, <1>1, <2>1, <2>2
  <2> QED
    BY <2>1, <2>3 DEF Pending
<1>5. ASSUME Trying, queue # << >> PROVE onResponseCall # queue[1].req
  <2>1. 1 \in 1..Len(queue)
    BY <1>0, <1>5, EmptySeq DEF QueueSeq
  <2>2. queue[1].req \in 1..Len(hosts)
    BY <1>0, <2>1 DEF QueueInv
  <2>3. onResponseCall # NoReq => onResponseCall < queue[1].req
    BY <1>5, <2>1 DEF OrderInv, Passed
  <2> QED
    BY <1>0, <2>2, <2>3 DEF NoReq
<1> QED
  BY <1>2, <1>3, <1>4, <1>5

LEMMA SamePending ==
  ASSUME UNCHANGED <<hosts, calls>>
  PROVE  Pending' = Pending /\ Issued' = Issued /\ Called' = Called
BY DEF Pending, Issued, Called

OwnCalls == \A i \in 1..Len(calls) : calls[i][2] \in {calls[i][1], NoReq}

LEMMA SerialCallBack ==
  ASSUME TypeOK, OrderInv, SerialInv, NEW more \in Hosts \cup {NoHost},
         NEW answer \in {onResponseCall, NoReq}, CallBack(answer, more), ~overlap'
  PROVE  OnePending' /\ OwnCalls'
<1>0. answer \in Nat
  BY DEF TypeOK, NoReq
<1>1. /\ Pending' \subseteq (Pending \ {onResponseCall})
                                \cup (IF more = NoHost THEN {} ELSE {Len(hosts) + 1})
      /\ more # NoHost => Pending \ {onResponseCall} = {}
      /\ ~overlap
  BY <1>0, PendingFacts
<1>2. \A r, s \in Pending : r = s
  BY <1>1 DEF SerialInv, OnePending
<1>3. \A r, s \in Pending' : r = s
  BY <1>1, <1>2
<1>4. \A k \in 1..Len(calls') :
         \/ k \in 1..Len(calls) /\ calls'[k] = calls[k]
         \/ onResponseCall # NoReq /\ calls'[k] = <<onResponseCall, answer>>
  BY <1>0, CallBackFacts
<1>5. OwnCalls'
  BY <1>1, <1>4 DEF SerialInv, OwnCalls
<1> QED
  BY <1>3, <1>5 DEF OnePending

LEMMA OnlyLast ==
  ASSUME NEW a \in Nat, NEW b \in Nat, NEW c \in Nat, a + b + c <= 1, c > 0
  PROVE  a = 0 /\ b = 0 /\ c = 1
BY SMT

LEMMA FreeAwaited ==
  ASSUME LinkFree'
  PROVE  Awaited'
BY FreeLink DEF Awaited

LEMMA SerialStep ==
  ASSUME TypeOK, QueueInv, OrderInv, LinkInv, SerialInv, Next
  PROVE  SerialInv'
<1>0. /\ sendBuff \in Seq(Nat \ {0}) /\ asked \in Seq(Nat \ {0})
      /\ answers \in Seq([req : Nat \ {0}, keep : BOOLEAN])
      /\ Len(sendBuff) \in Nat /\ Len(asked) \in Nat /\ Len(answers) \in Nat
  BY LenProperties DEF TypeOK
<1>1. ASSUME NEW h \in Hosts, get(h) PROVE SerialInv'
  <2>1. /\ Issue(h, Pending) /\ h \in Hosts \cup {NoHost} /\ h # NoHost
        /\ UNCHANGED <<calls, link, onResponseCall>>
    BY <1>1, HostsAssumption DEF get
  <2>2. /\ Issued' = Issued \cup {Len(hosts) + 1} /\ Called' = Called
        /\ ~overlap' => Pending = {} /\ ~overlap
    BY <2>1, IssueFacts DEF Called
  <2>3. Pending' \subseteq Pending \cup {Len(hosts) + 1}
    BY <2>2 DEF Pending
  <2>4. ~overlap' => OnePending'
    BY <2>2, <2>3 DEF OnePending
  <2> QED
    BY <2>1, <2>2, <2>4 DEF SerialInv, Awaited, link
<1>2. CASE UNCHANGED <<history, onResponseCall, sendBuff, asked, answers>>
  <2>1. UNCHANGED <<hosts, calls, overlap, onResponseCall, sendBuff, asked, answers>>
    BY <1>2 DEF history
  <2>2. Pending' = Pending
    BY <2>1, SamePending
  <2> QED
    BY <2>1, <2>2 DEF SerialInv, Awaited, OnePending
<1>3. CASE Request
  <2>1. /\ pc = "request" /\ onResponseCall' = Front
        /\ sendBuff' = IF Fits THEN Append(sendBuff, Front) ELSE sendBuff
        /\ UNCHANGED <<history, asked, answers>>
    BY <1>3 DEF Request
  <2>2. UNCHANGED <<hosts, calls, overlap>> /\ Pending' = Pending /\ Trying
    BY <2>1, SamePending DEF history, Trying
  <2>3. queue # << >>
    BY <2>2 DEF QueueInv
  <2>4. Head(queue) = queue[1] /\ Len(queue) \in Nat \ {0}
    BY <2>3, TailFacts DEF TypeOK
  <2>5. Front = queue[1].req /\ Front \in Pending /\ onResponseCall # Front
    BY <2>2, <2>3, <2>4, PendingOnes DEF Front
  <2>6. Front \in Nat \ {0}
    BY <2>5, LenProperties DEF Pending, Issued, TypeOK
  <2>7. ASSUME ~overlap PROVE SerialInv'
    <3>1. onResponseCall = NoReq
      BY <2>5, <2>7, PendingOnes DEF SerialInv, OnePending
    <3>2. Len(sendBuff) = 0 /\ Len(asked) = 0 /\ Len(answers) = 0
      <4>1. \A i \in 1..Len(sendBuff) : sendBuff[i] # NoReq
        BY <1>0, ElementOfSeq DEF NoReq
      <4>2. \A i \in 1..Len(asked) : asked[i] # NoReq
        BY <1>0, ElementOfSeq DEF NoReq
      <4>3. \A i \in 1..Len(answers) : answers[i].req # NoReq
        <5>1. \A i \in 1..Len(answers) : answers[i] \in [req : Nat \ {0}, keep : BOOLEAN]
          BY <1>0, ElementOfSeq
        <5> QED
          BY <5>1 DEF NoReq
      <4>4. /\ 1 \notin 1..Len(sendBuff) /\ 1 \notin 1..Len(asked) /\ 1 \notin 1..Len(answers)
        BY <2>7, <3>1, <4>1, <4>2, <4>3 DEF SerialInv, Awaited
      <4> QED
        BY <1>0, <4>4
    <3>3. Len(sendBuff') <= 1 /\ \A i \in 1..Len(sendBuff') : sendBuff'[i] = Front
      <4>1. CASE Fits
        <5>1. sendBuff' = Append(sendBuff, Front)
          BY <2>1, <4>1
        <5>2. Len(sendBuff') = 1 /\ sendBuff'[1] = Front
          BY <1>0, <2>6, <3>2, <5>1, AppendFacts
        <5> QED
          BY <5>2
      <4>2. CASE ~Fits
        BY <2>1, <3>2, <4>2
      <4> QED
        BY <4>1, <4>2
    <3>4. Len(sendBuff') \in Nat /\ Len(asked') = 0 /\ Len(answers') = 0
      <4>1. sendBuff' \in Seq(Nat \ {0})
        BY <1>0, <2>1, <2>6, AppendFacts
      <4> QED
        BY <2>1, <3>2, <4>1, LenProperties
    <3>5. Awaited'
      BY <2>1, <3>3, <3>4 DEF Awaited
    <3> QED
      BY <2>2, <2>7, <3>5 DEF SerialInv, OnePending
  <2> QED
    BY <2>2, <2>7 DEF SerialInv
<1>4. CASE Send
  <2>1. PICK n \in 0..Len(sendBuff) :
           /\ sendBuff' = SubSeq(sendBuff, n + 1, Len(sendBuff))
           /\ asked' = IF peer THEN asked \o SubSeq(sendBuff, 1, n) ELSE asked
    BY <1>4 DEF Send
  <2>2. UNCHANGED <<hosts, calls, overlap, onResponseCall, answers>> /\ Pending' = Pending
    BY <1>4, SamePending DEF Send, history
  <2>3. /\ Len(sendBuff') = Len(sendBuff) - n
        /\ \A i \in 1..(Len(sendBuff) - n) : sendBuff'[i] = sendBuff[n + i]
    <3>1. n + 1 \in 1..(Len(sendBuff) + 1)
      BY <1>0
    <3> QED
      BY <1>0, <2>1, <3>1, SubSeqProperties
  <2>4. Len(asked') \in Nat /\ Len(asked') <= Len(asked) + n
    <3>1. /\ SubSeq(sendBuff, 1, n) \in Seq(Nat \ {0}) /\ Len(SubSeq(sendBuff, 1, n)) = n
      BY <1>0, SubSeqProperties
    <3>2. Len(asked \o SubSeq(sendBuff, 1, n)) = Len(asked) + n
      BY <1>0, <3>1, ConcatProperties
    <3> QED
      BY <1>0, <2>1, <3>2
  <2>5. ASSUME ~overlap PROVE Awaited'
    <3>1. Len(sendBuff) + Len(asked) + Len(answers) <= 1
      BY <2>5 DEF SerialInv, Awaited
    <3>2. Len(sendBuff') + Len(asked') + Len(answers') <= 1
      BY <1>0, <2>2, <2>3, <2>4, <3>1
    <3>3. \A i \in 1..Len(sendBuff') : sendBuff'[i] = onResponseCall
      <4>1. \A i \in 1..Len(sendBuff') : n + i \in 1..Len(sendBuff) /\ sendBuff'[i] = sendBuff[n + i]
        BY <1>0, <2>3
      <4> QED
        BY <2>5, <4>1 DEF SerialInv, Awaited
    <3>4. \A i \in 1..Len(asked') : asked'[i] = onResponseCall
      <4> DEFINE part == SubSeq(sendBuff, 1, n)
      <4>1. /\ part \in Seq(Nat \ {0}) /\ Len(part) = n
            /\ \A i \in 1..n : i \in 1..Len(sendBuff) /\ part[i] = sendBuff[i]
        BY <1>0, SubSeqProperties
      <4> HIDE DEF part
      <4>2. /\ Len(asked \o part) = Len(asked) + n
            /\ \A i \in 1..(Len(asked) + n) :
                  (asked \o part)[i] = IF i <= Len(asked) THEN asked[i] ELSE part[i - Len(asked)]
        BY <1>0, <4>1, ConcatProperties
      <4>3. ASSUME peer, NEW i \in 1..Len(asked') PROVE asked'[i] = onResponseCall
        <5>1. asked' = asked \o part
          BY <2>1, <4>3 DEF part
        <5>2. CASE i <= Len(asked)
          <6>1. i \in 1..Len(asked) /\ asked'[i] = asked[i]
            BY <1>0, <4>2, <5>1, <5>2
          <6> QED
            BY <2>5, <6>1 DEF SerialInv, Awaited
        <5>3. CASE ~(i <= Len(asked))
          <6>1. i - Len(asked) \in 1..n
            BY <1>0, <4>2, <5>1, <5>3
          <6>2. asked'[i] = sendBuff[i - Len(asked)] /\ i - Len(asked) \in 1..Len(sendBuff)
            BY <4>1, <4>2, <5>1, <5>3, <6>1
          <6> QED
            BY <2>5, <6>2 DEF SerialInv, Awaited
        <5> QED
          BY <5>2, <5>3
      <4>4. CASE ~peer
        BY <2>1, <2>5, <4>4 DEF SerialInv, Awaited
      <4> QED
        BY <4>3, <4>4
    <3> QED
      BY <2>2, <2>5, <3>2, <3>3, <3>4 DEF SerialInv, Awaited
  <2> QED
    BY <2>2, <2>5 DEF SerialInv, OnePending
<1>5. ASSUME NEW keep \in BOOLEAN, Answer(keep) PROVE SerialInv'
  <2> DEFINE a == [req |-> Head(asked), keep |-> keep]
  <2>1. /\ asked # << >> /\ answers' = Append(answers, a) /\ asked' = Tail(asked)
        /\ UNCHANGED <<hosts, calls, overlap, onResponseCall, sendBuff>> /\ Pending' = Pending
    BY <1>5, SamePending DEF Answer, history
  <2>2. /\ Len(asked') = Len(asked) - 1
        /\ \A i \in 1..(Len(asked) - 1) : asked'[i] = asked[i + 1]
        /\ Head(asked) = asked[1] /\ Len(asked) > 0
    BY <1>0, <2>1, TailFacts
  <2>3. 1 \in 1..Len(asked) /\ asked[1] \in Nat \ {0}
    <3>1. 1 \in 1..Len(asked)
      BY <1>0, <2>2
    <3> QED
      BY <1>0, <3>1, ElementOfSeq
  <2>4. a \in [req : Nat \ {0}, keep : BOOLEAN] /\ a.req = asked[1]
    BY <2>2, <2>3
  <2> HIDE DEF a
  <2>5. /\ Len(answers') = Len(answers) + 1
        /\ \A i \in 1..Len(answers) : answers'[i] = answers[i]
        /\ answers'[Len(answers) + 1] = a
    BY <1>0, <2>1, <2>4, AppendFacts
  <2>6. ASSUME ~overlap PROVE Awaited'
    <3>1. \A i \in 1..Len(asked') : i + 1 \in 1..Len(asked) /\ asked'[i] = asked[i + 1]
      BY <1>0, <2>2
    <3>2. \A i \in 1..Len(answers') : i \in 1..Len(answers) \/ i = Len(answers) + 1
      BY <1>0, <2>5
    <3>3. Len(sendBuff) + Len(asked') + Len(answers') <= 1
      BY <1>0, <2>2, <2>5, <2>6 DEF SerialInv, Awaited
    <3> QED
      BY <2>1, <2>3, <2>4, <2>5, <2>6, <3>1, <3>2, <3>3 DEF SerialInv, Awaited
  <2> QED
    BY <2>1, <2>6 DEF SerialInv, OnePending
<1>6. ASSUME NEW more \in Hosts \cup {NoHost}, OnDisConnect(more), LinkFree' PROVE SerialInv'
  <2>1. ~overlap' => OnePending' /\ OwnCalls'
    BY <1>6, SerialCallBack DEF OnDisConnect
  <2> QED
    BY <1>6, <2>1, FreeAwaited DEF SerialInv, OwnCalls
<1>7. ASSUME NEW more \in Hosts \cup {NoHost}, CloseOld(more), LinkFree' PROVE SerialInv'
  <2>1. CASE client = "none"
    <3>1. UNCHANGED <<hosts, calls, overlap>> /\ Pending' = Pending
      BY <1>7, <2>1, SamePending DEF CloseOld, history
    <3> QED
      BY <1>7, <3>1, FreeAwaited DEF SerialInv, OnePending
  <2> QED
    BY <1>6, <1>7, <2>1 DEF CloseOld
<1>8. ASSUME NEW more \in Hosts \cup {NoHost}, OnNetMsg(more) \/ OnNetMsgClose(more)
      PROVE  SerialInv'
  <2>1. Answered(more) /\ answers # << >> /\ CallBack(Head(answers).req, more)
    BY <1>8 DEF OnNetMsg, OnNetMsgClose, Answered
  <2>2. /\ Head(answers) = answers[1] /\ Len(answers) > 0 /\ Len(Tail(answers)) = Len(answers) - 1
    BY <1>0, <2>1, TailFacts
  <2>3. answers[1] \in [req : Nat \ {0}, keep : BOOLEAN] /\ 1 \in 1..Len(answers)
    <3>1. 1 \in 1..Len(answers)
      BY <1>0, <2>2
    <3> QED
      BY <1>0, <3>1, ElementOfSeq
  <2>4. ASSUME ~overlap' PROVE SerialInv'
    <3>1. ~overlap
      <4>1. Head(answers).req \in Nat
        BY <2>2, <2>3
      <4> QED
        BY <2>1, <2>4, <4>1, PendingFacts
    <3>2. /\ answers[1].req = onResponseCall /\ Len(sendBuff) = 0 /\ Len(asked) = 0
          /\ Len(answers) = 1
      <4>1. answers[1].req = onResponseCall
        BY <2>3, <3>1 DEF SerialInv, Awaited
      <4>2. Len(sendBuff) + Len(asked) + Len(answers) <= 1
        BY <3>1 DEF SerialInv, Awaited
      <4>3. Len(answers) > 0
        BY <2>2
      <4>4. Len(sendBuff) = 0 /\ Len(asked) = 0 /\ Len(answers) = 1
        BY <1>0, <4>2, <4>3, OnlyLast
      <4> QED
        BY <4>1, <4>4
    <3>3. OnePending' /\ OwnCalls'
      BY <2>1, <2>2, <2>4, <3>2, SerialCallBack
    <3>4. Awaited'
      <4>1. CASE OnNetMsgClose(more)
        BY <4>1, FreeAwaited DEF OnNetMsgClose, DropBuffers, LinkFree
      <4>2. CASE OnNetMsg(more)
        <5>1. answers' = Tail(answers) /\ UNCHANGED <<sendBuff, asked>>
          BY <4>2 DEF OnNetMsg
        <5>2. Len(sendBuff') = 0 /\ Len(asked') = 0 /\ Len(answers') = 0
          BY <2>2, <3>2, <5>1
        <5> QED
          BY <5>2 DEF Awaited
      <4> QED
        BY <1>8, <4>1, <4>2
    <3> QED
      BY <3>3, <3>4 DEF SerialInv, OwnCalls
  <2> QED
    BY <2>4 DEF SerialInv
<1>9. ASSUME NEW more \in Hosts \cup {NoHost}, NEW result \in {"none", "made"},
             Connect(more) \/ ConnectFail(result, more) \/ LinkError(more)
      PROVE  SerialInv'
  <2>1. LinkFree' /\ (CloseOld(more) \/ OnDisConnect(more))
    BY <1>9 DEF Connect, ConnectFail, LinkError, Close, DropBuffers, LinkFree
  <2> QED
    BY <1>6, <1>7, <2>1
<1>10. CASE NextNone \/ NextDrop \/ NextTry \/ SkipAddress \/ PollIdle \/ Recv \/ MsgEnd
            \/ ServerClose \/ \E in, out \in BOOLEAN : Poll(in, out)
  <2>1. UNCHANGED <<history, onResponseCall, sendBuff, asked, answers>>
    BY <1>10 DEF NextNone, NextDrop, NextTry, SkipAddress, PollIdle, Recv, MsgEnd, ServerClose,
                 Poll, link
  <2> QED
    BY <1>2, <2>1
<1> QED
  BY <1>1, <1>3, <1>4, <1>5, <1>8, <1>9, <1>10 DEF Next, OnRun
-----------------------------------------------------------------------------
(* The invariant, and what it gives.                                       *)

LEMMA InitInv ==
  ASSUME Init
  PROVE  IInv
<1>1. /\ queue = << >> /\ sendBuff = << >> /\ asked = << >> /\ answers = << >>
      /\ hosts = << >> /\ calls = << >> /\ onResponseCall = NoReq /\ pc = "idle"
  BY DEF Init
<1>2. /\ Len(queue) = 0 /\ Len(sendBuff) = 0 /\ Len(asked) = 0 /\ Len(answers) = 0
      /\ Len(hosts) = 0 /\ Len(calls) = 0
  BY <1>1, EmptySeq
<1>3. TypeOK
  <2>1. /\ queue \in Seq([req : Nat \ {0}, questCount : 0..maxQuestCount])
        /\ sendBuff \in Seq(Nat \ {0}) /\ asked \in Seq(Nat \ {0})
        /\ answers \in Seq([req : Nat \ {0}, keep : BOOLEAN])
        /\ hosts \in Seq(Hosts) /\ calls \in Seq((Nat \ {0}) \X Nat)
    BY <1>1, EmptySeq
  <2>2. /\ Len(sendBuff) <= SendSlots
        /\ addrs \in 0..MaxAddrs /\ fails \in 0..MaxFails /\ drops \in 0..MaxDrops
    BY <1>2, SlotsAssumption, HttpBoundsAssumption DEF Init
  <2>3. /\ bNextRequest \in BOOLEAN /\ onResponseCall \in Nat /\ hostBack \in Hosts \cup {NoHost}
        /\ client \in {"none", "made", "run"} /\ peer \in BOOLEAN /\ pc \in ThreadState
        /\ writable \in BOOLEAN /\ overlap \in BOOLEAN
    BY DEF Init, ThreadState, NoReq
  <2> QED
    BY <2>1, <2>2, <2>3 DEF TypeOK
<1>4. QueueInv /\ OrderInv /\ LinkInv
  BY <1>1, <1>2 DEF QueueInv, OrderInv, LinkInv, Trying
<1>5. SerialInv
  <2>1. Pending = {}
    BY <1>2 DEF Pending, Issued
  <2> QED
    BY <1>2, <2>1 DEF SerialInv, OnePending, Awaited
<1> QED
  BY <1>3, <1>4, <1>5 DEF IInv

LEMMA StepInv ==
  ASSUME IInv, Next
  PROVE  IInv'
<1>1. HistoryTypes' /\ QueueInv' /\ OrderInv'
  BY OrderStep DEF IInv
<1>2. LinkTypes' /\ LinkInv'
  BY LinkStep DEF IInv
<1>3. SerialInv'
  BY SerialStep DEF IInv
<1>4. TypeOK'
  BY <1>1, <1>2 DEF HistoryTypes, LinkTypes, TypeOK, QueueSeq
<1> QED
  BY <1>1, <1>2, <1>3, <1>4 DEF IInv

LEMMA StutterInv ==
  ASSUME IInv, UNCHANGED vars
  PROVE  IInv'
<1>1. /\ UNCHANGED <<queue, bNextRequest, onResponseCall, hostBack, client, sendBuff, asked>>
      /\ UNCHANGED <<answers, peer, pc, writable, addrs, fails, drops, hosts, calls, overlap>>
  BY DEF vars, link, history
<1>2. TypeOK'
  BY <1>1 DEF IInv, TypeOK
<1>3. QueueInv' /\ OrderInv'
  BY <1>1 DEF IInv, QueueInv, OrderInv, Passed, Issued, Trying
<1>4. LinkInv'
  BY <1>1 DEF IInv, LinkInv, ToHost, Issued
<1>5. SerialInv'
  BY <1>1, SamePending DEF IInv, SerialInv, OnePending, Awaited
<1> QED
  BY <1>2, <1>3, <1>4, <1>5 DEF IInv

\* The invariant that the theorems follow from.
THEOREM Inductive == Spec => []IInv
<1>1. Init => IInv
  BY InitInv
<1>2. IInv /\ [Next]_vars => IInv'
  BY StepInv, StutterInv
<1> QED
  BY <1>1, <1>2, PTL DEF Spec

\* The variables keep their types, and the send buffer its size: SendData
\* never takes a request that does not fit.
THEOREM TypeCorrect == Spec => []TypeOK
<1>1. IInv => TypeOK
  BY DEF IInv
<1> QED
  BY <1>1, Inductive, PTL

\* However get, post, answers, failures and closed connections interleave, no
\* callback is called twice and none before that of an earlier request.
THEOREM CallbacksInOrder == Spec => []CallsInOrder
<1>1. IInv => CallsInOrder
  BY LenProperties DEF IInv, TypeOK, OrderInv, CallsInOrder
<1> QED
  BY <1>1, Inductive, PTL

\* A request is sent only to the server it was issued for, with any number of
\* servers, addresses and failed connections.
THEOREM ServersMatch == Spec => []RightServer
<1>1. IInv => RightServer
  BY LenProperties DEF IInv, TypeOK, LinkInv, ToHost, RightServer
<1> QED
  BY <1>1, Inductive, PTL

\* A program that waits for each callback before it issues the next request
\* never gets the answer to another one, whatever closes and reconnects.
THEOREM OwnAnswers == Spec => []OwnAnswer
<1>1. IInv => OwnAnswer
  BY LenProperties DEF IInv, TypeOK, SerialInv, OwnAnswer
<1> QED
  BY <1>1, Inductive, PTL
-----------------------------------------------------------------------------
(* No request is lost.                                                     *)

LEMMA OverlapGrows ==
  ASSUME TypeOK, QueueInv, OrderInv, Next
  PROVE  overlap => overlap'
<1> DEFINE Grow == overlap => overlap'
<1>1. ASSUME NEW h \in Hosts, get(h) PROVE Grow
  <2>1. Issue(h, Pending) /\ h \in Hosts \cup {NoHost}
    BY <1>1 DEF get
  <2> QED
    BY <2>1, IssueFacts
<1>2. ASSUME NEW more \in Hosts \cup {NoHost}, NEW answer \in Nat, CallBack(answer, more)
      PROVE  Grow
  BY <1>2, PendingFacts
<1>3. ASSUME NEW more \in Hosts \cup {NoHost}, OnDisConnect(more) PROVE Grow
  BY <1>2, <1>3 DEF OnDisConnect, NoReq
<1>4. ASSUME NEW more \in Hosts \cup {NoHost}, CloseOld(more) PROVE Grow
  BY <1>3, <1>4 DEF CloseOld, history
<1>5. ASSUME NEW more \in Hosts \cup {NoHost}, OnNetMsg(more) \/ OnNetMsgClose(more)
      PROVE  Grow
  <2>1. CallBack(Head(answers).req, more) /\ answers # << >>
    BY <1>5 DEF OnNetMsg, OnNetMsgClose, Answered
  <2>2. Head(answers) \in [req : Nat \ {0}, keep : BOOLEAN]
    BY <2>1, HeadTailProperties DEF TypeOK
  <2> QED
    BY <1>2, <2>1, <2>2
<1>6. ASSUME UNCHANGED overlap PROVE Grow
  BY <1>6
<1> HIDE DEF Grow
<1>7. Grow
  BY <1>1, <1>3, <1>4, <1>5, <1>6
     DEF Next, OnRun, NextNone, NextDrop, NextTry, SkipAddress, Request, PollIdle, Recv,
         MsgEnd, Send, Poll, Connect, ConnectFail, LinkError, Close, Answer, ServerClose, history
<1> QED
  BY <1>7 DEF Grow

\* The premise only gets harder to keep.
LEMMA CalmBack ==
  ASSUME IInv, Next, Calm'
  PROVE  Calm
<1>1. ~overlap
  BY OverlapGrows DEF IInv, Calm
<1>2. OneHost
  BY HostsGrow DEF IInv, Calm, OneHost
<1>3. fails = 0
  <2>1. fails' = fails \/ fails' = fails + 1
    BY DEF Next, OnRun, get, NextNone, NextDrop, NextTry, SkipAddress, Request, PollIdle,
           Recv, MsgEnd, Send, Poll, Connect, ConnectFail, LinkError, OnNetMsg,
           OnNetMsgClose, Answered, Answer, ServerClose
  <2> QED
    BY <2>1 DEF IInv, TypeOK, Calm
<1> QED
  BY <1>1, <1>2, <1>3 DEF Calm

\* A step that leaves the requests, the client and its host alone.
LEMMA QuietCalm ==
  ASSUME CalmInv, Calm' => Calm,
         UNCHANGED <<queue, onResponseCall, hostBack, client, hosts, calls>>,
         Trying' = Trying, pc' = "connect" => pc = "connect", bNextRequest' => bNextRequest
  PROVE  CalmInv'
<1>1. Pending' = Pending /\ Issued' = Issued
  BY SamePending
<1>2. \A r \in Pending : Waits(r) => Waits(r)'
  BY DEF Waits
<1> QED
  BY <1>1, <1>2 DEF CalmInv

\* A request that waits is still there after one more has been queued.
LEMMA QueuedWaits ==
  ASSUME IInv, NEW more \in Hosts \cup {NoHost}, NEW P, Issue(more, P),
         queue' = Queued(more), Trying => Trying'
  PROVE  /\ \A r : Waits(r) /\ r # onResponseCall => Waits(r)'
         /\ \A r : more # NoHost /\ r = Len(hosts) + 1 => Waits(r)'
<1>1. /\ Len(queue') = IF more = NoHost THEN Len(queue) ELSE Len(queue) + 1
      /\ \A i \in 1..Len(queue) : queue'[i] = queue[i]
      /\ more # NoHost => queue'[Len(queue) + 1] = [req |-> Len(hosts) + 1, questCount |-> 0]
      /\ Len(queue) \in Nat
  BY QueuedFacts DEF IInv
<1>2. ASSUME NEW r, Waits(r), r # onResponseCall PROVE Waits(r)'
  <2>1. PICK i \in 1..Len(queue) :
             queue[i].req = r /\ (queue[i].questCount = 0 \/ (i = 1 /\ Trying))
    BY <1>2 DEF Waits
  <2>2. i \in 1..Len(queue') /\ queue'[i] = queue[i]
    BY <1>1
  <2>3. queue'[i].req = r /\ (queue'[i].questCount = 0 \/ (i = 1 /\ Trying'))
    BY <2>1, <2>2
  <2> QED
    BY <2>2, <2>3 DEF Waits
<1>3. ASSUME NEW r, more # NoHost, r = Len(hosts) + 1 PROVE Waits(r)'
  <2>1. /\ Len(queue) + 1 \in 1..Len(queue')
        /\ queue'[Len(queue) + 1].req = r
        /\ queue'[Len(queue) + 1].questCount = 0
    BY <1>1, <1>3
  <2> QED
    BY <2>1 DEF Waits
<1> QED
  BY <1>2, <1>3

\* OnDisConnect, between two requests: the callback that waited is called, and
\* every other request is still to be tried.
LEMMA DisconnectCalm ==
  ASSUME IInv, CalmInv, Calm, NEW more \in Hosts \cup {NoHost}, OnDisConnect(more), ~Trying,
         pc' = "idle", client' = "none", UNCHANGED hostBack
  PROVE  CalmInv'
<1>1. CallBack(NoReq, more) /\ queue' = Queued(more) /\ NoReq \in Nat
  BY DEF OnDisConnect, NoReq
<1>2. /\ Issue(more, Pending \ {onResponseCall}) /\ onResponseCall' = NoReq
      /\ Pending' \subseteq (Pending \ {onResponseCall})
                              \cup (IF more = NoHost THEN {} ELSE {Len(hosts) + 1})
  BY <1>1, CallBackFacts, PendingFacts DEF IInv
<1>3. /\ \A r : Waits(r) /\ r # onResponseCall => Waits(r)'
      /\ \A r : more # NoHost /\ r = Len(hosts) + 1 => Waits(r)'
  BY <1>1, <1>2, QueuedWaits
<1>4. \A r \in Pending' : Waits(r)'
  <2>1. \A r \in Pending : Waits(r)
    BY DEF CalmInv
  <2> QED
    BY <1>2, <1>3, <2>1
<1>5. ~Trying' /\ onResponseCall' = NoReq /\ pc' # "connect" /\ client' # "run"
  BY <1>2 DEF Trying
<1> QED
  BY <1>4, <1>5 DEF CalmInv

LEMMA GetCalm ==
  ASSUME IInv, CalmInv, Calm, Calm', NEW h \in Hosts, get(h)
  PROVE  CalmInv'
<1>1. /\ Issue(h, Pending) /\ queue' = Queued(h) /\ h \in Hosts \cup {NoHost} /\ h # NoHost
      /\ pc = "idle" /\ ~Trying /\ ~Trying'
      /\ UNCHANGED <<calls, onResponseCall, hostBack, client, pc>>
  BY HostsAssumption DEF get, Trying, link
<1>2. /\ Issued' = Issued \cup {Len(hosts) + 1} /\ Called' = Called
      /\ Pending = {} /\ \A r \in Issued : r \in Issued' /\ hosts'[r] = hosts[r]
  BY <1>1, IssueFacts DEF IInv, Calm, Called
<1>3. Pending' \subseteq {Len(hosts) + 1}
  BY <1>2 DEF Pending
<1>4. \A r \in Pending' : Waits(r)'
  BY <1>1, <1>3, QueuedWaits
<1>5. onResponseCall' = NoReq
  BY <1>1, <1>2, PendingOnes DEF IInv
<1>6. client' \in {"none", "run"} /\ (client' = "run" => \E r \in Issued' : hosts'[r] = hostBack')
  BY <1>1, <1>2 DEF CalmInv
<1> QED
  BY <1>1, <1>4, <1>5, <1>6 DEF CalmInv

LEMMA NextDropCalm ==
  ASSUME IInv, CalmInv, Calm, NextDrop
  PROVE  CalmInv'
<1>1. /\ pc = "idle" /\ bNextRequest /\ queue # << >> /\ TriedEnough /\ queue' = Tail(queue)
      /\ pc' = "poll" /\ ~Trying /\ ~Trying'
      /\ UNCHANGED <<bNextRequest, onResponseCall, hostBack, client, hosts, calls>>
  BY DEF NextDrop, Trying, link, history
<1>2. Pending' = Pending /\ Issued' = Issued
  BY <1>1, SamePending
<1>3. onResponseCall = NoReq
  BY <1>1 DEF CalmInv
<1>4. /\ Len(queue') = Len(queue) - 1 /\ Len(queue) \in Nat \ {0} /\ Head(queue) = queue[1]
      /\ \A i \in 1..(Len(queue) - 1) : queue'[i] = queue[i + 1]
  BY <1>1, TailFacts DEF IInv, TypeOK
<1>5. queue[1].questCount # 0
  BY <1>1, <1>4 DEF TriedEnough, maxQuestCount
<1>6. ASSUME NEW r \in Pending PROVE Waits(r)'
  <2>1. Waits(r) /\ r # onResponseCall
    BY <1>3, PendingOnes DEF CalmInv, IInv
  <2>2. PICK i \in 1..Len(queue) : queue[i].req = r /\ queue[i].questCount = 0
    BY <1>1, <2>1 DEF Waits
  <2>3. i # 1
    BY <1>5, <2>2
  <2>4. i - 1 \in 1..(Len(queue) - 1) /\ i - 1 + 1 = i
    BY <1>4, <2>3
  <2>5. i - 1 \in 1..Len(queue') /\ queue'[i - 1] = queue[i]
    BY <1>4, <2>4
  <2>6. queue'[i - 1].req = r /\ queue'[i - 1].questCount = 0
    BY <2>2, <2>5
  <2> QED
    BY <2>5, <2>6 DEF Waits
<1> QED
  BY <1>1, <1>2, <1>3, <1>6 DEF CalmInv

\* If the connection were up, it would lead to the only host there is.
LEMMA NextTryCalm ==
  ASSUME IInv, CalmInv, Calm, Calm', NextTry
  PROVE  CalmInv'
<1>1. /\ pc = "idle" /\ bNextRequest /\ queue # << >> /\ ~TriedEnough /\ ~bNextRequest'
      /\ queue' = [queue EXCEPT ![1].questCount = @ + 1]
      /\ UNCHANGED <<onResponseCall, hostBack, client, hosts, calls>> /\ ~Trying
  BY DEF NextTry, Trying, link, history
<1>2. Pending' = Pending /\ Issued' = Issued
  BY <1>1, SamePending
<1>3. onResponseCall = NoReq
  BY <1>1 DEF CalmInv
<1>4. (Connected /\ pc' = "request") \/ (~Connected /\ pc' = "connect")
  BY DEF NextTry, Calm
<1>5. queue \in QueueSeq /\ 1 \in 1..Len(queue) /\ Len(queue) \in Nat /\ Head(queue) = queue[1]
  <2>1. Len(queue) \in Nat \ {0} /\ Head(queue) = queue[1] /\ queue \in QueueSeq
    BY <1>1, TailFacts DEF IInv, TypeOK, QueueSeq
  <2> QED
    BY <2>1
<1>6. Len(queue') = Len(queue) /\ \A i \in 1..Len(queue) : queue'[i].req = queue[i].req
                               /\ (i # 1 => queue'[i] = queue[i])
  BY <1>1, <1>5, ExceptSeq DEF QueueSeq
<1>7. ASSUME NEW r \in Pending PROVE Waits(r)'
  <2>1. Waits(r) /\ r # onResponseCall
    BY <1>3, PendingOnes DEF CalmInv, IInv
  <2>2. PICK i \in 1..Len(queue) : queue[i].req = r /\ queue[i].questCount = 0
    BY <1>1, <2>1 DEF Waits
  <2>3. i \in 1..Len(queue') /\ queue'[i].req = r
    BY <1>6, <2>2
  <2>4. i # 1 => queue'[i].questCount = 0
    BY <1>6, <2>2
  <2>5. Trying'
    BY <1>4 DEF Trying
  <2> QED
    BY <2>3, <2>4, <2>5 DEF Waits
<1>8. pc' = "connect" => client = "none"
  <2>1. ASSUME client = "run" PROVE Connected
    <3>1. PICK r \in Issued : hosts[r] = hostBack
      BY <2>1 DEF CalmInv
    <3>2. Front \in Issued
      BY <1>5 DEF IInv, QueueInv, Front
    <3> QED
      BY <2>1, <3>1, <3>2 DEF Calm, OneHost, Connected
  <2> QED
    BY <1>4, <2>1 DEF CalmInv
<1>9. client' \in {"none", "run"} /\ (client' = "run" => \E r \in Issued' : hosts'[r] = hostBack')
  BY <1>1, <1>2 DEF CalmInv
<1> QED
  BY <1>1, <1>2, <1>3, <1>7, <1>8, <1>9 DEF CalmInv

LEMMA FirstTwo ==
  ASSUME NEW n \in Nat \ {0}, n # 1
  PROVE  1 \in 1..n /\ 2 \in 1..n
BY SMT

\* Anything behind the request that is sent would be pending as well.
LEMMA RequestCalm ==
  ASSUME IInv, CalmInv, Calm, Request
  PROVE  CalmInv'
<1>1. /\ pc = "request" /\ onResponseCall' = Front /\ Trying /\ ~Trying' /\ pc' = "poll"
      /\ UNCHANGED <<queue, bNextRequest, hostBack, client, hosts, calls>>
  BY DEF Request, Trying, history
<1>2. Pending' = Pending /\ Issued' = Issued
  BY <1>1, SamePending
<1>3. queue # << >>
  BY <1>1 DEF IInv, QueueInv
<1>4. Len(queue) \in Nat \ {0} /\ Head(queue) = queue[1]
  BY <1>3, TailFacts DEF IInv, TypeOK
<1>5. \A i \in 1..Len(queue) : queue[i].req \in Pending
  BY <1>1, PendingOnes DEF IInv
<1>6. \A r, s \in Pending : r = s
  BY DEF IInv, SerialInv, Calm, OnePending
<1>7. Len(queue) = 1
  <2>1. ASSUME Len(queue) # 1 PROVE FALSE
    <3>1. 1 \in 1..Len(queue) /\ 2 \in 1..Len(queue)
      BY <1>4, <2>1, FirstTwo
    <3>2. queue[1].req = queue[2].req
      BY <1>5, <1>6, <3>1
    <3>3. queue[1].req < queue[2].req
      BY <3>1 DEF IInv, QueueInv
    <3>4. queue[1].req \in Nat
      BY <1>5, <3>1, LenProperties DEF Pending, Issued, IInv, TypeOK
    <3> QED
      BY <3>2, <3>3, <3>4
  <2> QED
    BY <2>1
<1>8. Front \in Pending /\ queue[1].req = Front
  BY <1>4, <1>5 DEF Front
<1>9. \A r \in Pending' : Waits(r)'
  BY <1>1, <1>2, <1>6, <1>8 DEF Waits
<1>10. ~bNextRequest'
  BY <1>1 DEF CalmInv
<1>11. client' \in {"none", "run"} /\ (client' = "run" => \E r \in Issued' : hosts'[r] = hostBack')
  BY <1>1, <1>2 DEF CalmInv
<1> QED
  BY <1>1, <1>7, <1>8, <1>9, <1>10, <1>11 DEF CalmInv

\* There is no old client to close.
LEMMA ConnectCalm ==
  ASSUME IInv, CalmInv, Calm, NEW more \in Hosts \cup {NoHost}, Connect(more)
  PROVE  CalmInv'
<1>1. /\ pc = "connect" /\ pc' = "request" /\ CloseOld(more) /\ client = "none"
      /\ client' = "run" /\ hostBack' = hosts[Front] /\ Trying /\ Trying'
  BY DEF Connect, CalmInv, Trying
<1>2. UNCHANGED <<queue, bNextRequest, onResponseCall, hosts, calls>>
  BY <1>1 DEF CloseOld, history
<1>3. Pending' = Pending /\ Issued' = Issued
  BY <1>2, SamePending
<1>4. onResponseCall = NoReq /\ ~bNextRequest
  BY <1>1 DEF CalmInv
<1>5. Front \in Issued
  <2>1. queue # << >>
    BY <1>1 DEF IInv, QueueInv
  <2>2. Len(queue) \in Nat \ {0} /\ Head(queue) = queue[1]
    BY <2>1, TailFacts DEF IInv, TypeOK
  <2>3. 1 \in 1..Len(queue)
    BY <2>2
  <2> QED
    BY <2>2, <2>3 DEF IInv, QueueInv, Front
<1>6. \A r \in Pending : Waits(r) => Waits(r)'
  BY <1>1, <1>2 DEF Waits
<1> QED
  BY <1>1, <1>2, <1>3, <1>4, <1>5, <1>6 DEF CalmInv

\* OnNetMsg removes the request that was answered, the only one in the queue,
\* and not the one its callback has just issued.
LEMMA AnsweredCalm ==
  ASSUME IInv, CalmInv, Calm, NEW more \in Hosts \cup {NoHost},
         OnNetMsg(more) \/ OnNetMsgClose(more)
  PROVE  CalmInv'
<1>1. /\ answers # << >> /\ CallBack(Head(answers).req, more)
      /\ queue' = IF Queued(more) = << >> THEN << >> ELSE Tail(Queued(more))
      /\ UNCHANGED hostBack /\ pc' \in {"msg", "idle", "crashed"} /\ client' \in {client, "none"}
  BY DEF OnNetMsg, OnNetMsgClose, Answered
<1>2. Head(answers) = answers[1] /\ 1 \in 1..Len(answers)
  <2>1. Head(answers) = answers[1] /\ Len(answers) \in Nat \ {0}
    BY <1>1, TailFacts DEF IInv, TypeOK
  <2> QED
    BY <2>1
<1>3. answers[1] \in [req : Nat \ {0}, keep : BOOLEAN]
  BY <1>2, ElementOfSeq DEF IInv, TypeOK
<1>4. answers[1].req = onResponseCall /\ \A r, s \in Pending : r = s
  BY <1>2 DEF IInv, SerialInv, Calm, OnePending, Awaited
<1>5. onResponseCall # NoReq /\ onResponseCall \in Pending /\ Head(answers).req \in Nat
  BY <1>2, <1>3, <1>4, PendingOnes DEF NoReq, IInv
<1>6. Len(queue) = 1
  BY <1>5 DEF CalmInv
<1>7. /\ Issue(more, Pending \ {onResponseCall}) /\ onResponseCall' = NoReq
      /\ Pending' \subseteq (Pending \ {onResponseCall})
                              \cup (IF more = NoHost THEN {} ELSE {Len(hosts) + 1})
  BY <1>1, <1>5, CallBackFacts, PendingFacts DEF IInv
<1>8. /\ Queued(more) \in QueueSeq
      /\ Len(Queued(more)) = IF more = NoHost THEN 1 ELSE 2
      /\ more # NoHost => Queued(more)[2] = [req |-> Len(hosts) + 1, questCount |-> 0]
  BY <1>6, <1>7, QueuedFacts DEF IInv
<1>9. \A r \in Pending' : Waits(r)'
  <2>1. \A r \in Pending' : more # NoHost /\ r = Len(hosts) + 1
    BY <1>4, <1>5, <1>7
  <2>2. ASSUME more # NoHost PROVE Len(queue') = 1 /\ queue'[1] = Queued(more)[2]
    <3> DEFINE q == Queued(more)
    <3>1. q \in QueueSeq /\ Len(q) = 2 /\ queue' = IF q = << >> THEN << >> ELSE Tail(q)
      BY <1>1, <1>8, <2>2
    <3> HIDE DEF q
    <3>2. q # << >>
      BY <3>1, EmptySeq DEF QueueSeq
    <3>3. /\ queue' = Tail(q) /\ Len(Tail(q)) = Len(q) - 1
          /\ \A i \in 1..(Len(q) - 1) : Tail(q)[i] = q[i + 1]
      BY <3>1, <3>2, TailFacts DEF QueueSeq
    <3>4. 1 \in 1..(Len(q) - 1) /\ Len(queue') = 1
      BY <3>1, <3>3
    <3>5. queue'[1] = q[2]
      BY <3>3, <3>4
    <3> QED
      BY <3>4, <3>5 DEF q
  <2>3. ASSUME NEW r \in Pending' PROVE Waits(r)'
    <3>1. 1 \in 1..Len(queue') /\ queue'[1].req = r /\ queue'[1].questCount = 0
      BY <1>8, <2>1, <2>2
    <3> QED
      BY <3>1 DEF Waits
  <2> QED
    BY <2>3
<1>10. client' \in {"none", "run"} /\ (client' = "run" => \E r \in Issued' : hosts'[r] = hostBack')
  <2>1. \A r \in Issued : r \in Issued' /\ hosts'[r] = hosts[r]
    BY <1>7, IssueFacts DEF IInv
  <2> QED
    BY <1>1, <2>1 DEF CalmInv
<1>11. ~Trying' /\ pc' # "connect"
  BY <1>1 DEF Trying
<1> QED
  BY <1>7, <1>9, <1>10, <1>11 DEF CalmInv

LEMMA CalmStep ==
  ASSUME IInv, CalmInv, Next
  PROVE  CalmInv'
<1>1. CASE ~Calm'
  BY <1>1 DEF CalmInv
<1>2. ASSUME Calm' PROVE CalmInv'
  <2>1. Calm /\ fails' = fails
    BY <1>2, CalmBack DEF Calm
  <2>2. CASE \E h \in Hosts : get(h)
    BY <1>2, <2>1, <2>2, GetCalm
  <2>3. CASE NextDrop
    BY <2>1, <2>3, NextDropCalm
  <2>4. CASE NextTry
    BY <1>2, <2>1, <2>4, NextTryCalm
  <2>5. CASE Request
    BY <2>1, <2>5, RequestCalm
  <2>6. CASE SkipAddress \/ \E more \in Hosts \cup {NoHost}, result \in {"none", "made"} :
                               ConnectFail(result, more)
    <3>1. fails' = fails + 1 /\ fails = 0
      BY <2>1, <2>6 DEF SkipAddress, ConnectFail, Calm
    <3> QED
      BY <2>1, <3>1
  <2>7. CASE \E more \in Hosts \cup {NoHost} : Connect(more)
    BY <2>1, <2>7, ConnectCalm
  <2>8. CASE \E more \in Hosts \cup {NoHost} : LinkError(more)
    <3>1. PICK more \in Hosts \cup {NoHost} : LinkError(more)
      BY <2>8
    <3>2. /\ OnDisConnect(more) /\ ~Trying /\ pc' = "idle" /\ client' = "none"
          /\ UNCHANGED hostBack
      BY <3>1 DEF LinkError, Close, Trying
    <3> QED
      BY <2>1, <3>2, DisconnectCalm
  <2>9. CASE \E more \in Hosts \cup {NoHost} : OnNetMsg(more) \/ OnNetMsgClose(more)
    BY <2>1, <2>9, AnsweredCalm
  <2>10. ASSUME UNCHANGED <<queue, onResponseCall, hostBack, client, hosts, calls>>,
                bNextRequest' = bNextRequest \/ bNextRequest' = FALSE,
                \/ pc' = pc
                \/ pc \notin {"connect", "request"} /\ pc' \notin {"connect", "request"}
         PROVE  CalmInv'
    <3>1. bNextRequest' => bNextRequest
      BY <2>10
    <3>2. Trying' = Trying /\ (pc' = "connect" => pc = "connect")
      BY <2>10 DEF Trying
    <3> QED
      BY <2>1, <2>10, <3>1, <3>2, QuietCalm
  <2>11. CASE NextNone \/ PollIdle \/ Recv \/ MsgEnd \/ Send \/ ServerClose
    BY <2>10, <2>11 DEF NextNone, PollIdle, Recv, MsgEnd, Send, ServerClose, link, history
  <2>12. CASE \E in, out \in BOOLEAN : Poll(in, out)
    BY <2>10, <2>12 DEF Poll, link, history
  <2>13. CASE \E keep \in BOOLEAN : Answer(keep)
    BY <2>10, <2>13 DEF Answer, history
  <2> QED
    BY <2>2, <2>3, <2>4, <2>5, <2>6, <2>7, <2>8, <2>9, <2>11, <2>12, <2>13 DEF Next, OnRun
<1> QED
  BY <1>1, <1>2

\* A program that issues one request at a time, to a server that can be
\* reached, loses none of them, however often the server closes: each callback
\* has been called or waits, or its request is to be sent.
THEOREM NoneLost == Spec => []NothingLost
<1>1. Init => CalmInv
  <2>1. ASSUME Init PROVE CalmInv
    <3>1. Pending = {} /\ client = "none" /\ pc = "idle" /\ onResponseCall = NoReq
      BY <2>1, EmptySeq DEF Init, Pending, Issued
    <3> QED
      BY <3>1 DEF CalmInv, Trying
  <2> QED
    BY <2>1
<1>2. IInv /\ CalmInv /\ [Next]_vars => CalmInv'
  <2>1. ASSUME CalmInv, UNCHANGED vars PROVE CalmInv'
    <3>1. /\ UNCHANGED <<queue, bNextRequest, onResponseCall, hostBack, client, pc>>
          /\ UNCHANGED <<fails, hosts, calls, overlap>>
      BY <2>1 DEF vars, link, history
    <3>2. Calm' => Calm
      BY <3>1 DEF Calm, OneHost, Issued
    <3>3. Trying' = Trying
      BY <3>1 DEF Trying
    <3> QED
      BY <2>1, <3>1, <3>2, <3>3, QuietCalm
  <2> QED
    BY <2>1, CalmStep
<1>3. IInv /\ CalmInv => NothingLost
  <2>1. ASSUME IInv, CalmInv, Calm, NEW r \in Issued PROVE Kept(r)
    <3>1. CASE r \in Called
      BY <3>1 DEF Kept
    <3>2. CASE r \notin Called
      <4>1. Waits(r)
        BY <2>1, <3>2 DEF CalmInv, Pending
      <4>2. DOMAIN queue = 1..Len(queue)
        BY <2>1, LenProperties DEF IInv, TypeOK
      <4> QED
        BY <4>1, <4>2 DEF Waits, Kept, Trying
    <3> QED
      BY <3>1, <3>2
  <2> QED
    BY <2>1 DEF NothingLost, Calm
<1> QED
  BY <1>1, <1>2, <1>3, Inductive, PTL DEF Spec
-----------------------------------------------------------------------------
(* How a request is lost: its callback has not been called, does not wait,  *)
(* and nothing is left that would make it wait.                            *)

\* A step that loses nothing.
Lossless == \A r \in Issued' : Lost(r)' => Lost(r)

LEMMA KeptWaits ==
  ASSUME IInv, IInv'
  PROVE  /\ \A r : Kept(r) <=> r \in Called \/ Waits(r)
         /\ \A r : Kept(r)' <=> r \in Called' \/ Waits(r)'
<1>1. DOMAIN queue = 1..Len(queue) /\ DOMAIN queue' = 1..Len(queue')
  BY LenProperties DEF IInv, TypeOK
<1>2. ASSUME NEW r PROVE Kept(r) <=> r \in Called \/ Waits(r)
  BY <1>1 DEF Kept, Waits, Trying
<1>3. ASSUME NEW r PROVE Kept(r)' <=> r \in Called' \/ Waits(r)'
  BY <1>1 DEF Kept, Waits, Trying
<1> QED
  BY <1>2, <1>3

LEMMA LosslessIf ==
  ASSUME IInv, IInv', Called \subseteq Called',
         \A r \in Issued : Waits(r) => Waits(r)' \/ r \in Called',
         \A r \in Issued' : r \notin Issued => Waits(r)'
  PROVE  Lossless
<1>1. ASSUME NEW r \in Issued', Lost(r)' PROVE Lost(r)
  <2>1. r \notin Called' /\ ~Waits(r)'
    BY <1>1, KeptWaits DEF Lost
  <2>2. r \in Issued /\ r \notin Called /\ ~Waits(r)
    BY <2>1
  <2> QED
    BY <2>2, KeptWaits DEF Lost
<1> QED
  BY <1>1 DEF Lossless

LEMMA QuietLossless ==
  ASSUME IInv, IInv', UNCHANGED <<queue, onResponseCall, hosts, calls>>, Trying => Trying'
  PROVE  Lossless
<1>1. Called' = Called /\ Issued' = Issued
  BY DEF Called, Issued
<1>2. \A r : Waits(r) => Waits(r)'
  BY DEF Waits
<1> QED
  BY <1>1, <1>2, LosslessIf

LEMMA DisconnectLossless ==
  ASSUME IInv, IInv', NEW more \in Hosts \cup {NoHost}, OnDisConnect(more), Trying => Trying'
  PROVE  Lossless
<1>1. CallBack(NoReq, more) /\ queue' = Queued(more) /\ NoReq \in Nat
  BY DEF OnDisConnect, NoReq
<1>2. /\ Issue(more, Pending \ {onResponseCall})
      /\ Called' = IF onResponseCall = NoReq THEN Called ELSE Called \cup {onResponseCall}
  BY <1>1, CallBackFacts DEF IInv
<1>3. /\ Issued' = IF more = NoHost THEN Issued ELSE Issued \cup {Len(hosts) + 1}
      /\ Len(hosts) \in Nat
  BY <1>2, IssueFacts DEF IInv
<1>4. NoReq \notin Issued
  BY <1>3 DEF Issued, NoReq
<1>5. /\ \A r : Waits(r) /\ r # onResponseCall => Waits(r)'
      /\ \A r : more # NoHost /\ r = Len(hosts) + 1 => Waits(r)'
  BY <1>1, <1>2, QueuedWaits
<1>6. \A r \in Issued : Waits(r) => Waits(r)' \/ r \in Called'
  BY <1>2, <1>4, <1>5
<1>7. \A r \in Issued' : r \notin Issued => Waits(r)'
  BY <1>3, <1>5
<1> QED
  BY <1>2, <1>6, <1>7, LosslessIf

LEMMA CloseOldLossless ==
  ASSUME IInv, IInv', NEW more \in Hosts \cup {NoHost}, CloseOld(more), Trying => Trying'
  PROVE  Lossless
<1>1. CASE client = "none"
  BY <1>1, QuietLossless DEF CloseOld, history
<1>2. CASE client # "none"
  BY <1>2, DisconnectLossless DEF CloseOld
<1> QED
  BY <1>1, <1>2

LEMMA GetLossless ==
  ASSUME IInv, IInv', NEW h \in Hosts, get(h)
  PROVE  Lossless
<1>1. /\ Issue(h, Pending) /\ queue' = Queued(h) /\ h \in Hosts \cup {NoHost} /\ h # NoHost
      /\ pc = "idle" /\ ~Trying /\ UNCHANGED <<calls, onResponseCall>>
  BY HostsAssumption DEF get, Trying
<1>2. Issued' = Issued \cup {Len(hosts) + 1} /\ Called' = Called
  BY <1>1, IssueFacts DEF IInv, Called
<1>3. /\ \A r : Waits(r) /\ r # onResponseCall => Waits(r)'
      /\ \A r : r = Len(hosts) + 1 => Waits(r)'
  BY <1>1, QueuedWaits
<1>4. \A r \in Issued : Waits(r) => Waits(r)'
  BY <1>1, <1>3 DEF Waits
<1> QED
  BY <1>2, <1>3, <1>4, LosslessIf

\* What is behind the front of the queue waits, and still does without it.
LEMMA TailWaits ==
  ASSUME NEW q \in QueueSeq, q # << >>, queue' = Tail(q),
         NEW i \in 1..Len(q), i # 1, q[i].questCount = 0, NEW r, q[i].req = r
  PROVE  Waits(r)'
<1>1. /\ Len(queue') = Len(q) - 1 /\ Len(q) \in Nat \ {0}
      /\ \A j \in 1..(Len(q) - 1) : queue'[j] = q[j + 1]
  BY TailFacts DEF QueueSeq
<1>2. i - 1 \in 1..(Len(q) - 1) /\ i - 1 + 1 = i
  BY <1>1
<1>3. i - 1 \in 1..Len(queue') /\ queue'[i - 1] = q[i]
  BY <1>1, <1>2
<1>4. queue'[i - 1].req = r /\ queue'[i - 1].questCount = 0
  BY <1>3
<1> QED
  BY <1>3, <1>4 DEF Waits

\* The request that nextRequest drops has been tried before.
LEMMA NextDropLossless ==
  ASSUME IInv, IInv', NextDrop
  PROVE  Lossless
<1>1. /\ pc = "idle" /\ queue # << >> /\ TriedEnough /\ queue' = Tail(queue)
      /\ ~Trying /\ UNCHANGED <<onResponseCall, hosts, calls>>
  BY DEF NextDrop, Trying, history
<1>2. Called' = Called /\ Issued' = Issued
  BY <1>1 DEF Called, Issued
<1>3. queue \in QueueSeq /\ Head(queue) = queue[1]
  BY <1>1, TailFacts DEF IInv, TypeOK, QueueSeq
<1>4. queue[1].questCount # 0
  BY <1>1, <1>3 DEF TriedEnough, maxQuestCount
<1>5. ASSUME NEW r, Waits(r) PROVE Waits(r)'
  <2>1. CASE r = onResponseCall
    BY <1>1, <2>1 DEF Waits
  <2>2. CASE r # onResponseCall
    <3>1. PICK i \in 1..Len(queue) : queue[i].req = r /\ queue[i].questCount = 0
      BY <1>1, <1>5, <2>2 DEF Waits
    <3>2. i # 1
      BY <1>4, <3>1
    <3> QED
      BY <1>1, <1>3, <3>1, <3>2, TailWaits
  <2> QED
    BY <2>1, <2>2
<1> QED
  BY <1>2, <1>5, LosslessIf

\* The request in front is tried: without an address nothing more is done for it.
LEMMA NextTryLoss ==
  ASSUME IInv, IInv', NextTry
  PROVE  LossOK
<1>1. /\ pc = "idle" /\ queue # << >> /\ ~TriedEnough
      /\ queue' = [queue EXCEPT ![1].questCount = @ + 1]
      /\ ~Trying /\ UNCHANGED <<onResponseCall, hosts, calls>>
  BY DEF NextTry, Trying, history
<1>2. Called' = Called /\ Issued' = Issued
  BY <1>1 DEF Called, Issued
<1>3. Trying' \/ pc' = "poll"
  BY DEF NextTry, Trying
<1>4. queue \in QueueSeq /\ Len(queue) \in Nat \ {0} /\ Head(queue) = queue[1]
  BY <1>1, TailFacts DEF IInv, TypeOK, QueueSeq
<1>5. Len(queue') = Len(queue) /\ \A i \in 1..Len(queue) : queue'[i].req = queue[i].req
                               /\ (i # 1 => queue'[i] = queue[i])
  BY <1>1, <1>4, ExceptSeq DEF QueueSeq
<1>6. ASSUME NEW r, Waits(r), r # Front \/ Trying' PROVE Waits(r)'
  <2>1. CASE r = onResponseCall
    BY <1>1, <2>1 DEF Waits
  <2>2. CASE r # onResponseCall
    <3>1. PICK i \in 1..Len(queue) : queue[i].req = r /\ queue[i].questCount = 0
      BY <1>1, <1>6, <2>2 DEF Waits
    <3>2. i \in 1..Len(queue') /\ queue'[i].req = r
      BY <1>5, <3>1
    <3>3. i = 1 => Trying'
      BY <1>4, <1>6, <3>1 DEF Front
    <3>4. i # 1 => queue'[i].questCount = 0
      BY <1>5, <3>1
    <3> QED
      BY <3>2, <3>3, <3>4 DEF Waits
  <2> QED
    BY <2>1, <2>2
<1>7. CASE Trying'
  <2>1. Lossless
    BY <1>2, <1>6, <1>7, LosslessIf
  <2> QED
    BY <2>1 DEF LossOK, Lossless
<1>8. CASE pc' = "poll"
  <2>1. ASSUME NEW r \in Issued', Lost(r)' PROVE Lost(r) \/ NoAddress(r)
    <3>1. CASE r = Front
      BY <1>8, <3>1 DEF NoAddress
    <3>2. CASE r # Front
      BY <1>2, <1>6, <2>1, <3>2, KeptWaits DEF Lost
    <3> QED
      BY <3>1, <3>2
  <2> QED
    BY <2>1 DEF LossOK
<1> QED
  BY <1>3, <1>7, <1>8

\* So also if the last of its addresses is skipped.
LEMMA SkipAddressLoss ==
  ASSUME IInv, IInv', SkipAddress
  PROVE  LossOK
<1>1. /\ pc = "connect" /\ pc' \in {"poll", "connect"}
      /\ UNCHANGED <<queue, onResponseCall, hosts, calls>>
  BY DEF SkipAddress, history
<1>2. CASE pc' = "connect"
  <2>1. Lossless
    BY <1>1, <1>2, QuietLossless DEF Trying
  <2> QED
    BY <2>1 DEF LossOK, Lossless
<1>3. CASE pc' = "poll"
  <2>1. Called' = Called /\ Issued' = Issued
    BY <1>1 DEF Called, Issued
  <2>2. queue # << >>
    BY <1>1 DEF IInv, QueueInv, Trying
  <2>3. Head(queue) = queue[1]
    BY <2>2, TailFacts DEF IInv, TypeOK
  <2>4. ASSUME NEW r, Waits(r), r # Front PROVE Waits(r)'
    BY <1>1, <2>3, <2>4 DEF Waits, Front
  <2>5. ASSUME NEW r \in Issued', Lost(r)' PROVE Lost(r) \/ NoAddress(r)
    <3>1. CASE r = Front
      BY <1>3, <3>1 DEF NoAddress
    <3>2. CASE r # Front
      BY <2>1, <2>4, <2>5, <3>2, KeptWaits DEF Lost
    <3> QED
      BY <3>1, <3>2
  <2> QED
    BY <2>5 DEF LossOK
<1> QED
  BY <1>1, <1>2, <1>3

\* The request that is sent takes the callback for itself.
LEMMA RequestLoss ==
  ASSUME IInv, IInv', Request
  PROVE  LossOK
<1>1. /\ pc = "request" /\ onResponseCall' = Front
      /\ UNCHANGED <<queue, hosts, calls>>
  BY DEF Request, history
<1>2. Called' = Called /\ Issued' = Issued
  BY <1>1 DEF Called, Issued
<1>3. queue # << >>
  BY <1>1 DEF IInv, QueueInv, Trying
<1>4. Head(queue) = queue[1]
  BY <1>3, TailFacts DEF IInv, TypeOK
<1>5. ASSUME NEW r, Waits(r), r # onResponseCall \/ r = Front PROVE Waits(r)'
  BY <1>1, <1>4, <1>5 DEF Waits, Front
<1>6. ASSUME NEW r \in Issued', Lost(r)' PROVE Lost(r) \/ Overtaken(r)
  <2>1. CASE r = onResponseCall /\ r # Front
    BY <2>1 DEF Overtaken
  <2>2. CASE r # onResponseCall \/ r = Front
    BY <1>2, <1>5, <1>6, <2>2, KeptWaits DEF Lost
  <2> QED
    BY <2>1, <2>2
<1> QED
  BY <1>6 DEF LossOK

\* The callback is called, whatever answer it is for; the front of the queue
\* is removed, whichever request it is.
LEMMA AnsweredLoss ==
  ASSUME IInv, IInv', NEW more \in Hosts \cup {NoHost}, OnNetMsg(more) \/ OnNetMsgClose(more)
  PROVE  LossOK
<1> DEFINE q == Queued(more)
<1>1. /\ answers # << >> /\ CallBack(Head(answers).req, more) /\ pc = "msg" /\ ~Trying
      /\ queue' = IF q = << >> THEN << >> ELSE Tail(q)
  BY DEF OnNetMsg, OnNetMsgClose, Answered, Trying
<1>2. Head(answers).req \in Nat
  <2>1. Head(answers) \in [req : Nat \ {0}, keep : BOOLEAN]
    BY <1>1, HeadTailProperties DEF IInv, TypeOK
  <2> QED
    BY <2>1
<1>3. /\ Issue(more, Pending \ {onResponseCall})
      /\ Called' = IF onResponseCall = NoReq THEN Called ELSE Called \cup {onResponseCall}
  BY <1>1, <1>2, CallBackFacts DEF IInv
<1>4. /\ Issued' = IF more = NoHost THEN Issued ELSE Issued \cup {Len(hosts) + 1}
      /\ Len(hosts) \in Nat
  BY <1>3, IssueFacts DEF IInv
<1>5. NoReq \notin Issued
  BY <1>4 DEF Issued, NoReq
<1>6. /\ q \in QueueSeq
      /\ Len(q) = IF more = NoHost THEN Len(queue) ELSE Len(queue) + 1
      /\ \A i \in 1..Len(queue) : q[i] = queue[i]
      /\ more # NoHost => q[Len(queue) + 1] = [req |-> Len(hosts) + 1, questCount |-> 0]
      /\ Len(queue) \in Nat
  BY <1>3, QueuedFacts DEF IInv
<1> HIDE DEF q
<1>7. ASSUME NEW i \in 1..Len(q), i # 1, q[i].questCount = 0, NEW r, q[i].req = r
      PROVE  Waits(r)'
  <2>1. q # << >>
    BY <1>6, <1>7, EmptySeq DEF QueueSeq
  <2> QED
    BY <1>1, <1>6, <1>7, <2>1, TailWaits
<1>8. queue # << >> => Front = queue[1].req /\ Head(queue) = queue[1]
  BY TailFacts DEF Front, IInv, TypeOK
<1>9. queue = << >> <=> Len(queue) = 0
  BY EmptySeq DEF IInv, TypeOK
<1>10. ASSUME NEW r \in Issued, Waits(r), ~PoppedUntried(r) PROVE Waits(r)' \/ r \in Called'
  <2>1. CASE r = onResponseCall
    BY <1>3, <1>5, <2>1
  <2>2. CASE r # onResponseCall
    <3>1. PICK i \in 1..Len(queue) : queue[i].req = r /\ queue[i].questCount = 0
      BY <1>1, <1>10, <2>2 DEF Waits
    <3>2. queue # << >>
      BY <1>6, <1>9, <3>1
    <3>3. i # 1
      BY <1>8, <1>10, <3>1, <3>2 DEF PoppedUntried
    <3>4. i \in 1..Len(q) /\ q[i].req = r /\ q[i].questCount = 0
      BY <1>6, <3>1
    <3> QED
      BY <1>7, <3>3, <3>4
  <2> QED
    BY <2>1, <2>2
<1>11. ASSUME NEW r \in Issued', r \notin Issued, ~PoppedUntried(r) PROVE Waits(r)'
  <2>1. more # NoHost /\ r = Len(hosts) + 1
    BY <1>4, <1>11
  <2>2. queue # << >>
    BY <1>11, <2>1 DEF PoppedUntried
  <2>3. Len(queue) + 1 \in 1..Len(q) /\ Len(queue) + 1 # 1
    BY <1>6, <1>9, <2>1, <2>2
  <2>4. q[Len(queue) + 1].req = r /\ q[Len(queue) + 1].questCount = 0
    BY <1>6, <2>1
  <2> QED
    BY <1>7, <2>3, <2>4
<1>12. Called \subseteq Called'
  BY <1>3
<1>13. ASSUME NEW r \in Issued', Lost(r)' PROVE Lost(r) \/ PoppedUntried(r)
  <2>1. r \notin Called' /\ ~Waits(r)'
    BY <1>13, KeptWaits DEF Lost
  <2>2. ASSUME ~PoppedUntried(r) PROVE Lost(r)
    <3>1. r \in Issued /\ r \notin Called /\ ~Waits(r)
      BY <1>10, <1>11, <1>12, <2>1, <2>2
    <3> QED
      BY <3>1, KeptWaits DEF Lost
  <2> QED
    BY <2>2
<1> QED
  BY <1>13 DEF LossOK

\* There are three ways to lose a request, and no other, whatever program, servers
\* and network do: its callback's place is taken by the next request (url2get
\* sets _onResponseCall while another waits), no address of its server can be
\* had (hostname2ip), or OnNetMsg pops it untried for an answer that was not
\* its own.  OnDisConnect loses none, nor does the drop in nextRequest; and
\* after a refused SendData or connect() the callback waits all the same.
THEOREM ThreeWaysToLose == Spec => LossKnown
<1>1. IInv /\ IInv' /\ Next => LossOK
  <2> SUFFICES ASSUME IInv, IInv', Next PROVE LossOK
    OBVIOUS
  <2>1. ASSUME Lossless PROVE LossOK
    BY <2>1 DEF LossOK, Lossless
  <2>2. CASE \E h \in Hosts : get(h)
    BY <2>1, <2>2, GetLossless
  <2>3. CASE NextDrop
    BY <2>1, <2>3, NextDropLossless
  <2>4. CASE NextTry
    BY <2>4, NextTryLoss
  <2>5. CASE SkipAddress
    BY <2>5, SkipAddressLoss
  <2>6. CASE Request
    BY <2>6, RequestLoss
  <2>7. CASE \E more \in Hosts \cup {NoHost} : Connect(more)
    <3>1. PICK more \in Hosts \cup {NoHost} : Connect(more)
      BY <2>7
    <3>2. CloseOld(more) /\ Trying'
      BY <3>1 DEF Connect, Trying
    <3> QED
      BY <2>1, <3>2, CloseOldLossless
  <2>8. CASE \E more \in Hosts \cup {NoHost}, result \in {"none", "made"} :
               ConnectFail(result, more)
    <3>1. PICK more \in Hosts \cup {NoHost}, result \in {"none", "made"} :
               ConnectFail(result, more)
      BY <2>8
    <3>2. CloseOld(more) /\ Trying'
      BY <3>1 DEF ConnectFail, Trying
    <3> QED
      BY <2>1, <3>2, CloseOldLossless
  <2>9. CASE \E more \in Hosts \cup {NoHost} : LinkError(more)
    <3>1. PICK more \in Hosts \cup {NoHost} : LinkError(more)
      BY <2>9
    <3>2. OnDisConnect(more) /\ ~Trying
      BY <3>1 DEF LinkError, Close, Trying
    <3> QED
      BY <2>1, <3>2, DisconnectLossless
  <2>10. CASE \E more \in Hosts \cup {NoHost} : OnNetMsg(more) \/ OnNetMsgClose(more)
    BY <2>10, AnsweredLoss
  <2>11. ASSUME UNCHANGED <<queue, onResponseCall, hosts, calls>>,
                pc' = pc \/ pc \notin {"connect", "request"}
         PROVE  LossOK
    <3>1. Trying => Trying'
      BY <2>11 DEF Trying
    <3> QED
      BY <2>1, <2>11, <3>1, QuietLossless
  <2>12. CASE NextNone \/ PollIdle \/ Recv \/ MsgEnd \/ Send \/ ServerClose
    BY <2>11, <2>12 DEF NextNone, PollIdle, Recv, MsgEnd, Send, ServerClose, link, history
  <2>13. CASE \E in, out \in BOOLEAN : Poll(in, out)
    BY <2>11, <2>13 DEF Poll, link, history
  <2>14. CASE \E keep \in BOOLEAN : Answer(keep)
    BY <2>11, <2>14 DEF Answer, history
  <2> QED
    BY <2>2, <2>3, <2>4, <2>5, <2>6, <2>7, <2>8, <2>9, <2>10, <2>12, <2>13, <2>14
    DEF Next, OnRun
<1> QED
  BY <1>1, Inductive, PTL DEF Spec, LossKnown
===============================================================================
