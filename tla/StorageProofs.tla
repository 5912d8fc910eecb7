---------------------------- MODULE StorageProofs ----------------------------
(***************************************************************************)
(* A proof about StorageOpen for every number of callers, windows and      *)
(* requests to open the database.                                          *)
(***************************************************************************)
EXTENDS StorageOpen, TLAPS

Shape ==
  /\ queue \in Seq(Requests)
  /\ request \in [Requests -> [resolved : BOOLEAN, timer : BOOLEAN]]
  /\ db \in Requests \cup {NoRequest} /\ opening \in Requests \cup {NoRequest}

\* A request that is still to be answered waits for the browser, is the one
\* that callers share, and there is no connection yet.
Pending(r) == ~request[r].resolved /\ (r \in ToSet(queue) \/ request[r].timer)

OnePending ==
  \A r \in Requests : Pending(r) => r \in ToSet(queue) /\ r = opening /\ db = NoRequest

ConnectionInv == Shape /\ OnePending /\ OneConnection

LEMMA QueueFacts ==
  ASSUME NEW q \in Seq(Requests), NEW r \in Requests
  PROVE  /\ Append(q, r) \in Seq(Requests) /\ ToSet(Append(q, r)) = ToSet(q) \cup {r}
         /\ q # <<>> => /\ Head(q) \in Requests /\ Tail(q) \in Seq(Requests)
                        /\ Head(q) \in ToSet(q) /\ ToSet(Tail(q)) \subseteq ToSet(q)
                        /\ ToSet(q) \subseteq ToSet(Tail(q)) \cup {Head(q)}
<1>1. /\ Append(q, r) \in Seq(Requests)
      /\ q # <<>> => Head(q) \in Requests /\ Tail(q) \in Seq(Requests)
  OBVIOUS
<1>2. ToSet(Append(q, r)) = ToSet(q) \cup {r}
  <2>1. /\ DOMAIN Append(q, r) = 1 .. Len(q) + 1 /\ DOMAIN q = 1 .. Len(q) /\ Len(q) \in Nat
        /\ Append(q, r)[Len(q) + 1] = r /\ \A i \in 1 .. Len(q) : Append(q, r)[i] = q[i]
    OBVIOUS
  <2> QED
    BY <2>1 DEF ToSet
<1>3. ASSUME q # <<>>
      PROVE  /\ Head(q) \in ToSet(q) /\ ToSet(Tail(q)) \subseteq ToSet(q)
             /\ ToSet(q) \subseteq ToSet(Tail(q)) \cup {Head(q)}
  <2>1. /\ DOMAIN q = 1 .. Len(q) /\ Len(q) \in Nat \ {0} /\ Head(q) = q[1]
        /\ DOMAIN Tail(q) = 1 .. Len(q) - 1 /\ \A i \in 1 .. Len(q) - 1 : Tail(q)[i] = q[i + 1]
    BY <1>3
  <2>2. Head(q) \in ToSet(q) /\ ToSet(Tail(q)) \subseteq ToSet(q)
    BY <2>1 DEF ToSet
  <2>3. ASSUME NEW i \in 1 .. Len(q) PROVE q[i] \in ToSet(Tail(q)) \cup {Head(q)}
    <3>1. CASE i = 1
      BY <2>1, <3>1
    <3>2. CASE i # 1
      <4>1. i - 1 \in 1 .. Len(q) - 1 /\ Tail(q)[i - 1] = q[i]
        BY <2>1, <3>2
      <4> QED
        BY <2>1, <4>1 DEF ToSet
    <3> QED
      BY <3>1, <3>2
  <2> QED
    BY <2>1, <2>2, <2>3 DEF ToSet
<1> QED
  BY <1>1, <1>2, <1>3

LEMMA NoRequestIsNone == NoRequest \notin Requests
  BY DEF NoRequest, Requests

\* The browser has answered the head of the queue, which may have given up.
LEMMA HeadAnswered ==
  ASSUME ConnectionInv, queue # <<>>, queue' = Tail(queue),
         IF request[Head(queue)].resolved THEN UNCHANGED request
         ELSE request' = [request EXCEPT ![Head(queue)].resolved = TRUE]
  PROVE  /\ queue' \in Seq(Requests)
         /\ request' \in [Requests -> [resolved : BOOLEAN, timer : BOOLEAN]]
         /\ \A r \in Requests : ~Pending(r)' \/ (Pending(r) /\ r # Head(queue))
         /\ ~request[Head(queue)].resolved => \A r \in Requests : ~Pending(r)'
<1> DEFINE head == Head(queue)
<1>1. /\ head \in Requests /\ head \in ToSet(queue) /\ Tail(queue) \in Seq(Requests)
      /\ ToSet(queue') \subseteq ToSet(queue)
  BY QueueFacts DEF ConnectionInv, Shape
<1> HIDE DEF head
<1>2. /\ request' \in [Requests -> [resolved : BOOLEAN, timer : BOOLEAN]]
      /\ request'[head].resolved
      /\ \A r \in Requests : request'[r].timer = request[r].timer
      /\ \A r \in Requests \ {head} : request'[r] = request[r]
  BY <1>1, ZenonT(40) DEF ConnectionInv, Shape, head
<1>3. \A r \in Requests : ~Pending(r)' \/ (Pending(r) /\ r # head)
  BY <1>1, <1>2 DEF Pending
<1>4. ASSUME ~request[head].resolved, NEW r \in Requests PROVE ~Pending(r)'
  <2>1. Pending(head) /\ head = opening
    BY <1>1, <1>4 DEF ConnectionInv, OnePending, Pending
  <2> QED
    BY <2>1, <1>3 DEF ConnectionInv, OnePending
<1> QED
  BY <1>1, <1>2, <1>3, <1>4 DEF Shape, head

LEMMA ConnectionStep ==
  ASSUME ConnectionInv, [Next]_vars
  PROVE  ConnectionInv'
<1> USE NoRequestIsNone
<1>0. CASE UNCHANGED vars
  BY <1>0 DEF vars, ConnectionInv, Shape, OnePending, Pending, OneConnection
<1>1. ASSUME NEW c \in Callers, CallInit(c) PROVE ConnectionInv'
  <2>0. UNCHANGED <<request, handles, db>>
    BY <1>1 DEF CallInit
  <2>1. CASE UNCHANGED <<queue, opening>>
    BY <2>0, <2>1 DEF ConnectionInv, Shape, OnePending, Pending, OneConnection
  <2>2. CASE /\ db = NoRequest /\ opening = NoRequest /\ NextRequest \in Requests
             /\ queue' = Append(queue, NextRequest) /\ opening' = NextRequest
    <3>1. queue' \in Seq(Requests) /\ ToSet(queue') = ToSet(queue) \cup {NextRequest}
      BY <2>2, QueueFacts DEF ConnectionInv, Shape
    <3>2. \A r \in Requests : ~Pending(r)
      BY <2>2 DEF ConnectionInv, OnePending
    <3> QED
      BY <2>0, <2>2, <3>1, <3>2 DEF ConnectionInv, Shape, OnePending, Pending, OneConnection
  <2> QED
    BY <1>1, <2>1, <2>2 DEF CallInit
<1>2. CASE Blocked
  <2>1. Head(queue) \in Requests /\ Head(queue) \in ToSet(queue)
    BY <1>2, QueueFacts DEF Blocked, ConnectionInv, Shape
  <2>2. /\ request' \in [Requests -> [resolved : BOOLEAN, timer : BOOLEAN]]
        /\ \A r \in Requests : request'[r].resolved = request[r].resolved
        /\ \A r \in Requests \ {Head(queue)} : request'[r] = request[r]
    BY <1>2, <2>1 DEF Blocked, ConnectionInv, Shape
  <2>3. UNCHANGED <<queue, handles, db, opening>>
    BY <1>2 DEF Blocked
  <2>4. \A r \in Requests : Pending(r)' => Pending(r)
    BY <2>1, <2>2, <2>3 DEF Pending
  <2> QED
    BY <2>2, <2>3, <2>4 DEF ConnectionInv, Shape, OnePending, OneConnection
<1>3. ASSUME NEW r \in Requests, Timeout(r) PROVE ConnectionInv'
  <2>1. /\ UNCHANGED <<queue, handles, db>> /\ opening' = NoRequest
        /\ request' = [request EXCEPT ![r].resolved = TRUE]
        /\ Pending(r)
    BY <1>3 DEF Timeout, Fail, Pending
  <2>2. /\ request' \in [Requests -> [resolved : BOOLEAN, timer : BOOLEAN]]
        /\ request'[r].resolved /\ \A s \in Requests \ {r} : request'[s] = request[s]
    BY <2>1 DEF ConnectionInv, Shape
  <2>3. \A s \in Requests : Pending(s)' => Pending(s) /\ s # r
    BY <2>1, <2>2 DEF Pending
  <2>4. \A s \in Requests : ~Pending(s)'
    BY <2>1, <2>3 DEF ConnectionInv, OnePending
  <2> QED
    BY <2>1, <2>2, <2>4 DEF ConnectionInv, Shape, OnePending, OneConnection
<1>4. CASE Opened
  <2>1. queue # <<>> /\ queue' = Tail(queue) /\ Success(Head(queue)) /\ UNCHANGED opening
    BY <1>4 DEF Opened
  <2>2. Head(queue) \in Requests /\ Head(queue) \in ToSet(queue)
    BY <2>1, QueueFacts DEF ConnectionInv, Shape
  <2>3. IF request[Head(queue)].resolved THEN UNCHANGED request
        ELSE request' = [request EXCEPT ![Head(queue)].resolved = TRUE]
    BY <2>1 DEF Success
  <2>4. CASE request[Head(queue)].resolved
    <3>1. UNCHANGED <<request, handles, db>>
      BY <2>1, <2>4 DEF Success
    <3>2. queue' \in Seq(Requests) /\ ToSet(queue') \subseteq ToSet(queue)
      BY <2>1, <2>2, QueueFacts DEF ConnectionInv, Shape
    <3>3. \A r \in Requests : Pending(r)' => Pending(r) /\ r # Head(queue)
      BY <2>4, <3>1, <3>2 DEF Pending
    <3>4. ToSet(queue) \subseteq ToSet(queue') \cup {Head(queue)}
      BY <2>1, <2>2, QueueFacts DEF ConnectionInv, Shape
    <3> QED
      BY <2>1, <3>1, <3>2, <3>3, <3>4 DEF ConnectionInv, Shape, OnePending, OneConnection
  <2>5. CASE ~request[Head(queue)].resolved
    <3>1. /\ handles' = handles \cup {Head(queue)} /\ db' = Head(queue)
      BY <2>1, <2>5 DEF Success
    <3>2. db = NoRequest
      BY <2>2, <2>5 DEF ConnectionInv, OnePending, Pending
    <3>3. Shape' /\ \A r \in Requests : ~Pending(r)'
      BY <2>1, <2>2, <2>3, <2>5, <3>1, HeadAnswered DEF ConnectionInv, Shape
    <3> QED
      BY <2>2, <3>1, <3>2, <3>3 DEF ConnectionInv, OnePending, OneConnection
  <2> QED
    BY <2>4, <2>5
<1>5. CASE OpenError
  <2>1. /\ queue # <<>> /\ queue' = Tail(queue) /\ UNCHANGED <<handles, db>>
        /\ IF request[Head(queue)].resolved THEN UNCHANGED <<request, opening>>
           ELSE request' = [request EXCEPT ![Head(queue)].resolved = TRUE] /\ opening' = NoRequest
    BY <1>5 DEF OpenError, Fail
  <2>2. Head(queue) \in Requests /\ Head(queue) \in ToSet(queue)
    BY <2>1, QueueFacts DEF ConnectionInv, Shape
  <2>3. CASE request[Head(queue)].resolved
    <3>1. queue' \in Seq(Requests) /\ ToSet(queue') \subseteq ToSet(queue)
          /\ ToSet(queue) \subseteq ToSet(queue') \cup {Head(queue)}
      BY <2>1, <2>2, QueueFacts DEF ConnectionInv, Shape
    <3>2. \A r \in Requests : Pending(r)' => Pending(r) /\ r # Head(queue)
      BY <2>1, <2>3, <3>1 DEF Pending
    <3> QED
      BY <2>1, <2>3, <3>1, <3>2 DEF ConnectionInv, Shape, OnePending, OneConnection
  <2>4. CASE ~request[Head(queue)].resolved
    <3>1. Shape' /\ \A r \in Requests : ~Pending(r)'
      BY <2>1, <2>2, <2>4, HeadAnswered DEF ConnectionInv, Shape
    <3> QED
      BY <2>1, <3>1 DEF ConnectionInv, OnePending, OneConnection
  <2> QED
    BY <2>3, <2>4
<1>6. CASE HearUpgrade
  <2>1. /\ handles' = {} /\ db' = NoRequest /\ opening' = NoRequest /\ db \in handles
        /\ UNCHANGED <<queue, request>>
    BY <1>6 DEF HearUpgrade, VersionChange
  <2>2. db # NoRequest
    BY <2>1 DEF ConnectionInv, OneConnection
  <2>3. \A r \in Requests : ~Pending(r)
    BY <2>2 DEF ConnectionInv, OnePending
  <2> QED
    BY <2>1, <2>3 DEF ConnectionInv, Shape, OnePending, Pending, OneConnection
<1>7. ASSUME NEW o \in Others,
             OtherOpen(o) \/ OtherClose(o) \/ OtherUpgrade(o) \/ OtherUpgraded(o)
      PROVE  ConnectionInv'
  <2>1. UNCHANGED <<queue, request, handles, db, opening>>
    BY <1>7 DEF OtherOpen, OtherClose, OtherUpgrade, OtherUpgraded
  <2> QED
    BY <2>1 DEF ConnectionInv, Shape, OnePending, Pending, OneConnection
<1> QED
  BY <1>0, <1>1, <1>2, <1>3, <1>4, <1>5, <1>6, <1>7 DEF Next, Browser

(* OneConnection (StorageOpen): however many callers ask, however often    *)
(* other windows block, upgrade and close, and whichever answer comes      *)
(* after its timeout, the only open connection is the one in this.db.      *)
THEOREM ConnectionCorrect == Spec => []OneConnection
<1>1. Init => ConnectionInv
  BY DEF Init, ConnectionInv, Shape, OnePending, OneConnection, Pending, Fresh, ToSet
<1>2. ConnectionInv /\ [Next]_vars => ConnectionInv'
  BY ConnectionStep
<1>3. ConnectionInv => OneConnection
  BY DEF ConnectionInv
<1> QED
  BY <1>1, <1>2, <1>3, PTL DEF Spec
=============================================================================
