---------------------------- MODULE LifecycleProofs ----------------------------
(***************************************************************************)
(* Theorems about ServerLifecycle, for any number of requests, statements  *)
(* and connections.                                                        *)
(***************************************************************************)
EXTENDS ServerLifecycle, SequenceTheorems, TLAPS

(***************************************************************************)
(* The queue.                                                              *)
(***************************************************************************)
\* What RemoveAt leaves of a sequence: End takes a request out of the queue.
LEMMA RemoveAtProperties ==
  ASSUME NEW S, NEW s \in Seq(S), NEW i \in 1..Len(s)
  PROVE  /\ RemoveAt(s, i) \in Seq(S)
         /\ Len(RemoveAt(s, i)) = Len(s) - 1
         /\ \A k \in 1..(Len(s) - 1) : RemoveAt(s, i)[k] = IF k < i THEN s[k] ELSE s[k + 1]
<1>0. Len(s) \in Nat /\ \A k \in 1..Len(s) : s[k] \in S
  BY LenProperties, ElementOfSeq
<1> DEFINE a == SubSeq(s, 1, i - 1)
           b == SubSeq(s, i + 1, Len(s))
<1>1. /\ a \in Seq(S) /\ Len(a) = i - 1
      /\ \A k \in 1..(i - 1) : a[k] = s[k]
  <2>1. \A k \in 1..(i - 1) : s[k] \in S
    BY <1>0
  <2>2. /\ a \in Seq(S)
        /\ Len(a) = IF 1 <= i - 1 THEN (i - 1) - 1 + 1 ELSE 0
        /\ \A k \in 1..((i - 1) - 1 + 1) : a[k] = s[1 + k - 1]
    BY <2>1, SubSeqProperties, <1>0
  <2> QED
    BY <2>2, <1>0
<1>2. /\ b \in Seq(S) /\ Len(b) = Len(s) - i
      /\ \A k \in 1..(Len(s) - i) : b[k] = s[i + k]
  <2>1. \A k \in (i + 1)..Len(s) : s[k] \in S
    BY <1>0
  <2>2. /\ b \in Seq(S)
        /\ Len(b) = IF i + 1 <= Len(s) THEN Len(s) - (i + 1) + 1 ELSE 0
        /\ \A k \in 1..(Len(s) - (i + 1) + 1) : b[k] = s[(i + 1) + k - 1]
    BY <2>1, SubSeqProperties, <1>0
  <2> QED
    BY <2>2, <1>0
<1>3. /\ a \o b \in Seq(S) /\ Len(a \o b) = Len(a) + Len(b)
      /\ \A k \in 1..(Len(a) + Len(b)) : (a \o b)[k] = IF k <= Len(a) THEN a[k] ELSE b[k - Len(a)]
  BY <1>1, <1>2, ConcatProperties
<1>4. RemoveAt(s, i) = a \o b
  BY DEF RemoveAt
<1> HIDE DEF a, b
<1>5. \A k \in 1..(Len(s) - 1) : (a \o b)[k] = IF k < i THEN s[k] ELSE s[k + 1]
  <2> TAKE k \in 1..(Len(s) - 1)
  <2>1. k \in 1..(Len(a) + Len(b))
    BY <1>0, <1>1, <1>2
  <2>2. CASE k < i
    <3>1. k <= Len(a) /\ k \in 1..(i - 1)
      BY <2>2, <1>0, <1>1
    <3> QED
      BY <3>1, <2>1, <2>2, <1>1, <1>3
  <2>3. CASE k >= i
    <3>1. ~(k <= Len(a)) /\ k - Len(a) \in 1..(Len(s) - i) /\ i + (k - Len(a)) = k + 1
      BY <2>3, <1>0, <1>1
    <3>2. (a \o b)[k] = b[k - Len(a)]
      BY <3>1, <2>1, <1>3
    <3>3. b[k - Len(a)] = s[i + (k - Len(a))]
      BY <3>1, <1>2
    <3>4. b[k - Len(a)] = s[k + 1]
      BY <3>1, <3>3
    <3>5. ~(k < i)
      BY <2>3, <1>0
    <3>6. (a \o b)[k] = s[k + 1]
      BY <3>2, <3>4, Zenon
    <3> QED
      BY <3>5, <3>6, Zenon
  <2>4. k < i \/ k >= i
    BY <1>0
  <2> QED
    BY <2>2, <2>3, <2>4, Zenon
<1>6. Len(a \o b) = Len(s) - 1
  BY <1>0, <1>1, <1>2, <1>3
<1> QED
  BY <1>3, <1>4, <1>5, <1>6
(***************************************************************************)
(* What the inductive invariant says of one request.                       *)
(***************************************************************************)
\* Who neither runs a statement nor has a transaction open holds nothing.
LEMMA HoldsNothing ==
  ASSUME LifecycleInv, NEW r \in Requests,
         phase[r] \notin {"query", "ready", "commit", "dropped"}
  PROVE  tx[r] = None /\ own[r] = None /\ Held(r) = {}
BY DEF LifecycleInv, Holders, Held

\* While a request is in progress run() has not announced a graceful stop.
LEMMA BusyMeansNotOk ==
  ASSUME LifecycleInv, NEW r \in Requests, phase[r] \in InProgress
  PROVE  code # "ok"
BY DEF LifecycleInv, Stages, Busy

(***************************************************************************)
(* One step of a request.                                                  *)
(***************************************************************************)
LEMMA AcceptKeeps ==
  ASSUME LifecycleInv, NEW r \in Requests, NEW w \in {"tx", "plain"}, NEW n \in 0..MaxStatements,
         Accept(r, w, n)
  PROVE  LifecycleInv'
<1> USE DEF Accept
<1>0. n \in Nat
  BY BoundIsNat
<1> DEFINE next == CASE n = 0 -> "answered"
                     [] n > 0 /\ w = "tx" -> "begin"
                     [] n > 0 /\ w = "plain" -> "ready"
<1>a. /\ next \in {"answered", "begin", "ready"}
      /\ n = 0 => next = "answered"
  <2>1. CASE n = 0
    BY <2>1
  <2>2. CASE n > 0 /\ w = "tx"
    BY <2>2, <1>0
  <2>3. CASE n > 0 /\ w = "plain"
    BY <2>3, <1>0
  <2> QED
    BY <2>1, <2>2, <2>3, <1>0
<1>b. phase' = [phase EXCEPT ![r] = next]
  OBVIOUS
<1> HIDE DEF next
<1>c. phase'[r] = next
  BY <1>b DEF LifecycleInv, TypeOK
<1>1. /\ phase[r] = "none" /\ srv = "listening" /\ Alive
      /\ phase' = [phase EXCEPT ![r] = phase'[r]]
      /\ phase'[r] \in {"answered", "begin", "ready"}
      /\ n = 0 => phase'[r] = "answered"
      /\ left' = [left EXCEPT ![r] = n] /\ work' = [work EXCEPT ![r] = w]
  BY <1>a, <1>b, <1>c
<1>2. /\ UNCHANGED <<main, code, srv, crashed, signal, closed, tx, own, idle, queue>>
  BY DEF mainVars
<1> HIDE DEF Accept
<1>3. \A q \in Requests : q # r => /\ phase'[q] = phase[q] /\ work'[q] = work[q]
                                   /\ left'[q] = left[q]
  BY <1>1 DEF LifecycleInv, TypeOK
<1>4. tx[r] = None /\ own[r] = None /\ Held(r) = {}
  BY <1>1, HoldsNothing
<1>5. left'[r] = n
  BY <1>1 DEF LifecycleInv, TypeOK
<1>6. TypeOK'
  BY <1>0, <1>1, <1>2 DEF LifecycleInv, TypeOK, Phases, InProgress, Ended
<1>7. QueueWaits'
  <2>1. Alive' => \A i \in 1..Len(queue') : phase'[queue'[i]] = "waiting"
    <3> SUFFICES ASSUME NEW i \in 1..Len(queue)
                 PROVE  phase'[queue[i]] = "waiting"
      BY <1>2
    <3>1. queue[i] \in Requests /\ phase[queue[i]] = "waiting"
      BY <1>1, ElementOfSeq DEF LifecycleInv, TypeOK, QueueWaits
    <3> QED
      BY <3>1, <1>1, <1>3
  <2> QED
    BY <2>1, <1>2 DEF LifecycleInv, QueueWaits
<1>8. Holders'
  BY <1>0, <1>1, <1>2, <1>3, <1>4, <1>5 DEF LifecycleInv, Holders
<1>9. code # "ok"
  BY <1>1 DEF LifecycleInv, Stages
<1>10. Stages'
  BY <1>1, <1>2, <1>3, <1>9 DEF LifecycleInv, Stages
<1>11. ConnsAccounted'
  BY <1>1, <1>2, <1>3, <1>4 DEF LifecycleInv, ConnsAccounted, Held
<1>12. GracefulStop'
  BY <1>2, <1>9 DEF GracefulStop
<1>13. PoolOutlivesServer'
  BY <1>1, <1>2, <1>3 DEF LifecycleInv, PoolOutlivesServer
<1> QED
  BY <1>6, <1>7, <1>8, <1>10, <1>11, <1>12, <1>13 DEF LifecycleInv

LEMMA AskKeeps ==
  ASSUME LifecycleInv, NEW r \in Requests, Ask(r)
  PROVE  LifecycleInv'
<1>1. /\ phase[r] \in {"begin", "ready"} /\ Alive
      /\ phase' = [phase EXCEPT ![r] = "waiting"]
      /\ queue' = Append(queue, r)
      /\ UNCHANGED <<main, code, srv, crashed, signal, closed, left, work, tx, own, idle>>
  BY DEF Ask, mainVars
<1>2. tx[r] = None /\ own[r] = None /\ left[r] > 0
  BY DEF Ask, FromPool, LifecycleInv, Holders
<1>3. /\ phase'[r] = "waiting"
      /\ \A q \in Requests : q # r => phase'[q] = phase[q]
  BY <1>1 DEF LifecycleInv, TypeOK
<1>4. /\ queue' \in Seq(Requests) /\ Len(queue') = Len(queue) + 1
      /\ \A i \in 1..Len(queue) : queue'[i] = queue[i]
      /\ queue'[Len(queue) + 1] = r /\ Len(queue) \in Nat
  BY <1>1, AppendProperties, LenProperties DEF LifecycleInv, TypeOK
<1>5. TypeOK'
  BY <1>1, <1>4 DEF LifecycleInv, TypeOK, Phases, InProgress
<1>6. QueueWaits'
  <2>1. \A i \in 1..Len(queue) : queue[i] \in Requests /\ phase[queue[i]] = "waiting"
    BY <1>1, ElementOfSeq DEF LifecycleInv, TypeOK, QueueWaits
  <2>2. \A i \in 1..Len(queue) : queue[i] # r
    BY <2>1, <1>1
  <2>3. \A i \in 1..Len(queue') : phase'[queue'[i]] = "waiting"
    BY <2>1, <2>2, <1>3, <1>4
  <2>4. \A i, j \in 1..Len(queue) : queue[i] = queue[j] => i = j
    BY DEF LifecycleInv, QueueWaits
  <2>5. \A i, j \in 1..Len(queue') : queue'[i] = queue'[j] => i = j
    <3> TAKE i, j \in 1..Len(queue')
    <3>1. (i \in 1..Len(queue) \/ i = Len(queue) + 1) /\ (j \in 1..Len(queue) \/ j = Len(queue) + 1)
      BY <1>4
    <3> QED
      BY <3>1, <2>2, <2>4, <1>4
  <2> QED
    BY <2>3, <2>5 DEF QueueWaits
<1>7. Holders'
  BY <1>1, <1>2, <1>3 DEF LifecycleInv, Holders
<1>8. code # "ok"
  BY <1>1, BusyMeansNotOk DEF InProgress
<1>9. Stages'
  BY <1>1, <1>3, <1>8 DEF LifecycleInv, Stages
<1>10. ConnsAccounted'
  BY <1>1, <1>2, <1>3 DEF LifecycleInv, ConnsAccounted, Held, InProgress
<1>11. GracefulStop'
  BY <1>1, <1>8 DEF GracefulStop
<1>12. PoolOutlivesServer'
  BY <1>1, <1>3 DEF LifecycleInv, PoolOutlivesServer
<1> QED
  BY <1>5, <1>6, <1>7, <1>9, <1>10, <1>11, <1>12 DEF LifecycleInv
LEMMA GrantKeeps ==
  ASSUME LifecycleInv, NEW c \in Conns, Grant(c)
  PROVE  LifecycleInv'
<1>0. PICK r : r = Head(queue)
  OBVIOUS
<1> DEFINE begins == work[r] = "tx" /\ tx[r] = None
<1>1. /\ Alive /\ closed = "no" /\ queue # <<>> /\ c \in idle
      /\ phase' = [phase EXCEPT ![r] = IF begins THEN "ready" ELSE "query"]
      /\ tx' = IF begins THEN [tx EXCEPT ![r] = c] ELSE tx
      /\ own' = IF begins THEN own ELSE [own EXCEPT ![r] = c]
      /\ idle' = idle \ {c} /\ queue' = Tail(queue)
      /\ UNCHANGED <<main, code, srv, crashed, signal, closed, left, work>>
  BY <1>0 DEF Grant, mainVars
<1>2. /\ queue \in Seq(Requests) /\ Len(queue) \in Nat /\ Len(queue) > 0
      /\ queue' \in Seq(Requests) /\ Len(queue') = Len(queue) - 1
      /\ \A i \in 1..Len(queue') : queue'[i] = queue[i + 1]
      /\ r = queue[1] /\ r \in Requests
  BY <1>0, <1>1, HeadTailProperties, LenProperties, EmptySeq DEF LifecycleInv, TypeOK
<1>3. phase[r] = "waiting"
  BY <1>1, <1>2 DEF LifecycleInv, QueueWaits
<1>4. tx[r] = None /\ own[r] = None /\ Held(r) = {} /\ left[r] > 0
  <2>1. left[r] > 0
    BY <1>2, <1>3 DEF LifecycleInv, Holders
  <2> QED
    BY <2>1, <1>2, <1>3, HoldsNothing
<1>5. code # "ok"
  BY <1>2, <1>3, BusyMeansNotOk DEF InProgress
<1>6. /\ phase'[r] = IF work[r] = "tx" THEN "ready" ELSE "query"
      /\ \A q \in Requests : q # r => phase'[q] = phase[q]
  BY <1>1, <1>2, <1>4 DEF LifecycleInv, TypeOK
<1>7. /\ tx'[r] = IF work[r] = "tx" THEN c ELSE None
      /\ \A q \in Requests : q # r => tx'[q] = tx[q]
      /\ own'[r] = IF work[r] = "tx" THEN None ELSE c
      /\ \A q \in Requests : q # r => own'[q] = own[q]
  BY <1>1, <1>2, <1>4 DEF LifecycleInv, TypeOK
<1>8. TypeOK'
  <2>1. phase' \in [Requests -> Phases]
    BY <1>1 DEF LifecycleInv, TypeOK, Phases, InProgress
  <2>2. tx' \in [Requests -> Conns \cup {None}] /\ own' \in [Requests -> Conns \cup {None}]
    BY <1>1 DEF LifecycleInv, TypeOK
  <2> QED
    BY <2>1, <2>2, <1>1, <1>2 DEF LifecycleInv, TypeOK
<1>9. QueueWaits'
  <2>1. \A i, j \in 1..Len(queue) : queue[i] = queue[j] => i = j
    BY DEF LifecycleInv, QueueWaits
  <2>2. \A i \in 1..Len(queue) : queue[i] \in Requests /\ phase[queue[i]] = "waiting"
    BY <1>1, <1>2, ElementOfSeq DEF LifecycleInv, QueueWaits
  <2>3. \A i \in 1..Len(queue') : phase'[queue'[i]] = "waiting"
    <3> TAKE i \in 1..Len(queue')
    <3>1. i + 1 \in 1..Len(queue) /\ 1 \in 1..Len(queue) /\ i + 1 # 1
      BY <1>2
    <3>2. queue[i + 1] # r
      BY <3>1, <2>1, <1>2
    <3> QED
      BY <3>1, <3>2, <2>2, <1>2, <1>6
  <2>4. \A i, j \in 1..Len(queue') : queue'[i] = queue'[j] => i = j
    <3> TAKE i, j \in 1..Len(queue')
    <3>1. i + 1 \in 1..Len(queue) /\ j + 1 \in 1..Len(queue)
      BY <1>2
    <3>2. queue[i + 1] = queue[j + 1] => i + 1 = j + 1
      BY <3>1, <2>1
    <3> QED
      BY <3>2, <1>2
  <2> QED
    BY <2>3, <2>4 DEF QueueWaits
<1>10. Holders'
  <2> SUFFICES ASSUME NEW q \in Requests
               PROVE  /\ phase'[q] \in {"begin", "ready", "waiting", "query"} => left[q] > 0
                      /\ own'[q] # None => phase'[q] \in {"query", "dropped"}
                      /\ tx'[q] # None => work[q] = "tx" /\ phase'[q] \in {"ready", "commit", "dropped"}
                      /\ phase'[q] = "query" => work[q] = "plain"
    BY <1>1 DEF Holders
  <2>1. CASE q = r
    <3>1. work[r] \in {"tx", "plain"}
      BY <1>2 DEF LifecycleInv, TypeOK
    <3> QED
      BY <2>1, <3>1, <1>4, <1>6, <1>7
  <2>2. CASE q # r
    BY <2>2, <1>6, <1>7 DEF LifecycleInv, Holders
  <2> QED
    BY <2>1, <2>2
<1>11. Stages'
  BY <1>1, <1>2, <1>5, <1>6 DEF LifecycleInv, Stages
<1>12. ConnsAccounted'
  <2>1. Held(r)' = {c}
    <3>1. {tx'[r], own'[r]} = {c, None}
      BY <1>7
    <3> QED
      BY <3>1, NoneIsNoConn DEF Held
  <2>2. \A q \in Requests : q # r => Held(q)' = Held(q)
    BY <1>7 DEF Held
  <2>3. \A d \in Conns : d \in idle' \/ \E q \in Requests : d \in Held(q)'
    <3> TAKE d \in Conns
    <3>1. CASE d = c
      BY <3>1, <2>1, <1>2
    <3>2. CASE d \in idle /\ d # c
      BY <3>2, <1>1
    <3>3. CASE \E q \in Requests : d \in Held(q)
      <4>1. PICK q \in Requests : d \in Held(q)
        BY <3>3
      <4>2. q # r
        BY <4>1, <1>4
      <4> QED
        BY <4>1, <4>2, <2>2
    <3> QED
      BY <3>1, <3>2, <3>3 DEF LifecycleInv, ConnsAccounted
  <2>a. \A q \in Requests : q # r => c \notin Held(q)'
    BY <2>2, <1>1 DEF LifecycleInv, ConnsAccounted
  <2>4. \A q \in Requests : Held(q)' \cap idle' = {}
    <3> TAKE q \in Requests
    <3>1. CASE q = r
      BY <3>1, <2>1, <1>1
    <3>2. CASE q # r
      <4>1. Held(q)' = Held(q) /\ Held(q) \cap idle = {}
        BY <3>2, <2>2 DEF LifecycleInv, ConnsAccounted
      <4> QED
        BY <4>1, <1>1
    <3> QED
      BY <3>1, <3>2
  <2>5. \A q, p \in Requests : q # p => Held(q)' \cap Held(p)' = {}
    <3> SUFFICES ASSUME NEW q \in Requests, NEW p \in Requests, q # p
                 PROVE  Held(q)' \cap Held(p)' = {}
      OBVIOUS
    <3>1. CASE q = r
      <4>1. c \notin Held(p)'
        BY <3>1, <2>a
      <4>2. Held(q)' = {c}
        BY <3>1, <2>1
      <4> QED
        BY <4>1, <4>2
    <3>2. CASE p = r
      <4>1. c \notin Held(q)'
        BY <3>2, <2>a
      <4>2. Held(p)' = {c}
        BY <3>2, <2>1
      <4> QED
        BY <4>1, <4>2
    <3>3. CASE q # r /\ p # r
      BY <3>3, <2>2 DEF LifecycleInv, ConnsAccounted
    <3> QED
      BY <3>1, <3>2, <3>3
  <2>6. \A q \in Requests : Held(q)' # {} => phase'[q] \in InProgress \cup {"dropped"}
    BY <2>2, <1>6 DEF LifecycleInv, ConnsAccounted, InProgress
  <2> QED
    BY <2>3, <2>4, <2>5, <2>6 DEF ConnsAccounted
<1>13. GracefulStop'
  BY <1>1, <1>5 DEF GracefulStop
<1>14. PoolOutlivesServer'
  BY <1>1, <1>2, <1>6 DEF LifecycleInv, PoolOutlivesServer
<1> QED
  BY <1>8, <1>9, <1>10, <1>11, <1>12, <1>13, <1>14 DEF LifecycleInv

LEMMA QueryKeeps ==
  ASSUME LifecycleInv, NEW r \in Requests, Query(r)
  PROVE  LifecycleInv'
<1> DEFINE next == CASE left[r] > 1 -> "ready"
                     [] left[r] <= 1 /\ work[r] = "tx" -> "commit"
                     [] left[r] <= 1 /\ work[r] = "plain" -> "answered"
<1>1. /\ Alive /\ (phase[r] = "query" \/ (phase[r] = "ready" /\ tx[r] # None))
      /\ left' = [left EXCEPT ![r] = left[r] - 1]
      /\ phase' = [phase EXCEPT ![r] = next]
      /\ own' = [own EXCEPT ![r] = None]
      /\ idle' = idle \cup ({own[r]} \ {None})
      /\ UNCHANGED <<main, code, srv, crashed, signal, closed, work, tx, queue>>
  BY DEF Query, mainVars, FromPool, LifecycleInv, TypeOK
<1>2. /\ left[r] \in Nat /\ left[r] > 0 /\ work[r] \in {"tx", "plain"}
      /\ tx[r] \in Conns \cup {None} /\ own[r] \in Conns \cup {None}
      /\ phase[r] \in {"query", "ready"}
  BY <1>1 DEF LifecycleInv, TypeOK, Holders
<1>3. /\ next \in {"ready", "commit", "answered"}
      /\ next = "ready" => left[r] > 1
      /\ work[r] = "tx" => next # "answered"
  <2>1. CASE left[r] > 1
    BY <2>1, <1>2
  <2>2. CASE left[r] <= 1 /\ work[r] = "tx"
    BY <2>2, <1>2
  <2>3. CASE left[r] <= 1 /\ work[r] = "plain"
    BY <2>3, <1>2
  <2> QED
    BY <2>1, <2>2, <2>3, <1>2
<1> HIDE DEF next
<1>4. /\ phase'[r] = next
      /\ \A q \in Requests : q # r => phase'[q] = phase[q]
      /\ left'[r] = left[r] - 1
      /\ \A q \in Requests : q # r => left'[q] = left[q]
  BY <1>1 DEF LifecycleInv, TypeOK
<1>5. /\ own'[r] = None
      /\ \A q \in Requests : q # r => own'[q] = own[q]
  BY <1>1 DEF LifecycleInv, TypeOK
<1>6. own[r] # None => tx[r] = None
  BY <1>2 DEF LifecycleInv, Holders
<1>7. code # "ok"
  BY <1>2, BusyMeansNotOk DEF InProgress
<1>8. TypeOK'
  <2>1. phase' \in [Requests -> Phases]
    BY <1>1, <1>3 DEF LifecycleInv, TypeOK, Phases, InProgress, Ended
  <2>2. left' \in [Requests -> Nat]
    BY <1>1, <1>2 DEF LifecycleInv, TypeOK
  <2>3. own' \in [Requests -> Conns \cup {None}] /\ idle' \subseteq Conns
    BY <1>1, <1>2 DEF LifecycleInv, TypeOK
  <2> QED
    BY <2>1, <2>2, <2>3, <1>1 DEF LifecycleInv, TypeOK
<1>9. QueueWaits'
  <2>1. Alive' => \A i \in 1..Len(queue') : phase'[queue'[i]] = "waiting"
    <3> SUFFICES ASSUME Alive, NEW i \in 1..Len(queue)
                 PROVE  phase'[queue[i]] = "waiting"
      BY <1>1 DEF Alive
    <3>1. queue[i] \in Requests /\ phase[queue[i]] = "waiting"
      BY ElementOfSeq DEF LifecycleInv, TypeOK, QueueWaits
    <3> QED
      BY <3>1, <1>2, <1>4
  <2> QED
    BY <2>1, <1>1 DEF LifecycleInv, QueueWaits
<1>10. Holders'
  <2> SUFFICES ASSUME NEW q \in Requests
               PROVE  /\ phase'[q] \in {"begin", "ready", "waiting", "query"} => left'[q] > 0
                      /\ own'[q] # None => phase'[q] \in {"query", "dropped"}
                      /\ tx[q] # None => work[q] = "tx" /\ phase'[q] \in {"ready", "commit", "dropped"}
                      /\ phase'[q] = "query" => work[q] = "plain"
    BY <1>1 DEF Holders
  <2>1. CASE q = r
    <3>1. tx[r] # None => work[r] = "tx"
      BY DEF LifecycleInv, Holders
    <3>2. next = "ready" => left[r] - 1 > 0
      BY <1>2, <1>3
    <3> QED
      BY <2>1, <3>1, <3>2, <1>3, <1>4, <1>5
  <2>2. CASE q # r
    BY <2>2, <1>4, <1>5 DEF LifecycleInv, Holders
  <2> QED
    BY <2>1, <2>2
<1>11. Stages'
  BY <1>1, <1>3, <1>4, <1>7 DEF LifecycleInv, Stages
<1>12. ConnsAccounted'
  <2>1. Held(r)' = {tx[r]} \ {None} /\ Held(r) = Held(r)' \cup ({own[r]} \ {None})
    BY <1>1, <1>5 DEF Held
  <2>2. \A q \in Requests : q # r => Held(q)' = Held(q)
    BY <1>1, <1>5 DEF Held
  <2>3. \A d \in Conns : d \in idle' \/ \E q \in Requests : d \in Held(q)'
    <3> TAKE d \in Conns
    <3>1. CASE d \in idle
      BY <3>1, <1>1
    <3>2. CASE \E q \in Requests : d \in Held(q)
      <4>1. PICK q \in Requests : d \in Held(q)
        BY <3>2
      <4> QED
        BY <4>1, <2>1, <2>2, <1>1
    <3> QED
      BY <3>1, <3>2 DEF LifecycleInv, ConnsAccounted
  <2>4. \A q \in Requests : Held(q)' \cap idle' = {}
    <3> TAKE q \in Requests
    <3>1. Held(q) \cap idle = {}
      BY DEF LifecycleInv, ConnsAccounted
    <3>2. CASE q = r
      BY <3>1, <3>2, <2>1, <1>1, <1>6
    <3>3. CASE q # r
      <4>1. Held(q) \cap Held(r) = {}
        BY <3>3 DEF LifecycleInv, ConnsAccounted
      <4> QED
        BY <3>1, <3>3, <4>1, <2>1, <2>2, <1>1
    <3> QED
      BY <3>2, <3>3
  <2>5. \A q, p \in Requests : q # p => Held(q)' \cap Held(p)' = {}
    <3>1. \A q \in Requests : Held(q)' \subseteq Held(q)
      BY <2>1, <2>2
    <3> QED
      BY <3>1 DEF LifecycleInv, ConnsAccounted
  <2>6. \A q \in Requests : Held(q)' # {} => phase'[q] \in InProgress \cup {"dropped"}
    <3>1. tx[r] # None => next \in InProgress
      BY <1>3 DEF LifecycleInv, Holders, InProgress
    <3> QED
      BY <3>1, <2>1, <2>2, <1>4 DEF LifecycleInv, ConnsAccounted
  <2> QED
    BY <2>3, <2>4, <2>5, <2>6 DEF ConnsAccounted
<1>13. GracefulStop'
  BY <1>1, <1>7 DEF GracefulStop
<1>14. PoolOutlivesServer'
  BY <1>1, <1>3, <1>4 DEF LifecycleInv, PoolOutlivesServer
<1> QED
  BY <1>8, <1>9, <1>10, <1>11, <1>12, <1>13, <1>14 DEF LifecycleInv
\* A request ends, by whatever path: it leaves the queue and holds nothing.
LEMMA EndKeeps ==
  ASSUME LifecycleInv, NEW r \in Requests, NEW how \in {"answered", "failed", "refused"},
         Alive, phase[r] \in InProgress, how = "refused" => closed = "yes", End(r, how)
  PROVE  LifecycleInv'
<1>1. /\ phase' = [phase EXCEPT ![r] = how]
      /\ tx' = [tx EXCEPT ![r] = None] /\ own' = [own EXCEPT ![r] = None]
      /\ idle' = idle \cup Held(r)
      /\ UNCHANGED <<main, code, srv, crashed, signal, closed, left, work>>
  BY DEF End, mainVars
<1>2. /\ phase'[r] = how
      /\ \A q \in Requests : q # r => phase'[q] = phase[q]
  BY <1>1 DEF LifecycleInv, TypeOK
<1>3. /\ tx'[r] = None /\ own'[r] = None
      /\ \A q \in Requests : q # r => tx'[q] = tx[q] /\ own'[q] = own[q]
  BY <1>1 DEF LifecycleInv, TypeOK
<1>4. code # "ok"
  BY BusyMeansNotOk
<1>5. queue \in Seq(Requests) /\ Len(queue) \in Nat /\ DOMAIN queue = 1..Len(queue)
  BY LenProperties DEF LifecycleInv, TypeOK
<1>6. \A i \in 1..Len(queue) : queue[i] \in Requests /\ phase[queue[i]] = "waiting"
  BY ElementOfSeq DEF LifecycleInv, TypeOK, QueueWaits
<1>7. \A i, j \in 1..Len(queue) : queue[i] = queue[j] => i = j
  BY DEF LifecycleInv, QueueWaits
<1>8. queue' \in Seq(Requests) /\ QueueWaits'
  <2>1. CASE r \notin Range(queue) /\ queue' = queue
    <3>1. \A i \in 1..Len(queue) : queue[i] # r
      BY <2>1, <1>5 DEF Range
    <3>2. \A i \in 1..Len(queue') : phase'[queue'[i]] = "waiting"
      BY <3>1, <2>1, <1>2, <1>6
    <3> QED
      BY <3>2, <2>1, <1>5, <1>7 DEF QueueWaits
  <2>2. CASE \E i \in DOMAIN queue : queue[i] = r /\ queue' = RemoveAt(queue, i)
    <3>1. PICK i \in 1..Len(queue) : queue[i] = r /\ queue' = RemoveAt(queue, i)
      BY <2>2, <1>5
    <3>2. /\ queue' \in Seq(Requests) /\ Len(queue') = Len(queue) - 1
          /\ \A k \in 1..(Len(queue) - 1) :
               queue'[k] = IF k < i THEN queue[k] ELSE queue[k + 1]
      BY <3>1, <1>5, RemoveAtProperties
    <3> DEFINE at(k) == IF k < i THEN k ELSE k + 1
    <3>3. \A k \in 1..Len(queue') : /\ at(k) \in 1..Len(queue) /\ at(k) # i
                                    /\ queue'[k] = queue[at(k)]
      BY <3>2, <1>5
    <3>4. \A k, l \in 1..Len(queue') : at(k) = at(l) => k = l
      BY <3>2, <1>5
    <3> HIDE DEF at
    <3>5. \A k \in 1..Len(queue') : phase'[queue'[k]] = "waiting"
      <4> TAKE k \in 1..Len(queue')
      <4>1. at(k) \in 1..Len(queue) /\ at(k) # i /\ queue'[k] = queue[at(k)]
        BY <3>3
      <4>2. queue[at(k)] # r
        BY <4>1, <3>1, <1>7
      <4>3. queue[at(k)] \in Requests /\ phase[queue[at(k)]] = "waiting"
        BY <4>1, <1>6
      <4> QED
        BY <4>1, <4>2, <4>3, <1>2
    <3>6. \A k, l \in 1..Len(queue') : queue'[k] = queue'[l] => k = l
      <4> SUFFICES ASSUME NEW k \in 1..Len(queue'), NEW l \in 1..Len(queue'),
                          queue'[k] = queue'[l]
                   PROVE  k = l
        OBVIOUS
      <4>1. at(k) = at(l)
        BY <3>3, <1>7
      <4> QED
        BY <4>1, <3>4
    <3> QED
      BY <3>2, <3>5, <3>6 DEF QueueWaits
  <2> QED
    BY <2>1, <2>2 DEF End
<1>9. TypeOK'
  <2>1. phase' \in [Requests -> Phases]
    BY <1>1 DEF LifecycleInv, TypeOK, Phases, Ended
  <2>2. tx' \in [Requests -> Conns \cup {None}] /\ own' \in [Requests -> Conns \cup {None}]
    BY <1>1 DEF LifecycleInv, TypeOK
  <2>3. idle' \subseteq Conns
    BY <1>1 DEF LifecycleInv, TypeOK, Held
  <2> QED
    BY <2>1, <2>2, <2>3, <1>1, <1>8 DEF LifecycleInv, TypeOK
<1>10. Holders'
  BY <1>1, <1>2, <1>3 DEF LifecycleInv, Holders
<1>11. Stages'
  BY <1>1, <1>2, <1>4 DEF LifecycleInv, Stages
<1>12. ConnsAccounted'
  <2>1. Held(r)' = {}
    BY <1>3 DEF Held
  <2>2. \A q \in Requests : q # r => Held(q)' = Held(q)
    BY <1>3 DEF Held
  <2>3. \A d \in Conns : d \in idle' \/ \E q \in Requests : d \in Held(q)'
    <3> TAKE d \in Conns
    <3>1. CASE d \in idle
      BY <3>1, <1>1
    <3>2. CASE \E q \in Requests : d \in Held(q)
      <4>1. PICK q \in Requests : d \in Held(q)
        BY <3>2
      <4> QED
        BY <4>1, <2>2, <1>1
    <3> QED
      BY <3>1, <3>2 DEF LifecycleInv, ConnsAccounted
  <2>4. \A q \in Requests : Held(q)' \cap idle' = {}
    <3> TAKE q \in Requests
    <3>1. CASE q = r
      BY <3>1, <2>1
    <3>2. CASE q # r
      BY <3>2, <2>2, <1>1 DEF LifecycleInv, ConnsAccounted
    <3> QED
      BY <3>1, <3>2
  <2>5. \A q, p \in Requests : q # p => Held(q)' \cap Held(p)' = {}
    BY <2>1, <2>2 DEF LifecycleInv, ConnsAccounted
  <2>6. \A q \in Requests : Held(q)' # {} => phase'[q] \in InProgress \cup {"dropped"}
    BY <2>1, <2>2, <1>2 DEF LifecycleInv, ConnsAccounted
  <2> QED
    BY <2>3, <2>4, <2>5, <2>6 DEF ConnsAccounted
<1>13. GracefulStop'
  BY <1>1, <1>4 DEF GracefulStop
<1>14. PoolOutlivesServer'
  <2>1. closed = "yes" => code \in {"error", "panic"}
    BY <1>4 DEF LifecycleInv, Stages, TypeOK
  <2> QED
    BY <2>1, <1>1, <1>2 DEF LifecycleInv, PoolOutlivesServer, Stages
<1> QED
  BY <1>8, <1>9, <1>10, <1>11, <1>12, <1>13, <1>14 DEF LifecycleInv

LEMMA RequestKeeps ==
  ASSUME LifecycleInv, NEW r \in Requests, Request(r) \/ Fail(r)
  PROVE  LifecycleInv'
<1>1. CASE Ask(r)
  BY <1>1, AskKeeps
<1>2. CASE Query(r)
  BY <1>2, QueryKeeps
<1>3. CASE Commit(r)
  BY <1>3, EndKeeps DEF Commit, InProgress
<1>4. CASE Refuse(r)
  BY <1>4, EndKeeps DEF Refuse, InProgress
<1>5. CASE Fail(r)
  BY <1>5, EndKeeps DEF Fail
<1> QED
  BY <1>1, <1>2, <1>3, <1>4, <1>5 DEF Request

(***************************************************************************)
(* One step of run(), of the goroutine that serves, or of the world.       *)
(***************************************************************************)
\* What depends on the requests alone stays as it is when they do, or when the
\* process is gone and drops those in progress.
LEMMA RequestsUntouched ==
  ASSUME LifecycleInv, UNCHANGED reqVars, main' = "exited" \/ Alive
  PROVE  QueueWaits' /\ Holders' /\ ConnsAccounted'
<1>1. UNCHANGED <<phase, left, work, tx, own, idle, queue>>
  BY DEF reqVars
<1>2. QueueWaits'
  BY <1>1 DEF LifecycleInv, QueueWaits, Alive
<1>3. Holders'
  BY <1>1 DEF LifecycleInv, Holders
<1>4. ConnsAccounted'
  BY <1>1 DEF LifecycleInv, ConnsAccounted, Held
<1> QED
  BY <1>2, <1>3, <1>4

LEMMA ServeKeeps ==
  ASSUME LifecycleInv, Serve \/ Crash
  PROVE  LifecycleInv'
<1>1. /\ UNCHANGED <<main, code, signal, closed, reqVars>> /\ Alive
      /\ srv # "down"
      /\ srv' \in {"set", "listening", "down"} /\ crashed' \in {"yes", "no"}
  BY DEF Serve, Assign, Listen, Crash, LifecycleInv, TypeOK
<1>2. UNCHANGED <<phase, left, work, tx, own, idle, queue>>
  BY <1>1 DEF reqVars
<1>3. TypeOK'
  BY <1>1, <1>2 DEF LifecycleInv, TypeOK
<1>4. QueueWaits' /\ Holders' /\ ConnsAccounted'
  BY <1>1, RequestsUntouched
<1>5. Stages'
  BY <1>1, <1>2 DEF LifecycleInv, Stages, Busy
<1>6. GracefulStop' /\ PoolOutlivesServer'
  BY <1>1, <1>2 DEF LifecycleInv, GracefulStop, PoolOutlivesServer
<1> QED
  BY <1>3, <1>4, <1>5, <1>6 DEF LifecycleInv
\* run() goes on without touching a request.
LEMMA RunKeeps ==
  ASSUME LifecycleInv,
         Connect \/ Notify \/ SelectError \/ SelectSignal \/ ShutdownDone \/ ShutdownTimeout \/ ClosePool
  PROVE  LifecycleInv'
<1>1. /\ UNCHANGED <<crashed, signal, reqVars>> /\ Alive
      /\ UNCHANGED <<phase, left, work, tx, own, idle, queue>>
  BY DEF Connect, Notify, SelectError, SelectSignal, ShutdownDone, ShutdownTimeout, ClosePool,
         Leave, Alive, reqVars
<1>2. QueueWaits' /\ Holders' /\ ConnsAccounted'
  BY <1>1, RequestsUntouched
<1>3. TypeOK'
  BY <1>1 DEF LifecycleInv, TypeOK, Connect, Notify, SelectError, SelectSignal, ShutdownDone,
              ShutdownTimeout, ClosePool, Leave
<1>4. Stages'
  <2>1. CASE Connect \/ Notify
    BY <1>1, <2>1 DEF LifecycleInv, Stages, Busy, Connect, Notify
  <2>2. CASE SelectError \/ ShutdownTimeout
    BY <1>1, <2>2 DEF LifecycleInv, Stages, Busy, SelectError, ShutdownTimeout, Leave
  <2>3. CASE SelectSignal
    BY <1>1, <2>3 DEF LifecycleInv, Stages, Busy, SelectSignal, Leave
  <2>4. CASE ShutdownDone
    BY <1>1, <2>4 DEF LifecycleInv, Stages, Busy, ShutdownDone, Quiet, Leave
  <2>5. CASE ClosePool
    BY <1>1, <2>5 DEF LifecycleInv, Stages, Busy, ClosePool
  <2> QED
    BY <2>1, <2>2, <2>3, <2>4, <2>5
<1>5. GracefulStop'
  <2>1. CASE ShutdownDone
    <3> SUFFICES ASSUME NEW r \in Requests
                 PROVE  phase[r] \in {"none", "answered", "failed"}
      BY <1>1 DEF GracefulStop
    <3>1. phase[r] \in Phases /\ phase[r] \notin InProgress
      BY <2>1 DEF ShutdownDone, Quiet, Busy, LifecycleInv, TypeOK
    <3>2. phase[r] # "refused" /\ phase[r] # "dropped"
      BY <2>1 DEF ShutdownDone, LifecycleInv, Stages
    <3> QED
      BY <3>1, <3>2 DEF Phases, Ended
  <2>2. CASE ~ShutdownDone
    <3>1. code' = "ok" => code = "ok"
      BY <2>2 DEF Connect, Notify, SelectError, SelectSignal, ShutdownTimeout, ClosePool, Leave
    <3> QED
      BY <1>1, <3>1 DEF LifecycleInv, GracefulStop
  <2> QED
    BY <2>1, <2>2
<1>6. PoolOutlivesServer'
  <2>1. ClosePool \/ \A r \in Requests : phase[r] # "refused"
    BY DEF Connect, Notify, SelectError, SelectSignal, ShutdownDone, ShutdownTimeout, LifecycleInv, Stages
  <2>2. CASE ClosePool
    BY <1>1, <2>2 DEF ClosePool, LifecycleInv, PoolOutlivesServer
  <2> QED
    BY <1>1, <2>1, <2>2 DEF PoolOutlivesServer
<1> QED
  BY <1>2, <1>3, <1>4, <1>5, <1>6 DEF LifecycleInv

\* The process is gone, and with it the requests in progress.
LEMMA DropKeeps ==
  ASSUME LifecycleInv, main' = "exited", code' # "none",
         code' = code \/ (code' = "killed" /\ closed = "no"),
         code' = "ok" => code = "ok",
         phase' = [r \in Requests |-> IF r \in Busy THEN "dropped" ELSE phase[r]],
         UNCHANGED <<srv, crashed, signal, closed, left, work, tx, own, idle, queue>>
  PROVE  LifecycleInv'
<1>1. \A r \in Requests : phase'[r] = IF phase[r] \in InProgress THEN "dropped" ELSE phase[r]
  BY DEF Busy
<1>2. TypeOK'
  BY DEF LifecycleInv, TypeOK, Phases
<1>3. QueueWaits'
  BY DEF LifecycleInv, QueueWaits, Alive
<1>4. Holders'
  BY <1>1 DEF LifecycleInv, Holders, InProgress
<1>5. \A r \in Requests : phase'[r] \notin InProgress
  BY <1>1 DEF InProgress
<1>6. Stages'
  BY <1>1, <1>5 DEF LifecycleInv, Stages, Busy
<1>7. ConnsAccounted'
  BY <1>1 DEF LifecycleInv, ConnsAccounted, Held
<1>8. GracefulStop'
  BY <1>1 DEF LifecycleInv, GracefulStop, InProgress
<1>9. PoolOutlivesServer'
  BY <1>1 DEF LifecycleInv, PoolOutlivesServer, Stages
<1> QED
  BY <1>2, <1>3, <1>4, <1>6, <1>7, <1>8, <1>9 DEF LifecycleInv

LEMMA ExitKeeps ==
  ASSUME LifecycleInv, Exit
  PROVE  LifecycleInv'
<1>1. code # "none"
  BY DEF Exit, LifecycleInv, Stages
<1> QED
  BY <1>1, DropKeeps DEF Exit

LEMMA SignalKeeps ==
  ASSUME LifecycleInv, Signal
  PROVE  LifecycleInv'
<1>1. CASE main \in {"connect", "notify"}
  <2>1. closed = "no"
    BY <1>1 DEF LifecycleInv, Stages, TypeOK
  <2> QED
    BY <1>1, <2>1, DropKeeps DEF Signal
<1>2. CASE main \notin {"connect", "notify"}
  <2>1. /\ signal' = "yes"
        /\ UNCHANGED <<main, code, srv, crashed, closed, phase, left, work, tx, own, idle, queue>>
    BY <1>2 DEF Signal
  <2>2. TypeOK'
    BY <2>1 DEF LifecycleInv, TypeOK
  <2>3. Alive /\ UNCHANGED reqVars
    BY <2>1 DEF Signal, reqVars
  <2>4. QueueWaits' /\ Holders' /\ ConnsAccounted'
    BY <2>3, RequestsUntouched
  <2>5. Stages' /\ GracefulStop' /\ PoolOutlivesServer'
    BY <2>1 DEF LifecycleInv, Stages, Busy, GracefulStop, PoolOutlivesServer
  <2> QED
    BY <2>2, <2>4, <2>5 DEF LifecycleInv
<1> QED
  BY <1>1, <1>2

(***************************************************************************)
(* The theorems.                                                           *)
(***************************************************************************)
LEMMA InitInductive == Init => LifecycleInv
<1> SUFFICES ASSUME Init PROVE LifecycleInv
  OBVIOUS
<1> USE DEF Init
<1>1. TypeOK
  BY EmptySeq DEF TypeOK, Phases
<1>2. QueueWaits
  BY EmptySeq DEF QueueWaits
<1>3. Busy = {}
  BY DEF Busy, InProgress
<1>4. Holders /\ Stages /\ GracefulStop /\ PoolOutlivesServer
  BY <1>3 DEF Holders, Stages, GracefulStop, PoolOutlivesServer
<1>5. \A r \in Requests : Held(r) = {}
  BY DEF Held
<1>6. ConnsAccounted
  BY <1>5 DEF ConnsAccounted
<1> QED
  BY <1>1, <1>2, <1>4, <1>6 DEF LifecycleInv

LEMMA NextInductive == LifecycleInv /\ [Next]_vars => LifecycleInv'
<1> SUFFICES ASSUME LifecycleInv, [Next]_vars PROVE LifecycleInv'
  OBVIOUS
<1>1. CASE \E r \in Requests, w \in {"tx", "plain"}, n \in 0..MaxStatements : Accept(r, w, n)
  BY <1>1, AcceptKeeps
<1>2. CASE \E r \in Requests : Request(r) \/ Fail(r)
  BY <1>2, RequestKeeps
<1>3. CASE Pool
  BY <1>3, GrantKeeps DEF Pool
<1>4. CASE Serve \/ Crash
  BY <1>4, ServeKeeps
<1>5. CASE Main
  BY <1>5, RunKeeps, ExitKeeps DEF Main
<1>6. CASE Signal
  BY <1>6, SignalKeeps
<1>7. CASE UNCHANGED vars
  <2>1. /\ UNCHANGED <<main, code, srv, crashed, signal, closed, reqVars>>
        /\ UNCHANGED <<phase, left, work, tx, own, idle, queue>>
    BY <1>7 DEF vars, mainVars, reqVars
  <2>2. TypeOK' /\ QueueWaits' /\ Holders' /\ ConnsAccounted'
    <3>1. TypeOK'
      BY <2>1 DEF LifecycleInv, TypeOK
    <3>2. main' = "exited" \/ Alive
      BY <2>1 DEF Alive
    <3> QED
      BY <2>1, <3>1, <3>2, RequestsUntouched
  <2>3. Stages' /\ GracefulStop' /\ PoolOutlivesServer'
    BY <2>1 DEF LifecycleInv, Stages, Busy, GracefulStop, PoolOutlivesServer
  <2> QED
    BY <2>2, <2>3 DEF LifecycleInv
<1> QED
  BY <1>1, <1>2, <1>3, <1>4, <1>5, <1>6, <1>7 DEF Next

\* The inductive invariant of run(), its requests and their connections: what
\* every handler, Manager.Run and run() itself rely on at every step.
THEOREM LifecycleInvariance == Spec => []LifecycleInv
<1>1. Init => LifecycleInv
  BY InitInductive
<1>2. LifecycleInv /\ [Next]_vars => LifecycleInv'
  BY NextInductive
<1> QED
  BY <1>1, <1>2, PTL DEF Spec

\* Every connection of the pool is idle or held by exactly one request that is
\* still in progress, on every path through Manager.Run and the repositories.
THEOREM NoConnLeaks == Spec => []ConnsAccounted
<1>1. LifecycleInv => ConnsAccounted
  BY DEF LifecycleInv
<1> QED
  BY <1>1, LifecycleInvariance, PTL

\* A process that ends with "server gracefully stopped" has answered every
\* request it accepted, however many there were (run, server.Stop).
THEOREM GracefulStopAnswersAll == Spec => []GracefulStop
<1>1. LifecycleInv => GracefulStop
  BY DEF LifecycleInv
<1> QED
  BY <1>1, LifecycleInvariance, PTL

\* No request meets a closed pool unless run() is returning an error or has
\* panicked (the order of Stop and the deferred pool.Close).
THEOREM PoolClosesLast == Spec => []PoolOutlivesServer
<1>1. LifecycleInv => PoolOutlivesServer
  BY DEF LifecycleInv
<1> QED
  BY <1>1, LifecycleInvariance, PTL

\* Every variable of the life cycle keeps its type at every step.
THEOREM LifecycleTypes == Spec => []TypeOK
<1>1. LifecycleInv => TypeOK
  BY DEF LifecycleInv
<1> QED
  BY <1>1, LifecycleInvariance, PTL
==============================================================================
