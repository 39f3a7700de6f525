---------------------------- MODULE AuditProofs ----------------------------
(***************************************************************************)
(* Proofs about Audit: types, keys that stay as they are, records that are *)
(* not lost, and a timer that fires, for any number of workers, keys and   *)
(* buffers and any capacity and limit.                                     *)
(***************************************************************************)
EXTENDS Audit, FiniteSetTheorems, TLAPS

-----------------------------------------------------------------------------
(* Types and buffers.                                                      *)

Times == now <= MaxTime /\ \A w \in Worker : job[w].at <= MaxTime

\* A worker at work has a packet.
Busy == \A w \in Worker : pc[w] # "idle" => job[w].key # NULL

\* A buffer is in one place: the pool, a worker's hands or the map.
Buffers ==
  /\ \A w \in Worker :
       /\ job[w].buf \notin pool
       /\ pc[w] \in {"setConn", "lookup", "set"} => job[w].buf # NULL
       /\ \A v \in Worker \ {w} : job[w].buf # NULL => job[w].buf # job[v].buf
  /\ KeysIntact

AInv == TypeOK /\ TimerReady /\ Times /\ Busy /\ Buffers

LEMMA AInvInit == Init => AInv
<1> USE AuditAssumption DEF Init
<1> SUFFICES ASSUME Init PROVE AInv
  OBVIOUS
<1>1. TypeOK
  BY DEF TypeOK, NoJob, NoEntry
<1>2. TimerReady /\ Times /\ Busy /\ Buffers
  BY DEF TimerReady, Times, NoJob, NoEntry, Busy, Buffers, KeysIntact
<1>3. QED BY <1>1, <1>2 DEF AInv

LEMMA AInvStep == ASSUME AInv, [Next]_vars PROVE AInv'
<1> USE AuditAssumption DEF AInv
<1>1. CASE Tick
  BY <1>1 DEF Tick, batch, history, TypeOK, TimerReady, Times, Busy, Buffers, KeysIntact
<1>2. CASE TimerFires
  BY <1>2 DEF TimerFires, worker, history, TypeOK, TimerReady, Times, Busy, Buffers, KeysIntact
<1>3. CASE Collect
  <2> DEFINE b == Append(logs, Head(logChan))
  <2>0. /\ logChan \in Seq(Key) /\ logChan # <<>> /\ Head(logChan) \in Key
        /\ b \in Seq(Key) /\ Len(b) = Len(logs) + 1
    BY <1>3 DEF Collect, TypeOK
  <2>a. logChan' \in Seq(Key) /\ Len(logChan') <= Cap
    BY <1>3, <2>0 DEF Collect, TypeOK
  <2>b. logs' \in Seq(Key) /\ Len(logs') < Limit /\ gone' \in Nat
    <3>1. gone \in Nat
      BY DEF TypeOK
    <3>2. CASE Full(b)
      <4>1. logs' = <<>> /\ gone' = gone + Len(b)
        BY <1>3, <3>2, Zenon DEF Collect, Write
      <4>2. QED BY <4>1, <3>1, <2>0
    <3>3. CASE ~Full(b)
      <4>1. logs' = b /\ gone' = gone
        BY <1>3, <3>3, Zenon DEF Collect
      <4>2. ~(Len(b) >= Limit)
        BY <3>3 DEF Full
      <4> HIDE DEF b
      <4>3. QED BY <4>1, <4>2, <3>1, <2>0
    <3>4. QED BY <3>2, <3>3
  <2>c. timer' \in [runs : BOOLEAN, tick : BOOLEAN] /\ TimerReady'
    <3>1. timer.tick \in BOOLEAN /\ (timer.runs /\ timer.tick) \in BOOLEAN
      BY Zenon DEF TypeOK
    <3>2. \E t \in BOOLEAN : timer' = [runs |-> TRUE, tick |-> t]
      BY <1>3, <3>1, Zenon DEF Collect, Reset
    <3>3. QED BY <3>2 DEF TimerReady
  <2>1. TypeOK' /\ TimerReady'
    BY <1>3, <2>a, <2>b, <2>c DEF Collect, worker, TypeOK
  <2>2. Times' /\ Busy' /\ Buffers'
    BY <1>3 DEF Collect, worker, Times, Busy, Buffers, KeysIntact
  <2>3. QED BY <2>1, <2>2
<1>4. CASE Timeout
  BY <1>4 DEF Timeout, Reset, Write, worker, TypeOK, TimerReady, Times, Busy, Buffers, KeysIntact
<1>5. ASSUME NEW w \in Worker, NEW k \in Key, Take(w, k) PROVE AInv'
  <2> USE DEF Take, batch, history
  <2>1. TypeOK' /\ TimerReady'
    BY <1>5 DEF TypeOK, TimerReady, Times
  <2>2. Times' /\ Busy'
    BY <1>5 DEF TypeOK, Times, Busy
  <2>a. PICK b \in pool : /\ pool' = pool \ {b}
                         /\ job' = [job EXCEPT ![w] = [key |-> k, at |-> now, buf |-> b]]
    BY <1>5
  <2>b. /\ b \in Buf /\ b # NULL /\ \A v \in Worker : job[v].buf # b
        /\ \A j \in Key : entry[j].buf # b
    <3>1. b \in Buf /\ b # NULL
      BY DEF TypeOK
    <3>2. QED BY <3>1, Zenon DEF Buffers, KeysIntact
  <2>c. job'[w].buf = b /\ \A v \in Worker \ {w} : job'[v] = job[v]
    BY <2>a DEF TypeOK
  <2>d. KeysIntact'
    BY <1>5, <2>a, <2>b, <2>c DEF Buffers, KeysIntact
  <2>e. \A v \in Worker \ {w} : pc'[v] = pc[v]
    BY <1>5 DEF TypeOK
  <2>3. Buffers'
    BY <2>a, <2>b, <2>c, <2>d, <2>e DEF Buffers, TypeOK
  <2>4. QED BY <2>1, <2>2, <2>3
<1>6. ASSUME NEW w \in Worker, SetConn(w) PROVE AInv'
  <2> USE DEF SetConn, Store, batch, history
  <2>0. job[w].key \in Key /\ <<job[w].key[1], "conn">> \in Key
    BY <1>6 DEF TypeOK, Busy, Key
  <2>1. TypeOK' /\ TimerReady'
    BY <1>6, <2>0 DEF TypeOK, TimerReady
  <2>2. Times' /\ Busy'
    BY <1>6 DEF TypeOK, Times, Busy
  <2>3. Buffers'
    BY <1>6, <2>0 DEF TypeOK, Buffers, KeysIntact
  <2>4. QED BY <2>1, <2>2, <2>3
<1>7. ASSUME NEW w \in Worker, Known(w) PROVE AInv'
  <2> USE DEF Known, Done, batch, history, NoJob
  <2>1. TypeOK' /\ TimerReady'
    BY <1>7 DEF TypeOK, TimerReady, Buffers
  <2>2. Times' /\ Busy'
    BY <1>7 DEF TypeOK, Times, Busy
  <2>3. Buffers'
    BY <1>7 DEF TypeOK, Buffers, KeysIntact
  <2>4. QED BY <2>1, <2>2, <2>3
<1>8. ASSUME NEW w \in Worker, Unknown(w) PROVE AInv'
  BY <1>8 DEF Unknown, batch, history, TypeOK, TimerReady, Times, Busy, Buffers, KeysIntact
<1>9. ASSUME NEW w \in Worker, SetKey(w) PROVE AInv'
  <2> USE DEF SetKey, Store, Made, batch
  <2>0. job[w].key \in Key /\ job[w].buf # NULL
    BY <1>9 DEF TypeOK, Busy, Buffers
  <2>a. made' \in [Key -> [0 .. MaxTime -> Nat]]
    <3> DEFINE k == job[w].key  a == job[w].at
               row == [t \in 0 .. MaxTime |->
                        IF t <= a /\ a < t + Interval THEN made[k][t] + 1 ELSE made[k][t]]
    <3>1. made \in [Key -> [0 .. MaxTime -> Nat]] /\ k \in Key
      BY <2>0 DEF TypeOK
    <3>2. made' = [made EXCEPT ![k] = row]
      BY <1>9
    <3>3. row \in [0 .. MaxTime -> Nat]
      <4>1. made[k] \in [0 .. MaxTime -> Nat]
        BY <3>1
      <4>2. QED BY <4>1
    <3> HIDE DEF row, k
    <3>4. QED BY <3>1, <3>2, <3>3
  <2>1. TypeOK' /\ TimerReady'
    <3>1. /\ pc' \in [Worker -> {"idle", "setConn", "lookup", "set", "queue"}]
          /\ job' \in [Worker -> [key : Key \cup {NULL}, at : Nat, buf : Buf \cup {NULL}]]
      <4>1. pc \in [Worker -> {"idle", "setConn", "lookup", "set", "queue"}]
            /\ pc' = [pc EXCEPT ![w] = "queue"]
        BY <1>9 DEF TypeOK
      <4>2. /\ job \in [Worker -> [key : Key \cup {NULL}, at : Nat, buf : Buf \cup {NULL}]]
            /\ job' = [job EXCEPT ![w].buf = NULL]
        BY <1>9 DEF TypeOK
      <4>3. QED BY ONLY <4>1, <4>2
    <3>2. /\ entry' \in [Key -> [at : Nat \cup {-1}, buf : Buf \cup {NULL}]]
          /\ pool' \subseteq Buf
      BY <1>9, <2>0 DEF TypeOK
    <3>3. total' \in Nat /\ UNCHANGED <<now, logChan, logs, timer, gone>>
      BY <1>9 DEF TypeOK
    <3>4. QED BY <3>1, <3>2, <3>3, <2>a, Zenon DEF TypeOK, TimerReady
  <2>2. Times' /\ Busy'
    BY <1>9 DEF TypeOK, Times, Busy
  <2> DEFINE k == job[w].key  b == job[w].buf
  <2>b. /\ b # NULL /\ b \notin pool /\ \A v \in Worker \ {w} : job[v].buf # b
        /\ \A j \in Key : entry[j].buf # b
    BY <2>0, Zenon DEF Buffers, KeysIntact
  <2>c. /\ entry'[k].buf = b /\ \A j \in Key \ {k} : entry'[j] = entry[j]
        /\ job'[w].buf = NULL /\ \A v \in Worker \ {w} : job'[v] = job[v]
        /\ pool' = (pool \cup {entry[k].buf}) \ {NULL}
        /\ pc'[w] = "queue" /\ \A v \in Worker \ {w} : pc'[v] = pc[v]
    BY <1>9, <2>0 DEF TypeOK
  <2>d. KeysIntact'
    BY <2>0, <2>b, <2>c DEF Buffers, KeysIntact
  <2>e. \A v \in Worker : job'[v].buf \notin pool'
    <3>1. job'[w].buf \notin pool'
      BY <2>c
    <3>2. ASSUME NEW v \in Worker \ {w} PROVE job'[v].buf \notin pool'
      <4>1. job[v].buf \notin pool
        BY DEF Buffers
      <4>2. job[v].buf = NULL \/ job[v].buf # entry[k].buf
        BY <2>0 DEF Buffers, KeysIntact
      <4>3. QED BY <2>c, <4>1, <4>2
    <3>3. QED BY <3>1, <3>2
  <2>3. Buffers'
    <3>1. ASSUME NEW v \in Worker
          PROVE  /\ pc'[v] \in {"setConn", "lookup", "set"} => job'[v].buf # NULL
                 /\ \A x \in Worker \ {v} : job'[v].buf # NULL => job'[v].buf # job'[x].buf
      BY <2>c DEF Buffers
    <3>2. QED BY <2>d, <2>e, <3>1, Zenon DEF Buffers
  <2>4. QED BY <2>1, <2>2, <2>3
<1>10. ASSUME NEW w \in Worker, Queue(w) PROVE AInv'
  <2> USE DEF Queue, Done, NoJob
  <2>0. job[w].key \in Key
    BY <1>10 DEF TypeOK, Busy
  <2>a. logChan' \in Seq(Key) /\ Len(logChan') <= Cap /\ gone' \in Nat
    <3>1. logChan \in Seq(Key) /\ gone \in Nat /\ Len(logChan) <= Cap
      BY DEF TypeOK
    <3>2. CASE Len(logChan) < Cap
      <4>1. logChan' = Append(logChan, job[w].key) /\ gone' = gone
        BY <1>10, <3>2, Zenon
      <4>2. Len(logChan) + 1 <= Cap
        BY <3>1, <3>2
      <4>3. QED BY <4>1, <4>2, <3>1, <2>0
    <3>3. CASE ~(Len(logChan) < Cap)
      BY <1>10, <3>1, <3>3
    <3>4. QED BY <3>2, <3>3
  <2>1. TypeOK' /\ TimerReady'
    BY <1>10, <2>a DEF TypeOK, TimerReady
  <2>2. Times' /\ Busy'
    BY <1>10 DEF TypeOK, Times, Busy
  <2>3. Buffers'
    BY <1>10, <2>0 DEF TypeOK, Buffers, KeysIntact
  <2>4. QED BY <2>1, <2>2, <2>3
<1>11. CASE UNCHANGED vars
  BY <1>11 DEF vars, TypeOK, TimerReady, Times, Busy, Buffers, KeysIntact
<1>12. QED
  BY <1>1, <1>2, <1>3, <1>4, <1>5, <1>6, <1>7, <1>8, <1>9, <1>10, <1>11 DEF Next

\* The variables keep their types, LogChan and the batch their bounds
\* (payload_access_audit.go).
THEOREM TypeCorrect == Spec => []TypeOK
<1>1. AInv /\ [Next]_vars => AInv'
  BY AInvStep
<1>2. AInv => TypeOK
  BY DEF AInv
<1>3. QED BY AInvInit, <1>1, <1>2, PTL DEF Spec

\* The buffer that IpAuditMap keeps as a key is nobody else's (logAudit).
THEOREM KeysStayIntact == Spec => []KeysIntact
<1>1. AInv /\ [Next]_vars => AInv'
  BY AInvStep
<1>2. AInv => KeysIntact
  BY DEF AInv, Buffers
<1>3. QED BY AInvInit, <1>1, <1>2, PTL DEF Spec

\* A batch that is not full is written when its timer fires, as it runs or has fired,
\* and to stop it before a full one is written never waits for ever (logAuditBatch).
THEOREM TimerStaysReady == Spec => []TimerReady
<1>1. AInv /\ [Next]_vars => AInv'
  BY AInvStep
<1>2. AInv => TimerReady
  BY DEF AInv
<1>3. QED BY AInvInit, <1>1, <1>2, PTL DEF Spec

-----------------------------------------------------------------------------
(* No record is lost.                                                      *)

Queuing == {w \in Worker : pc[w] = "queue"}

LEMMA QueuingFinite == IsFiniteSet(Queuing) /\ Cardinality(Queuing) \in Nat
BY AuditAssumption, FS_Subset, FS_CardinalityType DEF Queuing

\* A record that is made stays with its worker until it is queued or dropped.
LEMMA QueuingAdds ==
  ASSUME AInv, NEW w \in Worker, pc[w] # "queue", pc' = [pc EXCEPT ![w] = "queue"]
  PROVE  Cardinality(Queuing') = Cardinality(Queuing) + 1
<1>1. Queuing' = Queuing \cup {w} /\ w \notin Queuing
  BY DEF Queuing, AInv, TypeOK
<1>2. QED BY <1>1, QueuingFinite, FS_AddElement

LEMMA QueuingLess ==
  ASSUME AInv, NEW w \in Worker, pc[w] = "queue", pc' = [pc EXCEPT ![w] = "idle"]
  PROVE  Cardinality(Queuing') = Cardinality(Queuing) - 1
<1>1. Queuing' = Queuing \ {w} /\ w \in Queuing
  BY DEF Queuing, AInv, TypeOK
<1>2. QED BY <1>1, QueuingFinite, FS_RemoveElement

Counted == total = Cardinality(Queuing) + Len(logChan) + Len(logs) + gone

LEMMA CountedStep == ASSUME AInv, Counted, [Next]_vars PROVE Counted'
<1>0. /\ Cardinality(Queuing) \in Nat /\ logChan \in Seq(Key) /\ logs \in Seq(Key)
      /\ gone \in Nat /\ total \in Nat /\ Len(logChan) \in Nat /\ Len(logs) \in Nat
  BY QueuingFinite DEF AInv, TypeOK
<1>1. CASE Collect
  <2> DEFINE b == Append(logs, Head(logChan))
  <2>1. Len(b) = Len(logs) + 1 /\ Len(logChan') = Len(logChan) - 1
    BY <1>0, <1>1 DEF Collect
  <2>2. Queuing' = Queuing /\ total' = total
    BY <1>1 DEF Collect, worker, Queuing
  <2>3. CASE Full(b)
    <3>1. logs' = <<>> /\ gone' = gone + Len(b)
      BY <1>1, <2>3, Zenon DEF Collect, Write
    <3>2. QED BY <1>0, <2>1, <2>2, <3>1 DEF Counted
  <2>4. CASE ~Full(b)
    <3>1. logs' = b /\ gone' = gone
      BY <1>1, <2>4, Zenon DEF Collect
    <3>2. QED BY <1>0, <2>1, <2>2, <3>1 DEF Counted
  <2>5. QED BY <2>3, <2>4
<1>2. CASE Timeout
  <2>1. /\ Queuing' = Queuing /\ total' = total /\ logChan' = logChan
        /\ logs' = <<>> /\ gone' = gone + Len(logs)
    BY <1>2 DEF Timeout, Write, worker, Queuing
  <2>2. QED BY <1>0, <2>1 DEF Counted
<1>3. ASSUME NEW w \in Worker, SetKey(w) PROVE Counted'
  <2>1. Cardinality(Queuing') = Cardinality(Queuing) + 1
    BY <1>3, QueuingAdds DEF SetKey
  <2>2. total' = total + 1 /\ UNCHANGED <<logChan, logs, gone>>
    BY <1>3 DEF SetKey, Made, batch
  <2>3. QED BY <1>0, <2>1, <2>2 DEF Counted
<1>4. ASSUME NEW w \in Worker, Queue(w) PROVE Counted'
  <2>1. Cardinality(Queuing') = Cardinality(Queuing) - 1
    BY <1>4, QueuingLess DEF Queue, Done
  <2>2. total' = total /\ logs' = logs
    BY <1>4 DEF Queue
  <2>3. /\ Len(logChan') + gone' = Len(logChan) + gone + 1
        /\ Len(logChan') \in Nat /\ gone' \in Nat
    <3>1. job[w].key \in Key
      BY <1>4 DEF Queue, AInv, TypeOK, Busy
    <3>2. /\ logChan \in Seq(Key) /\ gone \in Nat
          /\ \/ logChan' = Append(logChan, job[w].key) /\ gone' = gone
             \/ logChan' = logChan /\ gone' = gone + 1
      BY <1>4, Zenon DEF Queue, AInv, TypeOK
    <3>3. QED BY ONLY <3>1, <3>2
  <2> DEFINE q == Cardinality(Queuing)  c == Len(logChan)  g == Len(logs)
  <2>4. /\ total = q + c + g + gone /\ Cardinality(Queuing') = q - 1
        /\ Len(logChan') + gone' = c + gone + 1 /\ total' = total /\ Len(logs') = g
        /\ q \in Int /\ c \in Int /\ g \in Int /\ gone \in Int
        /\ Len(logChan') \in Int /\ gone' \in Int
    BY <1>0, <2>1, <2>2, <2>3 DEF Counted
  <2>5. total' = Cardinality(Queuing') + Len(logChan') + Len(logs') + gone'
    <3> HIDE DEF q, c, g
    <3>1. QED BY ONLY <2>4
  <2>6. QED BY <2>5 DEF Counted
<1>5. ASSUME NEW w \in Worker,
             (\E k \in Key : Take(w, k)) \/ SetConn(w) \/ Known(w) \/ Unknown(w)
      PROVE  Counted'
  <2>1. Queuing' = Queuing
    BY <1>5 DEF Take, SetConn, Known, Unknown, Done, Queuing, AInv, TypeOK
  <2>2. UNCHANGED <<logChan, logs, total, gone>>
    BY <1>5 DEF Take, SetConn, Known, Unknown, batch, history
  <2>3. QED BY <2>1, <2>2 DEF Counted
<1>6. CASE UNCHANGED <<pc, logChan, logs, total, gone>>
  BY <1>6 DEF Counted, Queuing
<1>7. QED
  BY <1>1, <1>2, <1>3, <1>4, <1>5, <1>6 DEF Next, Tick, TimerFires, batch, history, worker, vars

\* Each record that was made is with its worker, in LogChan, in the batch, or gone: it
\* was written, or LogChan was full.
THEOREM RecordsConserved == Spec => []Conserved
<1>1. Init => Counted
  <2>1. Init => Queuing = {} /\ Len(logChan) = 0 /\ Len(logs) = 0 /\ gone = 0 /\ total = 0
    BY DEF Init, Queuing
  <2>2. QED BY <2>1, FS_EmptySet DEF Counted
<1>2. AInv /\ Counted /\ [Next]_vars => AInv' /\ Counted'
  BY AInvStep, CountedStep
<1>3. Counted => Conserved
  BY DEF Counted, Conserved, Queuing
<1>4. QED BY AInvInit, <1>1, <1>2, <1>3, PTL DEF Spec
-----------------------------------------------------------------------------
(* The records of an interval.  Take a key, and an interval that starts at *)
(* t.  While the map's time of the key is before t the interval is open:   *)
(* every worker may find the key missing and go on to record it.  A record *)
(* closes it, and a worker whose packet is from before t opens it again    *)
(* when it stores its own, older time; but it can do so once, and then it  *)
(* is one that records nothing in the interval.                            *)

n == Cardinality(Worker)

LEMMA WorkersFinite == IsFiniteSet(Worker) /\ n \in Nat
BY AuditAssumption, FS_CardinalityType DEF n

\* The workers that can still store a time before t for k.
Old(k, t) == {w \in Worker :
  /\ job[w].at < t
  /\ \/ pc[w] \in {"setConn", "lookup", "set"} /\ job[w].key = k
     \/ pc[w] = "setConn" /\ <<job[w].key[1], "conn">> = k}

InWindow(at, t) == t <= at /\ at < t + Interval

\* The workers that are about to record k in the interval.
Young(k, t) == {w \in Worker : pc[w] = "set" /\ job[w].key = k /\ InWindow(job[w].at, t)}

\* r records are made, and old workers o and young ones p are at work.  An open interval
\* has room for a record of each that is not old; and each of the old ones can open it
\* once more, to one worker more than the old one before it.
Within(r, o, p, open) ==
  2 * r + o * (2 * n - o + 1) + 2 * (IF open THEN n - o ELSE p) <= n * (n + 1)

\* No worker is ahead of the clock, nor is the map.
Past == (\A w \in Worker : job[w].at <= now) /\ \A k \in Key : entry[k].at <= now

WindowInv(k, t) ==
  /\ now < t => made[k][t] = 0
  /\ Within(made[k][t], Cardinality(Old(k, t)), Cardinality(Young(k, t)), entry[k].at < t)

WInv == \A k \in Key, t \in 0 .. MaxTime : WindowInv(k, t)

LEMMA Ladder ==
  ASSUME NEW m \in Int, NEW o \in Int
  PROVE  o * (2 * m - o + 1) = (o - 1) * (2 * m - (o - 1) + 1) + 2 * (m - (o - 1))
OBVIOUS

\* An old worker is done: whether it opened the interval or not.
LEMMA OldDone ==
  ASSUME NEW r \in Nat, NEW o \in Nat, NEW p \in Nat, NEW q \in Nat, NEW open \in BOOLEAN,
         NEW end \in BOOLEAN, Within(r, o, p, open), o > 0, p <= n - o, q <= n - (o - 1)
  PROVE  Within(r, o - 1, q, end)
<1> DEFINE g == o * (2 * n - o + 1)  f == (o - 1) * (2 * n - (o - 1) + 1)
           c == n * (n + 1)
<1>1. n \in Int /\ n \in Nat
  BY WorkersFinite
<1>2. g = f + 2 * (n - (o - 1))
  BY <1>1, Ladder
<1>3. f \in Int /\ g \in Int /\ c \in Int
  BY <1>1
<1>4. 2 * r + g + 2 * (IF open THEN n - o ELSE p) <= c
  BY DEF Within
<1> HIDE DEF f, g, c
<1>5. 2 * r + f + 2 * (IF end THEN n - (o - 1) ELSE q) <= c
  BY <1>1, <1>2, <1>3, <1>4
<1>6. QED BY <1>5 DEF Within, f, c

\* The interval is closed, or stays as it was.
LEMMA Closed ==
  ASSUME NEW r \in Nat, NEW o \in Nat, NEW p \in Nat, NEW open \in BOOLEAN,
         Within(r, o, p, open), p <= n - o
  PROVE  Within(r, o, p, FALSE)
<1> DEFINE g == o * (2 * n - o + 1)  c == n * (n + 1)
<1>1. n \in Nat /\ g \in Int /\ c \in Int
  BY WorkersFinite
<1>2. 2 * r + g + 2 * (IF open THEN n - o ELSE p) <= c
  BY DEF Within
<1> HIDE DEF g, c
<1>3. 2 * r + g + 2 * p <= c
  BY <1>1, <1>2
<1>4. QED BY <1>3 DEF Within, g, c

\* A young worker records the key, which closes the interval.
LEMMA Recorded ==
  ASSUME NEW r \in Nat, NEW o \in Nat, NEW p \in Nat, NEW open \in BOOLEAN,
         Within(r, o, p, open), p > 0, p <= n - o
  PROVE  Within(r + 1, o, p - 1, FALSE)
<1> DEFINE g == o * (2 * n - o + 1)  c == n * (n + 1)
<1>1. n \in Nat /\ g \in Int /\ c \in Int
  BY WorkersFinite
<1>2. 2 * r + g + 2 * (IF open THEN n - o ELSE p) <= c
  BY DEF Within
<1> HIDE DEF g, c
<1>3. 2 * (r + 1) + g + 2 * (p - 1) <= c
  BY <1>1, <1>2
<1>4. QED BY <1>3 DEF Within, g, c

\* Before the interval starts any number of workers may turn old.
LEMMA NotStarted ==
  ASSUME NEW o \in Nat, NEW p \in Nat, o <= n
  PROVE  Within(0, o, p, TRUE)
<1>1. n \in Nat
  BY WorkersFinite
<1> DEFINE d == n - o
<1>2. d \in Nat /\ o = n - d
  BY <1>1
<1>3. d * d >= d
  BY <1>2
<1>4. o * (2 * n - o + 1) + 2 * d + (d * d - d) = n * (n + 1)
  BY <1>1
<1>5. o * (2 * n - o + 1) \in Int /\ n * (n + 1) \in Int /\ d * d \in Int
  BY <1>1, <1>2
<1> HIDE DEF d
<1>6. o * (2 * n - o + 1) + 2 * d <= n * (n + 1)
  BY <1>2, <1>3, <1>4, <1>5
<1> DEFINE g == o * (2 * n - o + 1)  c == n * (n + 1)
<1>7. g \in Int /\ c \in Int /\ g + 2 * (n - o) <= c
  BY <1>5, <1>6 DEF d
<1> HIDE DEF g, c
<1>8. 2 * 0 + g + 2 * (IF TRUE THEN n - o ELSE p) <= c
  BY <1>1, <1>7
<1>9. QED BY <1>8 DEF Within, g, c

LEMMA BoundOfWithin ==
  ASSUME NEW r \in Nat, NEW o \in Nat, NEW p \in Nat, NEW open \in BOOLEAN,
         Within(r, o, p, open), o <= n
  PROVE  r <= (n * (n + 1)) \div 2
<1> DEFINE g == o * (2 * n - o + 1)  c == n * (n + 1)
<1>1. n \in Nat /\ c \in Int
  BY WorkersFinite
<1>2. 2 * n - o + 1 \in Nat
  BY <1>1
<1>3. g \in Nat
  BY <1>2
<1>4. 2 * r + g + 2 * (IF open THEN n - o ELSE p) <= c
  BY DEF Within
<1> HIDE DEF g, c
<1>5. 2 * r <= c
  BY <1>1, <1>3, <1>4
<1>6. r <= c \div 2
  BY <1>1, <1>5
<1>7. QED BY <1>6 DEF c

LEMMA Sizes ==
  ASSUME NEW k, NEW t
  PROVE  /\ IsFiniteSet(Old(k, t)) /\ IsFiniteSet(Young(k, t))
         /\ Cardinality(Old(k, t)) \in Nat /\ Cardinality(Young(k, t)) \in Nat
BY AuditAssumption, FS_Subset, FS_CardinalityType DEF Old, Young

\* No worker is both.
LEMMA Apart ==
  ASSUME AInv, NEW k, NEW t \in Nat
  PROVE  /\ Cardinality(Old(k, t)) <= n
         /\ Cardinality(Young(k, t)) <= n - Cardinality(Old(k, t))
<1>1. Old(k, t) \cap Young(k, t) = {}
  BY DEF Old, Young, InWindow, AInv, TypeOK
<1>2. IsFiniteSet(Old(k, t)) /\ IsFiniteSet(Young(k, t))
  BY Sizes
<1>3. /\ IsFiniteSet(Old(k, t) \cup Young(k, t))
      /\ Cardinality(Old(k, t) \cup Young(k, t))
           = Cardinality(Old(k, t)) + Cardinality(Young(k, t)) - Cardinality(Old(k, t) \cap Young(k, t))
  BY <1>2, FS_Union
<1>4. Cardinality(Old(k, t) \cap Young(k, t)) = 0
  BY <1>1, FS_EmptySet
<1>5. Old(k, t) \cup Young(k, t) \subseteq Worker
  BY DEF Old, Young
<1>6. Cardinality(Old(k, t) \cup Young(k, t)) <= n
  BY <1>5, AuditAssumption, FS_Subset DEF n
<1>7. QED BY <1>3, <1>4, <1>6, Sizes, WorkersFinite

\* The clock is never behind, and only a hello sets a connection's key.
Clocked == Past /\ \A w \in Worker : pc[w] = "setConn" => job[w].key[2] = "host"

LEMMA ClockedStep == ASSUME AInv, Clocked, [Next]_vars PROVE Clocked'
<1> USE DEF Clocked, Past, AInv, TypeOK
<1>1. CASE Tick
  BY <1>1 DEF Tick, batch, history
<1>2. ASSUME UNCHANGED <<now, pc, job, entry>> PROVE Clocked'
  BY <1>2
<1>3. ASSUME NEW w \in Worker, NEW k \in Key, Take(w, k) PROVE Clocked'
  <2>1. PICK b \in pool : job' = [job EXCEPT ![w] = [key |-> k, at |-> now, buf |-> b]]
    BY <1>3 DEF Take
  <2>2. /\ UNCHANGED <<now, entry>>
        /\ pc' = [pc EXCEPT ![w] = IF k[2] = "host" THEN "setConn" ELSE "lookup"]
    BY <1>3 DEF Take
  <2>3. QED BY <2>1, <2>2
<1>4. ASSUME NEW w \in Worker, SetConn(w) PROVE Clocked'
  <2>1. <<job[w].key[1], "conn">> \in Key
    BY <1>4 DEF SetConn, Busy, Key
  <2>2. QED BY <1>4, <2>1 DEF SetConn, Store
<1>5. ASSUME NEW w \in Worker, Known(w) \/ Queue(w) PROVE Clocked'
  <2>1. /\ pc' = [pc EXCEPT ![w] = "idle"] /\ job' = [job EXCEPT ![w] = NoJob]
        /\ UNCHANGED <<now, entry>>
    BY <1>5, Zenon DEF Known, Queue, Done
  <2>2. NoJob.at = 0 /\ 0 <= now
    BY DEF NoJob
  <2>3. QED BY <2>1, <2>2
<1>6. ASSUME NEW w \in Worker, Unknown(w) PROVE Clocked'
  BY <1>6 DEF Unknown
<1>7. ASSUME NEW w \in Worker, SetKey(w) PROVE Clocked'
  <2>1. job[w].key \in Key
    BY <1>7 DEF SetKey, Busy
  <2>2. QED BY <1>7, <2>1 DEF SetKey, Store
<1>8. QED
  BY <1>1, <1>2, <1>3, <1>4, <1>5, <1>6, <1>7
  DEF Next, TimerFires, Collect, Timeout, worker, batch, history, vars

\* A step of worker w moves no other worker in or out of the two sets.
LEMMA Moves ==
  ASSUME NEW w \in Worker, NEW k, NEW t,
         \A v \in Worker \ {w} : pc'[v] = pc[v] /\ job'[v] = job[v]
  PROVE  /\ (w \in Old(k, t)' <=> w \in Old(k, t))
            => Cardinality(Old(k, t))' = Cardinality(Old(k, t))
         /\ (w \in Young(k, t)' <=> w \in Young(k, t))
            => Cardinality(Young(k, t))' = Cardinality(Young(k, t))
         /\ w \in Old(k, t) /\ w \notin Old(k, t)'
            => /\ Cardinality(Old(k, t))' = Cardinality(Old(k, t)) - 1
               /\ Cardinality(Old(k, t)) > 0
         /\ w \in Young(k, t) /\ w \notin Young(k, t)'
            => /\ Cardinality(Young(k, t))' = Cardinality(Young(k, t)) - 1
               /\ Cardinality(Young(k, t)) > 0
<1>1. \A v \in Worker \ {w} : v \in Old(k, t)' <=> v \in Old(k, t)
  BY DEF Old
<1>2. \A v \in Worker \ {w} : v \in Young(k, t)' <=> v \in Young(k, t)
  BY DEF Young
<1>3. /\ Old(k, t) \subseteq Worker /\ Young(k, t) \subseteq Worker
      /\ Old(k, t)' \subseteq Worker /\ Young(k, t)' \subseteq Worker
  BY DEF Old, Young
<1>4. ASSUME NEW S, NEW T, S \subseteq Worker, T \subseteq Worker, IsFiniteSet(S),
             \A v \in Worker \ {w} : v \in T <=> v \in S
      PROVE  /\ (w \in T <=> w \in S) => T = S
             /\ w \in S /\ w \notin T
                => Cardinality(T) = Cardinality(S) - 1 /\ Cardinality(S) > 0
  <2>1. (w \in T <=> w \in S) => T = S
    BY <1>4
  <2>2. ASSUME w \in S, w \notin T
        PROVE  Cardinality(T) = Cardinality(S) - 1 /\ Cardinality(S) > 0
    <3>1. T = S \ {w} /\ IsFiniteSet(T)
      BY <1>4, <2>2, FS_RemoveElement
    <3>2. Cardinality(T) = Cardinality(S) - 1 /\ Cardinality(T) \in Nat /\ Cardinality(S) \in Nat
      BY <1>4, <2>2, <3>1, FS_RemoveElement, FS_CardinalityType
    <3>3. QED BY <3>2
  <2>3. QED BY <2>1, <2>2
<1>5. /\ (w \in Old(k, t)' <=> w \in Old(k, t)) => Old(k, t)' = Old(k, t)
      /\ w \in Old(k, t) /\ w \notin Old(k, t)'
         => /\ Cardinality(Old(k, t)') = Cardinality(Old(k, t)) - 1
            /\ Cardinality(Old(k, t)) > 0
  BY <1>1, <1>3, <1>4, Sizes
<1>6. /\ (w \in Young(k, t)' <=> w \in Young(k, t)) => Young(k, t)' = Young(k, t)
      /\ w \in Young(k, t) /\ w \notin Young(k, t)'
         => /\ Cardinality(Young(k, t)') = Cardinality(Young(k, t)) - 1
            /\ Cardinality(Young(k, t)) > 0
  BY <1>2, <1>3, <1>4, Sizes
<1>7. QED BY <1>5, <1>6

LEMMA Reaches ==
  ASSUME NEW k, NEW t, NEW r, NEW o, NEW p, NEW e \in BOOLEAN, Within(r, o, p, e),
         made'[k][t] = r, Cardinality(Old(k, t))' = o, Cardinality(Young(k, t))' = p,
         (entry'[k].at < t) <=> e
  PROVE  Within(made[k][t], Cardinality(Old(k, t)), Cardinality(Young(k, t)), entry[k].at < t)'
<1>1. CASE e
  BY <1>1 DEF Within
<1>2. CASE ~e
  BY <1>2 DEF Within
<1>3. QED BY <1>1, <1>2

\* Before an interval starts nothing is recorded in it, and it is open.
LEMMA BeforeStart ==
  ASSUME AInv', Clocked', NEW k \in Key, NEW t \in Nat, now' < t, made'[k][t] = 0
  PROVE  WindowInv(k, t)'
<1>1. entry'[k].at < t
  BY DEF Clocked, Past, AInv, TypeOK
<1>2. /\ Cardinality(Old(k, t))' \in Nat /\ Cardinality(Young(k, t))' \in Nat
      /\ Cardinality(Old(k, t))' <= n
  <2>1. Old(k, t)' \subseteq Worker /\ Young(k, t)' \subseteq Worker
    BY DEF Old, Young
  <2>2. QED BY <2>1, AuditAssumption, FS_Subset, FS_CardinalityType DEF n
<1>3. Within(0, Cardinality(Old(k, t))', Cardinality(Young(k, t))', TRUE)
  BY <1>2, NotStarted
<1>4. Within(made[k][t], Cardinality(Old(k, t)), Cardinality(Young(k, t)), entry[k].at < t)'
  BY <1>1, <1>3, Reaches
<1>5. QED BY <1>4 DEF WindowInv

\* What a record adds to an interval.
LEMMA MadeHere ==
  ASSUME AInv, NEW w \in Worker, SetKey(w), NEW k \in Key, NEW t \in 0 .. MaxTime
  PROVE  made'[k][t] = IF k = job[w].key /\ InWindow(job[w].at, t) THEN made[k][t] + 1
                                                                    ELSE made[k][t]
<1>1. made \in [Key -> [0 .. MaxTime -> Nat]]
  BY DEF AInv, TypeOK
<1>2. made' = [made EXCEPT ![job[w].key] = [s \in 0 .. MaxTime |->
                 IF s <= job[w].at /\ job[w].at < s + Interval
                 THEN made[job[w].key][s] + 1 ELSE made[job[w].key][s]]]
  BY DEF SetKey, Made
<1>3. QED BY <1>1, <1>2 DEF InWindow

LEMMA WindowStep ==
  ASSUME AInv, Clocked, [Next]_vars, NEW k \in Key, NEW t \in 0 .. MaxTime, WindowInv(k, t)
  PROVE  WindowInv(k, t)'
<1> DEFINE r == made[k][t]  o == Cardinality(Old(k, t))  p == Cardinality(Young(k, t))
           e == entry[k].at < t
<1>1. /\ r \in Nat /\ o \in Nat /\ p \in Nat /\ e \in BOOLEAN /\ t \in Nat /\ now \in Nat
      /\ n \in Nat /\ o <= n /\ p <= n - o /\ (now < t => r = 0)
  <2>1. t \in Nat /\ now \in Nat /\ made[k][t] \in Nat
    BY AuditAssumption DEF AInv, TypeOK
  <2>2. QED BY <2>1, Sizes, Apart, WorkersFinite DEF WindowInv
<1>a. Within(r, o, p, e)
  BY DEF WindowInv
<1>2. AInv' /\ Clocked'
  BY AInvStep, ClockedStep
<1>3. now' = now \/ now' = now + 1
  <2>1. ASSUME NEW w \in Worker, NEW j \in Key, Take(w, j) PROVE now' = now
    BY <2>1 DEF Take
  <2>2. ASSUME NEW w \in Worker, SetConn(w) \/ Known(w) \/ Unknown(w) PROVE now' = now
    BY <2>2 DEF SetConn, Known, Unknown
  <2>3. ASSUME NEW w \in Worker, SetKey(w) \/ Queue(w) PROVE now' = now
    BY <2>3 DEF SetKey, Queue
  <2>4. CASE TimerFires \/ Collect \/ Timeout \/ UNCHANGED vars
    BY <2>4 DEF TimerFires, Collect, Timeout, vars
  <2>5. CASE Tick
    BY <2>5 DEF Tick
  <2>6. QED BY <2>1, <2>2, <2>3, <2>4, <2>5 DEF Next
<1>4. made'[k][t] # r => ~(now' < t)
  <2>1. ASSUME NEW w \in Worker, SetKey(w), made'[k][t] # r PROVE t <= now /\ now' = now
    <3>1. t <= job[w].at
      BY <2>1, MadeHere DEF InWindow
    <3>2. QED BY <1>1, <2>1, <3>1 DEF SetKey, Clocked, Past, AInv, TypeOK
  <2>2. made' # made => \E w \in Worker : SetKey(w)
    BY DEF Next, Tick, TimerFires, Collect, Timeout, Take, SetConn, Known, Unknown, Queue,
           history, vars
  <2>3. QED BY <1>1, <2>1, <2>2
<1>5. CASE now' < t
  <2>1. made'[k][t] = 0
    BY <1>1, <1>3, <1>4, <1>5
  <2>2. QED BY <1>1, <1>2, <1>5, <2>1, BeforeStart
<1>6. SUFFICES ASSUME ~(now' < t)
               PROVE  Within(made[k][t], Cardinality(Old(k, t)), Cardinality(Young(k, t)), entry[k].at < t)'
  BY <1>5 DEF WindowInv
<1> HIDE DEF r, o, p, e
<1> DEFINE End == Within(made[k][t], Cardinality(Old(k, t)), Cardinality(Young(k, t)), entry[k].at < t)'
           Rest(w) == \A v \in Worker \ {w} : pc'[v] = pc[v] /\ job'[v] = job[v]
           Same == entry'[k] = entry[k] /\ made'[k][t] = made[k][t]
\* A worker that is in neither set before and after, or in the same, and records nothing.
<1>7. ASSUME NEW w \in Worker, Rest(w), Same, w \notin Young(k, t), w \notin Young(k, t)',
             w \in Old(k, t)' => w \in Old(k, t)
      PROVE  End
  <2>1. CASE w \in Old(k, t) /\ w \notin Old(k, t)'
    <3>1. Cardinality(Old(k, t))' = o - 1 /\ o > 0 /\ Cardinality(Young(k, t))' = p
      BY <1>7, <2>1, Moves DEF o, p
    <3>2. Within(r, o - 1, p, e) /\ o - 1 \in Nat
      BY <1>1, <1>a, <3>1, OldDone
    <3>3. QED BY <1>1, <1>7, <3>1, <3>2, Reaches DEF r, e
  <2>2. CASE w \in Old(k, t)' <=> w \in Old(k, t)
    <3>1. Cardinality(Old(k, t))' = o /\ Cardinality(Young(k, t))' = p
      BY <1>7, <2>2, Moves DEF o, p
    <3>2. QED BY <1>1, <1>a, <1>7, <3>1, Reaches DEF r, e
  <2>3. QED BY <1>7, <2>1, <2>2
\* An old worker that stores its time, and any that closes the interval.
<1>8. ASSUME NEW w \in Worker, Rest(w), made'[k][t] = made[k][t], w \notin Young(k, t),
             w \notin Young(k, t)', w \in Old(k, t), w \notin Old(k, t)'
      PROVE  End
  <2>1. Cardinality(Old(k, t))' = o - 1 /\ o > 0 /\ Cardinality(Young(k, t))' = p
    BY <1>8, Moves DEF o, p
  <2> DEFINE end == entry'[k].at < t
  <2>2. end \in BOOLEAN
    OBVIOUS
  <2> HIDE DEF end
  <2>3. Within(r, o - 1, p, end) /\ o - 1 \in Nat
    BY <1>1, <1>a, <2>1, <2>2, OldDone
  <2>4. QED BY <1>1, <1>8, <2>1, <2>2, <2>3, Reaches DEF r, end
<1>9. ASSUME NEW w \in Worker, Rest(w), made'[k][t] = made[k][t], ~(entry'[k].at < t),
             w \notin Young(k, t), w \notin Young(k, t)', w \notin Old(k, t), w \notin Old(k, t)'
      PROVE  End
  <2>1. Cardinality(Old(k, t))' = o /\ Cardinality(Young(k, t))' = p
    BY <1>9, Moves DEF o, p
  <2>2. Within(r, o, p, FALSE)
    BY <1>1, <1>a, Closed
  <2>3. QED BY <1>1, <1>9, <2>1, <2>2, Reaches DEF r
<1>10. ASSUME UNCHANGED <<pc, job, entry, made>> PROVE End
  BY <1>a, <1>1, <1>10, Reaches DEF r, o, p, e, Old, Young
<1>11. ASSUME NEW w \in Worker, NEW j \in Key, Take(w, j) PROVE End
  <2>1. PICK b \in pool : job' = [job EXCEPT ![w] = [key |-> j, at |-> now, buf |-> b]]
    BY <1>11 DEF Take
  <2>2. /\ pc[w] = "idle" /\ Same /\ now' = now
        /\ pc' = [pc EXCEPT ![w] = IF j[2] = "host" THEN "setConn" ELSE "lookup"]
    BY <1>11 DEF Take, history
  <2>3. Rest(w) /\ job'[w].at = now /\ pc'[w] # "set"
    BY <2>1, <2>2 DEF AInv, TypeOK
  <2>4. w \notin Young(k, t) /\ w \notin Young(k, t)' /\ w \notin Old(k, t)'
    BY <1>1, <1>6, <2>2, <2>3 DEF Old, Young
  <2>5. QED BY <1>7, <2>2, <2>3, <2>4
<1>12. ASSUME NEW w \in Worker, SetConn(w) PROVE End
  <2> DEFINE c == <<job[w].key[1], "conn">>
  <2>1. /\ pc[w] = "setConn" /\ pc' = [pc EXCEPT ![w] = "lookup"] /\ job' = job /\ made' = made
        /\ entry' = [entry EXCEPT ![c] = [at |-> job[w].at, buf |-> NULL]]
    BY <1>12 DEF SetConn, Store, history
  <2>2. Rest(w) /\ pc'[w] = "lookup" /\ w \notin Young(k, t) /\ w \notin Young(k, t)'
    BY <2>1 DEF AInv, TypeOK, Young
  <2>3. job[w].key # c
    BY <2>1 DEF Clocked
  <2>4. CASE k # c
    <3>1. entry'[k] = entry[k]
      BY <2>1, <2>4
    <3>2. w \in Old(k, t)' => w \in Old(k, t)
      BY <2>1, <2>2 DEF Old
    <3>3. QED BY <1>7, <2>1, <2>2, <3>1, <3>2
  <2>5. CASE k = c
    <3>1. entry'[k].at = job[w].at /\ job[w].at \in Nat
      BY <2>1, <2>5 DEF AInv, TypeOK
    <3>2. w \notin Old(k, t)'
      BY <2>1, <2>2, <2>3, <2>5 DEF Old
    <3>3. CASE job[w].at < t
      <4>1. w \in Old(k, t)
        BY <2>1, <2>5, <3>3 DEF Old
      <4>2. QED BY <1>8, <2>1, <2>2, <3>2, <4>1
    <3>4. CASE ~(job[w].at < t)
      <4>1. w \notin Old(k, t) /\ ~(entry'[k].at < t)
        BY <3>1, <3>4 DEF Old
      <4>2. QED BY <1>9, <2>1, <2>2, <3>2, <4>1
    <3>5. QED BY <3>3, <3>4
  <2>6. QED BY <2>4, <2>5
<1>13. ASSUME NEW w \in Worker, Known(w) \/ Queue(w) PROVE End
  <2>1. /\ pc[w] \in {"lookup", "queue"} /\ Same
        /\ pc' = [pc EXCEPT ![w] = "idle"] /\ job' = [job EXCEPT ![w] = NoJob]
    <3>1. pc[w] \in {"lookup", "queue"} /\ Done(w) /\ entry' = entry /\ made' = made
      BY <1>13, Zenon DEF Known, Queue, history
    <3>2. QED BY <3>1 DEF Done
  <2>2. Rest(w) /\ pc'[w] = "idle"
    BY <2>1 DEF AInv, TypeOK
  <2>3. w \notin Young(k, t) /\ w \notin Young(k, t)' /\ w \notin Old(k, t)'
    BY <2>1, <2>2 DEF Old, Young
  <2>4. QED BY <1>7, <2>1, <2>2, <2>3
<1>14. ASSUME NEW w \in Worker, Unknown(w) PROVE End
  <2>1. /\ pc[w] = "lookup" /\ pc' = [pc EXCEPT ![w] = "set"] /\ job' = job /\ Same /\ ~Fresh(w)
    BY <1>14 DEF Unknown, history
  <2>2. Rest(w) /\ pc'[w] = "set" /\ w \notin Young(k, t)
    BY <2>1 DEF AInv, TypeOK, Young
  <2>3. w \in Old(k, t)' <=> w \in Old(k, t)
    BY <2>1, <2>2 DEF Old
  <2>4. CASE w \notin Young(k, t)'
    BY <1>7, <2>1, <2>2, <2>3, <2>4
  <2>5. CASE w \in Young(k, t)'
    <3>1. job[w].key = k /\ t <= job[w].at /\ job[w].at < t + Interval /\ job[w].at \in Nat
      BY <2>1, <2>5 DEF Young, InWindow, AInv, TypeOK
    <3>2. entry[k] = NoEntry \/ job[w].at - entry[k].at >= Interval
      <4>1. entry[k].at \in Int /\ Interval \in Nat
        BY AuditAssumption DEF AInv, TypeOK
      <4>2. QED BY <2>1, <3>1, <4>1 DEF Fresh
    <3>3. entry[k].at < t
      <4>1. entry[k].at \in Int /\ Interval \in Nat
        BY AuditAssumption DEF AInv, TypeOK
      <4>2. QED BY <1>1, <3>1, <3>2, <4>1 DEF NoEntry
    <3> DEFINE q == Cardinality(Young(k, t))'
    <3>4. Within(r, o, q, TRUE)
      BY <1>a, <3>3 DEF Within, e
    <3>5. Cardinality(Old(k, t))' = o
      BY <2>2, <2>3, Moves DEF o
    <3> HIDE DEF q
    <3>6. QED BY <2>1, <3>3, <3>4, <3>5, Reaches DEF r, q
  <2>6. QED BY <2>4, <2>5
<1>15. ASSUME NEW w \in Worker, SetKey(w) PROVE End
  <2>1. /\ pc[w] = "set" /\ pc' = [pc EXCEPT ![w] = "queue"] /\ job' = [job EXCEPT ![w].buf = NULL]
        /\ entry' = [entry EXCEPT ![job[w].key] = [at |-> job[w].at, buf |-> job[w].buf]]
        /\ job[w].key \in Key /\ job[w].at \in Nat
    BY <1>15 DEF SetKey, Store, AInv, TypeOK, Busy
  <2>2. Rest(w) /\ w \notin Young(k, t)' /\ w \notin Old(k, t)'
    BY <2>1 DEF AInv, TypeOK, Old, Young
  <2>3. CASE k # job[w].key
    <3>1. Same
      BY <1>15, <2>1, <2>3, MadeHere
    <3>2. w \notin Young(k, t)
      BY <2>3 DEF Young
    <3>3. QED BY <1>7, <2>2, <3>1, <3>2
  <2>4. CASE k = job[w].key
    <3>1. entry'[k].at = job[w].at
      BY <2>1, <2>4 DEF AInv, TypeOK
    <3>2. CASE job[w].at < t
      <4>1. made'[k][t] = made[k][t] /\ w \notin Young(k, t) /\ w \in Old(k, t)
        BY <1>1, <1>15, <2>1, <2>4, <3>2, MadeHere DEF InWindow, Young, Old
      <4>2. QED BY <1>8, <2>2, <4>1
    <3>3. CASE InWindow(job[w].at, t)
      <4>1. made'[k][t] = r + 1 /\ w \in Young(k, t) /\ w \notin Old(k, t) /\ ~(entry'[k].at < t)
        BY <1>1, <1>15, <2>1, <2>4, <3>1, <3>3, MadeHere DEF InWindow, Young, Old, r
      <4>2. Cardinality(Old(k, t))' = o /\ Cardinality(Young(k, t))' = p - 1 /\ p > 0
        BY <2>2, <4>1, Moves DEF o, p
      <4>3. Within(r + 1, o, p - 1, FALSE)
        BY <1>1, <1>a, <4>2, Recorded
      <4>4. QED BY <4>1, <4>2, <4>3, Reaches
    <3>4. CASE ~(job[w].at < t) /\ ~InWindow(job[w].at, t)
      <4>1. /\ made'[k][t] = made[k][t] /\ w \notin Young(k, t) /\ w \notin Old(k, t)
            /\ ~(entry'[k].at < t)
        BY <1>15, <2>4, <3>1, <3>4, MadeHere DEF Young, Old
      <4>2. QED BY <1>9, <2>2, <4>1
    <3>5. QED BY <3>2, <3>3, <3>4
  <2>5. QED BY <2>3, <2>4
<1>16. QED
  BY <1>10, <1>11, <1>12, <1>13, <1>14, <1>15
  DEF Next, Tick, TimerFires, Collect, Timeout, worker, batch, history, vars

LEMMA WindowInit == Init => Clocked /\ WInv
<1> SUFFICES ASSUME Init PROVE Clocked /\ WInv
  OBVIOUS
<1>1. Clocked
  BY DEF Init, Clocked, Past, NoJob, NoEntry
<1>2. ASSUME NEW k \in Key, NEW t \in 0 .. MaxTime PROVE WindowInv(k, t)
  <2>1. Old(k, t) = {} /\ Young(k, t) = {} /\ made[k][t] = 0 /\ entry[k].at < t /\ t \in Nat
    BY <1>2, AuditAssumption DEF Init, Old, Young, NoEntry
  <2>2. Cardinality({}) = 0 /\ 0 \in Nat /\ 0 <= n
    BY WorkersFinite, FS_EmptySet
  <2>3. Within(0, 0, 0, TRUE)
    BY <2>2, NotStarted, Zenon
  <2>4. Within(made[k][t], Cardinality(Old(k, t)), Cardinality(Young(k, t)), entry[k].at < t)
    BY <2>1, <2>2, <2>3 DEF Within
  <2>5. QED BY <2>1, <2>4 DEF WindowInv
<1>3. QED BY <1>1, <1>2 DEF WInv

\* Whatever the workers do at the same time, a key has at most n (n + 1) / 2 records in
\* an interval, for n workers (logAudit reads IpAuditMap and then sets it).
THEOREM RecordsStayBounded == Spec => []RecordsBounded
<1> DEFINE IInv == AInv /\ Clocked /\ WInv
<1>1. Init => IInv
  BY AInvInit, WindowInit
<1>2. IInv /\ [Next]_vars => IInv'
  <2> SUFFICES ASSUME IInv, [Next]_vars PROVE IInv'
    OBVIOUS
  <2>1. AInv' /\ Clocked'
    BY AInvStep, ClockedStep
  <2>2. ASSUME NEW k \in Key, NEW t \in 0 .. MaxTime PROVE WindowInv(k, t)'
    BY WindowStep DEF WInv
  <2>3. QED BY <2>1, <2>2 DEF WInv
<1>3. IInv => RecordsBounded
  <2> SUFFICES ASSUME IInv, NEW k \in Key, NEW t \in 0 .. MaxTime
               PROVE  made[k][t] <= (n * (n + 1)) \div 2
    BY DEF RecordsBounded, n
  <2>1. /\ made[k][t] \in Nat /\ t \in Nat
        /\ Within(made[k][t], Cardinality(Old(k, t)), Cardinality(Young(k, t)), entry[k].at < t)
    BY AuditAssumption DEF AInv, TypeOK, WInv, WindowInv
  <2> DEFINE e == entry[k].at < t
  <2>2. e \in BOOLEAN
    OBVIOUS
  <2> HIDE DEF e
  <2>3. QED BY <2>1, <2>2, Sizes, Apart, BoundOfWithin DEF e
<1>4. QED BY <1>1, <1>2, <1>3, PTL DEF Spec
=============================================================================
