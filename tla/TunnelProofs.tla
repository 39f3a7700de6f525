---------------------------- MODULE TunnelProofs ----------------------------
(***************************************************************************)
(* Proofs about Tunnel: types, payloads that are in one place, and packets *)
(* that keep their kind, for any number of DTLS connections and payloads   *)
(* and any capacity of the channels and of the audit's queue.              *)
(***************************************************************************)
EXTENDS Tunnel, TLAPS

-----------------------------------------------------------------------------
(* Queues without repetition.                                              *)

Distinct(s) == \A i, j \in DOMAIN s : s[i] = s[j] => i = j

LEMMA RangeAppend ==
  ASSUME NEW S, NEW s \in Seq(S), NEW x \in S
  PROVE  /\ Append(s, x) \in Seq(S) /\ Len(Append(s, x)) = Len(s) + 1
         /\ Range(Append(s, x)) = Range(s) \cup {x}
         /\ Distinct(s) /\ x \notin Range(s) => Distinct(Append(s, x))
<1> DEFINE t == Append(s, x)
<1>1. t \in Seq(S) /\ Len(t) = Len(s) + 1
  OBVIOUS
<1>2. /\ DOMAIN t = 1 .. Len(s) + 1 /\ DOMAIN s = 1 .. Len(s)
      /\ \A i \in 1 .. Len(s) : t[i] = s[i]
      /\ t[Len(s) + 1] = x
  OBVIOUS
<1>3. Len(s) \in Nat
  OBVIOUS
<1> HIDE DEF t
<1>4. Range(t) = Range(s) \cup {x}
  BY <1>2, <1>3 DEF Range
<1>5. ASSUME Distinct(s), x \notin Range(s) PROVE Distinct(t)
  BY <1>2, <1>3, <1>5 DEF Range, Distinct
<1>6. QED BY <1>1, <1>4, <1>5 DEF t

LEMMA RangeTail ==
  ASSUME NEW S, NEW s \in Seq(S), s # <<>>, Distinct(s)
  PROVE  /\ Tail(s) \in Seq(S) /\ Len(Tail(s)) <= Len(s) /\ Head(s) \in S
         /\ Head(s) \in Range(s) /\ Range(Tail(s)) = Range(s) \ {Head(s)}
         /\ Distinct(Tail(s))
<1> DEFINE t == Tail(s)
<1>1. t \in Seq(S) /\ Len(t) = Len(s) - 1 /\ Head(s) = s[1] /\ s[1] \in S
  OBVIOUS
<1>2. /\ Len(s) \in Nat \ {0} /\ DOMAIN s = 1 .. Len(s) /\ DOMAIN t = 1 .. Len(s) - 1
      /\ \A i \in 1 .. Len(s) - 1 : t[i] = s[i + 1]
  OBVIOUS
<1> HIDE DEF t
<1>3. Range(t) \subseteq Range(s) \ {s[1]}
  <2> SUFFICES ASSUME NEW i \in 1 .. Len(s) - 1 PROVE t[i] \in Range(s) \ {s[1]}
    BY <1>2 DEF Range
  <2>1. i + 1 \in 1 .. Len(s) /\ 1 \in 1 .. Len(s) /\ i + 1 # 1 /\ t[i] = s[i + 1]
    BY <1>2
  <2>2. QED BY <1>2, <2>1 DEF Range, Distinct
<1>4. Range(s) \ {s[1]} \subseteq Range(t)
  <2> SUFFICES ASSUME NEW i \in 1 .. Len(s), i # 1 PROVE s[i] \in Range(t)
    BY <1>2 DEF Range
  <2>1. i - 1 \in 1 .. Len(s) - 1 /\ t[i - 1] = s[i]
    BY <1>2
  <2>2. QED BY <1>2, <2>1 DEF Range
<1>5. Distinct(t)
  <2> SUFFICES ASSUME NEW i \in 1 .. Len(s) - 1, NEW j \in 1 .. Len(s) - 1, t[i] = t[j] PROVE i = j
    BY <1>2 DEF Distinct
  <2>1. i + 1 \in 1 .. Len(s) /\ j + 1 \in 1 .. Len(s) /\ s[i + 1] = s[j + 1]
    BY <1>2
  <2>2. i + 1 = j + 1
    BY <1>2, <2>1 DEF Distinct
  <2>3. QED BY <2>2
<1>6. s[1] \in Range(s)
  BY <1>2 DEF Range
<1>7. QED BY <1>1, <1>2, <1>3, <1>4, <1>5, <1>6 DEF t

-----------------------------------------------------------------------------
(* Payloads: each way one goes keeps it in one place.                      *)

Kinds == {Plain, Dpd, Arp}

\* Places of payloads, and the kinds that go with them.
MemTypes ==
  /\ hold \in [Proc -> Payload \cup {NULL}]
  /\ queue \in [Channel -> Seq(Payload)] /\ \A c \in Channel : Len(queue[c]) <= Cap
  /\ pool \subseteq Payload /\ jobs \subseteq Payload
  /\ kind \in [Payload -> Kinds]

MemKinds ==
  /\ \A b \in pool : kind[b] = Plain
  /\ \A c \in {"cstp", "dtls"} : \A b \in Queued(c) : kind[b].ltype = "ip"

Mem == MemTypes /\ MemKinds /\ Exclusive

\* What other goroutines have does not change.
Others(p) ==
  \A q \in Proc \ {p} : hold'[q] = hold[q] /\ (hold[q] # NULL => kind'[hold[q]] = kind[hold[q]])

LEMMA QueuedType == ASSUME MemTypes, NEW c \in Channel PROVE Queued(c) \subseteq Payload
BY DEF MemTypes, Queued, Range

LEMMA KindsType == Plain \in Kinds /\ Plain.ltype = "ip" /\ Dpd.ltype = "ip" /\ Plain # Dpd /\ Plain # Arp
BY DEF Kinds, Plain, Dpd, Arp

\* A payload of the pool, with a kind.
LEMMA GetKeeps ==
  ASSUME Mem, NEW p \in Proc, NEW b \in pool, NEW k \in Kinds,
         pool' = pool \ {b}, hold' = [hold EXCEPT ![p] = b], kind' = [kind EXCEPT ![b] = k],
         UNCHANGED <<queue, jobs>>
  PROVE  Mem' /\ Others(p) /\ hold'[p] = b /\ kind'[b] = k
<1> USE TunnelAssumption DEF Mem
<1>1. MemTypes' /\ b \in Payload /\ b # NULL
  BY DEF MemTypes
<1>2. \A c \in Channel : Queued(c)' = Queued(c) /\ queue'[c] = queue[c]
  BY DEF Queued
<1>3. /\ hold'[p] = b /\ \A q \in Proc \ {p} : hold'[q] = hold[q]
      /\ kind'[b] = k /\ \A x \in Payload \ {b} : kind'[x] = kind[x]
  BY <1>1 DEF MemTypes
<1>4. /\ \A c \in Channel : b \notin Queued(c)
      /\ \A q \in Proc : hold[q] # b
      /\ b \notin jobs
  BY <1>1 DEF Exclusive
<1>5. Others(p)
  BY <1>3, <1>4 DEF Others, MemTypes
<1>6. MemKinds'
  BY <1>1, <1>2, <1>3, <1>4, QueuedType DEF MemKinds, MemTypes, Channel
<1>7. Exclusive'
  BY <1>1, <1>2, <1>3, <1>4 DEF Exclusive
<1>8. QED BY <1>1, <1>3, <1>5, <1>6, <1>7

\* A payload goes into a channel.
LEMMA SendKeeps ==
  ASSUME Mem, NEW p \in Proc, NEW c \in Channel, hold[p] # NULL, Len(queue[c]) < Cap,
         c # "in" => kind[hold[p]].ltype = "ip",
         queue' = [queue EXCEPT ![c] = Append(@, hold[p])], hold' = [hold EXCEPT ![p] = NULL],
         UNCHANGED <<pool, kind, jobs>>
  PROVE  Mem' /\ Others(p) /\ hold'[p] = NULL
<1> USE TunnelAssumption DEF Mem
<1> DEFINE b == hold[p]
<1>1. b \in Payload /\ queue[c] \in Seq(Payload) /\ Distinct(queue[c]) /\ b \notin Queued(c)
  BY DEF MemTypes, Exclusive, Distinct
<1>2. /\ queue'[c] \in Seq(Payload) /\ Len(queue'[c]) = Len(queue[c]) + 1
      /\ Queued(c)' = Queued(c) \cup {b} /\ Distinct(queue'[c])
      /\ \A e \in Channel \ {c} : queue'[e] = queue[e] /\ Queued(e)' = Queued(e)
  BY <1>1, RangeAppend DEF MemTypes, Queued
<1>3. hold'[p] = NULL /\ \A q \in Proc \ {p} : hold'[q] = hold[q]
  BY DEF MemTypes
<1>4. MemTypes'
  BY <1>2, <1>3 DEF MemTypes
<1>5. MemKinds'
  BY <1>2, <1>3 DEF MemKinds, Channel
<1>6. Others(p)
  BY <1>3 DEF Others
<1>7. /\ \A e \in Channel : b \notin Queued(e)
      /\ \A q \in Proc \ {p} : hold[q] # b
      /\ b \notin pool \cup jobs
  BY DEF Exclusive
<1>8. Exclusive'
  <2>1. \A q, r \in Proc : hold'[q] # NULL /\ hold'[q] = hold'[r] => q = r
    BY <1>3 DEF Exclusive
  <2>2. ASSUME NEW e \in Channel
        PROVE  \A i, j \in DOMAIN queue'[e] : queue'[e][i] = queue'[e][j] => i = j
    BY <1>2 DEF Exclusive, Distinct
  <2>3. ASSUME NEW e \in Channel, NEW f \in Channel \ {e} PROVE Queued(e)' \cap Queued(f)' = {}
    BY <1>2, <1>7 DEF Exclusive
  <2>4. ASSUME NEW e \in Channel, NEW q \in Proc PROVE hold'[q] \notin Queued(e)'
    BY <1>1, <1>2, <1>3, <1>7, QueuedType DEF Exclusive
  <2>5. ASSUME NEW e \in Channel PROVE (pool \cup jobs) \cap Queued(e)' = {}
    BY <1>2, <1>7 DEF Exclusive
  <2>6. pool \cap jobs = {} /\ \A q \in Proc : hold'[q] \notin pool \cup jobs
    BY <1>3 DEF Exclusive, MemTypes
  <2>7. QED BY <2>1, <2>2, <2>3, <2>4, <2>5, <2>6 DEF Exclusive
<1>9. QED BY <1>3, <1>4, <1>5, <1>6, <1>8

\* A payload comes out of a channel.
LEMMA ReceiveKeeps ==
  ASSUME Mem, NEW p \in Proc, NEW c \in Channel, hold[p] = NULL, queue[c] # <<>>,
         hold' = [hold EXCEPT ![p] = Head(queue[c])], queue' = [queue EXCEPT ![c] = Tail(@)],
         UNCHANGED <<pool, kind, jobs>>
  PROVE  Mem' /\ Others(p) /\ hold'[p] \in Payload
<1> USE TunnelAssumption DEF Mem
<1> DEFINE b == Head(queue[c])
<1>1. queue[c] \in Seq(Payload) /\ Distinct(queue[c])
  BY DEF MemTypes, Exclusive, Distinct
<1>2. /\ Tail(queue[c]) \in Seq(Payload) /\ Len(Tail(queue[c])) <= Len(queue[c])
      /\ b \in Payload /\ b \in Queued(c)
      /\ Range(Tail(queue[c])) = Queued(c) \ {b} /\ Distinct(Tail(queue[c]))
  BY <1>1, RangeTail DEF Queued
<1>3. queue'[c] = Tail(queue[c]) /\ \A e \in Channel \ {c} : queue'[e] = queue[e]
  BY DEF MemTypes
<1>4. Queued(c)' = Queued(c) \ {b} /\ \A e \in Channel \ {c} : Queued(e)' = Queued(e)
  BY <1>2, <1>3 DEF Queued
<1>5. hold'[p] = b /\ \A q \in Proc \ {p} : hold'[q] = hold[q]
  BY DEF MemTypes
<1> HIDE DEF b
<1>6. MemTypes'
  <2>1. hold' \in [Proc -> Payload \cup {NULL}]
    BY <1>2 DEF MemTypes, b
  <2>2. queue' \in [Channel -> Seq(Payload)]
    BY <1>2 DEF MemTypes
  <2>3. \A e \in Channel : Len(queue'[e]) <= Cap
    <3>1. Len(queue[c]) \in Nat /\ Len(Tail(queue[c])) \in Nat /\ Len(queue[c]) <= Cap
      BY <1>1, <1>2 DEF MemTypes
    <3>2. QED BY <1>2, <1>3, <3>1 DEF MemTypes
  <2>4. QED BY <2>1, <2>2, <2>3 DEF MemTypes
<1>7. MemKinds'
  BY <1>4 DEF MemKinds, Channel
<1>8. Others(p)
  BY <1>5 DEF Others
<1>9. /\ \A e \in Channel \ {c} : b \notin Queued(e)
      /\ \A q \in Proc : hold[q] # b
      /\ b \notin pool \cup jobs
  BY <1>2 DEF Exclusive
<1>10. Exclusive'
  <2>1. \A q, r \in Proc : hold'[q] # NULL /\ hold'[q] = hold'[r] => q = r
    BY <1>5, <1>9 DEF Exclusive
  <2>2. ASSUME NEW e \in Channel
        PROVE  \A i, j \in DOMAIN queue'[e] : queue'[e][i] = queue'[e][j] => i = j
    BY <1>2, <1>3 DEF Exclusive, Distinct
  <2>3. ASSUME NEW e \in Channel, NEW f \in Channel \ {e} PROVE Queued(e)' \cap Queued(f)' = {}
    BY <1>4 DEF Exclusive
  <2>4. ASSUME NEW e \in Channel, NEW q \in Proc PROVE hold'[q] \notin Queued(e)'
    BY <1>4, <1>5, <1>9 DEF Exclusive
  <2>5. ASSUME NEW e \in Channel PROVE (pool \cup jobs) \cap Queued(e)' = {}
    BY <1>4 DEF Exclusive
  <2>6. pool \cap jobs = {} /\ \A q \in Proc : hold'[q] \notin pool \cup jobs
    BY <1>5, <1>9 DEF Exclusive
  <2>7. QED BY <2>1, <2>2, <2>3, <2>4, <2>5, <2>6 DEF Exclusive
<1>11. QED BY <1>2, <1>5, <1>6, <1>7, <1>8, <1>10

\* The payload of p, if it has one, goes to the pool.
LEMMA ForgetKeeps ==
  ASSUME Mem, NEW p \in Proc, Forget(p), UNCHANGED <<queue, jobs>>
  PROVE  Mem' /\ Others(p) /\ hold'[p] = NULL
<1> USE TunnelAssumption DEF Mem
<1> DEFINE b == hold[p]
<1>1. hold'[p] = NULL /\ \A q \in Proc \ {p} : hold'[q] = hold[q]
  BY DEF Forget, Drop, MemTypes
<1>2. /\ pool' = (pool \cup {b}) \ {NULL} /\ b \in Payload \cup {NULL}
      /\ kind' = [x \in Payload |-> IF x = b THEN Plain ELSE kind[x]]
  BY DEF Forget, MemTypes
<1>3. \A c \in Channel : Queued(c)' = Queued(c) /\ queue'[c] = queue[c] /\ b \notin Queued(c)
  BY DEF Queued, Exclusive
<1>4. /\ \A q \in Proc \ {p} : b # NULL => hold[q] # b
      /\ b \notin jobs
  BY DEF Exclusive
<1>5. MemTypes'
  BY <1>2, KindsType DEF Forget, Drop, MemTypes
<1>6. MemKinds'
  BY <1>2, <1>3, QueuedType DEF MemKinds, MemTypes, Channel
<1>7. Others(p)
  BY <1>1, <1>2, <1>4 DEF Others, MemTypes
<1>8. Exclusive'
  <2>1. \A q, r \in Proc : hold'[q] # NULL /\ hold'[q] = hold'[r] => q = r
    BY <1>1 DEF Exclusive
  <2>2. \A c \in Channel : /\ \A i, j \in DOMAIN queue'[c] : queue'[c][i] = queue'[c][j] => i = j
                           /\ \A e \in Channel \ {c} : Queued(c)' \cap Queued(e)' = {}
                           /\ \A q \in Proc : hold'[q] \notin Queued(c)'
                           /\ (pool' \cup jobs') \cap Queued(c)' = {}
    BY <1>1, <1>2, <1>3, QueuedType DEF Exclusive
  <2>3. pool' \cap jobs' = {} /\ \A q \in Proc : hold'[q] \notin pool' \cup jobs'
    BY <1>1, <1>2, <1>4 DEF Exclusive, MemTypes
  <2>4. QED BY <2>1, <2>2, <2>3 DEF Exclusive
<1>9. QED BY <1>1, <1>5, <1>6, <1>7, <1>8

\* A payload goes to the audit.
LEMMA JobKeeps ==
  ASSUME Mem, NEW p \in Proc, hold[p] # NULL, jobs' = jobs \cup {hold[p]},
         hold' = [hold EXCEPT ![p] = NULL], UNCHANGED <<queue, pool, kind>>
  PROVE  Mem' /\ Others(p) /\ hold'[p] = NULL
<1> USE TunnelAssumption DEF Mem
<1> DEFINE b == hold[p]
<1>1. hold'[p] = NULL /\ \A q \in Proc \ {p} : hold'[q] = hold[q]
  BY DEF MemTypes
<1>2. b \in Payload /\ b \notin pool /\ \A q \in Proc \ {p} : hold[q] # b
  BY DEF MemTypes, Exclusive
<1>3. \A c \in Channel : Queued(c)' = Queued(c) /\ queue'[c] = queue[c] /\ b \notin Queued(c)
  BY DEF Queued, Exclusive
<1>4. MemTypes' /\ MemKinds' /\ Others(p)
  BY <1>1, <1>2, <1>3 DEF MemTypes, MemKinds, Others, Channel
<1>5. Exclusive'
  <2>1. \A q, r \in Proc : hold'[q] # NULL /\ hold'[q] = hold'[r] => q = r
    BY <1>1 DEF Exclusive
  <2>2. \A c \in Channel : /\ \A i, j \in DOMAIN queue'[c] : queue'[c][i] = queue'[c][j] => i = j
                           /\ \A e \in Channel \ {c} : Queued(c)' \cap Queued(e)' = {}
                           /\ \A q \in Proc : hold'[q] \notin Queued(c)'
                           /\ (pool' \cup jobs') \cap Queued(c)' = {}
    BY <1>1, <1>3, QueuedType DEF Exclusive
  <2>3. pool' \cap jobs' = {} /\ \A q \in Proc : hold'[q] \notin pool' \cup jobs'
    BY <1>1, <1>2 DEF Exclusive, MemTypes
  <2>4. QED BY <2>1, <2>2, <2>3 DEF Exclusive
<1>6. QED BY <1>1, <1>4, <1>5

\* The audit is done with a payload.
LEMMA AuditedKeeps ==
  ASSUME Mem, NEW b \in jobs, jobs' = jobs \ {b}, Put(b), UNCHANGED <<queue, hold>>
  PROVE  Mem' /\ \A q \in Proc : hold'[q] = hold[q] /\ (hold[q] # NULL => kind'[hold[q]] = kind[hold[q]])
<1> USE TunnelAssumption DEF Mem
<1>1. b \in Payload /\ pool' = pool \cup {b} /\ kind' = [kind EXCEPT ![b] = Plain]
  BY DEF Put, MemTypes
<1>2. /\ \A c \in Channel : Queued(c)' = Queued(c) /\ queue'[c] = queue[c] /\ b \notin Queued(c)
      /\ \A q \in Proc : hold[q] # b
  BY DEF Queued, Exclusive
<1>3. MemTypes' /\ MemKinds'
  BY <1>1, <1>2, KindsType, QueuedType DEF MemTypes, MemKinds, Channel
<1>4. \A q \in Proc : hold'[q] = hold[q] /\ (hold[q] # NULL => kind'[hold[q]] = kind[hold[q]])
  BY <1>1, <1>2 DEF MemTypes
<1>5. Exclusive'
  BY <1>1, <1>2 DEF Exclusive
<1>6. QED BY <1>3, <1>4, <1>5

-----------------------------------------------------------------------------
(* Where the goroutines are.                                               *)

Holding == {"in", "outCstp", "outDtls", "write"}

\* What p has to have for where it is.
CtlAt(p) ==
  /\ pc[p] \in Holding <=> hold[p] # NULL
  /\ pc[p] \in {"outCstp", "outDtls"} =>
       kind[hold[p]].ltype = "ip" /\ (p = P("devRead") => kind[hold[p]] = Plain)

\* dtlsWrite is started when its DTLS session is stored.
Unstored == {"idle", "accept", "store"}
Ctl ==
  /\ pc \in [Proc -> PcState]
  /\ \A p \in Proc : CtlAt(p)
  /\ \A d \in Dtls : pc[Read(d)] \in Unstored => pc[Write(d)] = "idle"

\* The connection: what payloads do not depend on.
Net ==
  /\ via \in Dtls \cup {NULL} /\ cur \in Dtls \cup {NULL}
  /\ closing \in {"open", "begun", "done"}
  /\ active \in [Dtls -> {"none", "active", "closed"}]
  /\ sock \subseteq {"conn", "dev"} \cup Dtls
  /\ peer \in {"up", "gone"}

TInv == Mem /\ Ctl /\ Net

LEMMA TypeSplit == TypeOK <=> MemTypes /\ pc \in [Proc -> PcState] /\ Net
BY Zenon DEF TypeOK, MemTypes, Net, Kinds

LEMMA ProcType ==
  /\ \A x \in Main : P(x) \in Proc
  /\ \A d \in Dtls : Read(d) \in Proc /\ Write(d) \in Proc /\ Read(d) # Write(d)
  /\ \A d, e \in Dtls : Read(d) # Write(e) /\ (Write(d) = Write(e) => d = e)
  /\ \A x \in Main : \A d \in Dtls : P(x) # Read(d) /\ P(x) # Write(d)
BY TunnelAssumption DEF Proc, P, Read, Write, Main

\* One goroutine goes on, with what it has to have there.
LEMMA CtlGoto ==
  ASSUME Ctl, NEW p \in Proc, NEW to \in PcState \ {"idle"}, Goto(p, to), Others(p),
         pc[p] # "idle" \/ \A d \in Dtls : p # Write(d), to \in Unstored => pc[p] \in Unstored,
         CtlAt(p)'
  PROVE  Ctl'
<1>1. pc' \in [Proc -> PcState] /\ pc'[p] = to /\ \A q \in Proc \ {p} : pc'[q] = pc[q]
  BY DEF Ctl, Goto
<1>2. ASSUME NEW q \in Proc \ {p} PROVE CtlAt(q)'
  BY <1>1 DEF Ctl, CtlAt, Others, Holding
<1>3. ASSUME NEW d \in Dtls, pc'[Read(d)] \in Unstored PROVE pc'[Write(d)] = "idle"
  <2>1. Read(d) \in Proc /\ Write(d) \in Proc /\ Read(d) # Write(d)
    BY ProcType
  <2>2. pc[Read(d)] \in Unstored
    BY <1>1, <1>3, <2>1 DEF Unstored
  <2>3. pc[Write(d)] = "idle"
    BY <2>1, <2>2 DEF Ctl
  <2>4. QED BY <1>1, <2>1, <2>3
<1>4. QED BY <1>1, <1>2, <1>3 DEF Ctl

LEMMA PutForget ==
  ASSUME Mem, NEW p \in Proc, hold[p] # NULL, Put(hold[p]), Drop(p)
  PROVE  Forget(p)
BY TunnelAssumption DEF Mem, MemTypes, Put, Forget

\* p gives its payload up.
LEMMA LeaveKeeps ==
  ASSUME TInv, NEW p \in Proc, NEW to \in PcState \ (Holding \cup Unstored),
         pc[p] # "idle", Forget(p), Goto(p, to), UNCHANGED <<queue, jobs>>
  PROVE  Mem' /\ Ctl'
<1>1. Mem' /\ Others(p) /\ hold'[p] = NULL
  BY ForgetKeeps DEF TInv
<1>2. CtlAt(p)'
  BY <1>1 DEF CtlAt, Goto, TInv, Ctl, Holding
<1>3. QED BY <1>1, <1>2, CtlGoto DEF TInv, Unstored

\* p goes on, and no payload moves.
LEMMA StillKeeps ==
  ASSUME TInv, NEW p \in Proc, NEW to \in PcState \ (Holding \cup {"idle"}), Goto(p, to),
         pc[p] \notin Holding, pc[p] # "idle" \/ \A d \in Dtls : p # Write(d),
         to \in Unstored => pc[p] \in Unstored, UNCHANGED <<hold, queue, pool, jobs, kind>>
  PROVE  Mem' /\ Ctl'
<1>1. Mem' /\ Others(p)
  BY DEF TInv, Mem, MemTypes, MemKinds, Exclusive, Queued, Others
<1>2. CtlAt(p)'
  BY DEF CtlAt, Goto, TInv, Ctl, Holding
<1>3. QED BY <1>1, <1>2, CtlGoto DEF TInv

LEMMA SendStep ==
  ASSUME TInv, NEW p \in Proc, NEW c \in Channel, pc[p] \in Holding, Send(p, c),
         c # "in" => kind[hold[p]].ltype = "ip"
  PROVE  Mem' /\ Ctl'
<1>1. hold[p] # NULL
  BY DEF TInv, Ctl, CtlAt
<1>2. Mem' /\ Others(p) /\ hold'[p] = NULL
  BY <1>1, SendKeeps DEF Send, Drop, Keep, TInv
<1>3. CtlAt(p)'
  BY <1>2 DEF CtlAt, Send, Goto, TInv, Ctl, Holding
<1>4. QED BY <1>2, <1>3, CtlGoto DEF TInv, Send, Holding, PcState, Unstored

LEMMA ReceiveStep ==
  ASSUME TInv, NEW p \in Proc, NEW c \in Channel, Receive(p, c)
  PROVE  Mem' /\ Ctl'
<1>1. hold[p] = NULL /\ pc[p] = "take"
  BY DEF TInv, Ctl, CtlAt, Receive, Holding
<1>2. Mem' /\ Others(p) /\ hold'[p] \in Payload
  BY <1>1, ReceiveKeeps DEF Receive, Keep, TInv
<1>3. CtlAt(p)'
  BY <1>2, TunnelAssumption DEF CtlAt, Receive, Goto, TInv, Ctl, Holding
<1>4. QED BY <1>1, <1>2, <1>3, CtlGoto DEF TInv, Receive, PcState, Unstored

\* A payload from the pool, of a kind, for where p goes.
LEMMA GetStep ==
  ASSUME TInv, NEW p \in Proc, NEW k \in Kinds, Get(p, k), NEW to \in {"in", "outCstp", "outDtls"},
         Goto(p, to), pc[p] = "read", UNCHANGED <<queue, jobs>>,
         to # "in" => k.ltype = "ip" /\ (p = P("devRead") => k = Plain)
  PROVE  Mem' /\ Ctl'
<1>1. PICK b \in pool :
        /\ pool' = pool \ {b} /\ hold' = [hold EXCEPT ![p] = b]
        /\ kind' = [kind EXCEPT ![b] = CASE k = Plain -> kind[b]
                                         [] k = Dpd   -> [kind[b] EXCEPT !.ptype = "dpd"]
                                         [] k = Arp   -> [kind[b] EXCEPT !.ltype = "eth"]]
  BY DEF Get
<1>2. kind[b] = Plain
  BY DEF TInv, Mem, MemKinds
<1>3. [Plain EXCEPT !.ptype = "dpd"] = Dpd /\ [Plain EXCEPT !.ltype = "eth"] = Arp
      /\ Plain # Dpd /\ Plain # Arp /\ Dpd # Arp
  BY DEF Plain, Dpd, Arp
<1>4. kind' = [kind EXCEPT ![b] = k]
  BY <1>1, <1>2, <1>3 DEF Kinds
<1>5. Mem' /\ Others(p) /\ hold'[p] = b /\ kind'[b] = k
  <2>1. Mem /\ pool' = pool \ {b} /\ hold' = [hold EXCEPT ![p] = b]
    BY <1>1 DEF TInv
  <2>2. QED BY <1>4, <2>1, GetKeeps, Zenon
<1>6. b # NULL
  BY TunnelAssumption DEF TInv, Mem, MemTypes
<1>7. CtlAt(p)'
  BY <1>5, <1>6 DEF CtlAt, Goto, TInv, Ctl, Holding
<1>8. QED BY <1>5, <1>7, CtlGoto DEF TInv, PcState, Unstored

-----------------------------------------------------------------------------
(* The steps.                                                              *)

LEMMA NetQuit == ASSUME Net, NEW p \in Proc, Quit(p) PROVE Net'
BY DEF Net, Quit, Forget, Drop

LEMMA NetKeep == ASSUME Net, NEW p \in Proc, Keep, Drop(p) \/ via' = via PROVE Net'
BY DEF Net, Keep, Drop

LEMMA QuitKeeps ==
  ASSUME TInv, NEW p \in Proc, pc[p] # "idle", Quit(p)
  PROVE  TInv'
<1>1. PICK to \in {"close", "end"} : Goto(p, to)
  BY DEF Quit
<1>2. Forget(p) /\ UNCHANGED <<queue, jobs>>
  BY DEF Quit
<1>3. to \in PcState \ (Holding \cup Unstored)
  BY DEF PcState, Holding, Unstored
<1>4. Mem' /\ Ctl'
  BY <1>1, <1>2, <1>3, LeaveKeeps
<1>5. QED BY <1>4, NetQuit DEF TInv

LEMMA LeaveStep ==
  ASSUME TInv, NEW p \in Proc, pc[p] # "idle", NEW to \in {"read", "take", "close", "end"}, Leave(p, to)
  PROVE  TInv'
<1>1. to \in PcState \ (Holding \cup Unstored)
  BY DEF PcState, Holding, Unstored
<1>2. Forget(p) /\ Goto(p, to) /\ UNCHANGED <<queue, jobs>> /\ Keep /\ Drop(p)
  BY DEF Leave, Keep, Forget
<1>3. Mem' /\ Ctl'
  BY <1>1, <1>2, LeaveKeeps
<1>4. QED BY <1>2, <1>3, NetKeep DEF TInv

LEMMA SendTInv ==
  ASSUME TInv, NEW p \in Proc, NEW c \in Channel, pc[p] \in Holding, Send(p, c),
         c # "in" => kind[hold[p]].ltype = "ip"
  PROVE  TInv'
<1>1. Keep /\ Drop(p)
  BY DEF Send
<1>2. QED BY <1>1, SendStep, NetKeep DEF TInv

LEMMA ReceiveTInv ==
  ASSUME TInv, NEW p \in Proc, NEW c \in Channel, Receive(p, c)
  PROVE  TInv'
<1>1. Keep /\ via' = via
  BY DEF Receive
<1>2. QED BY <1>1, ReceiveStep, NetKeep DEF TInv

\* The sends of any goroutine.
LEMMA ChannelsStep ==
  ASSUME TInv, NEW p \in Proc, Channels(p)
  PROVE  TInv'
<1>1. CASE PayloadIn(p)
  BY <1>1, SendTInv, QuitKeeps DEF PayloadIn, Channel, Holding
<1>2. CASE PayloadOutCstp(p)
  <2>1. kind[hold[p]].ltype = "ip" /\ pc[p] = "outCstp"
    BY <1>2 DEF PayloadOutCstp, TInv, Ctl, CtlAt
  <2>2. QED BY <1>2, <2>1, SendTInv, QuitKeeps DEF PayloadOutCstp, Channel, Holding
<1>3. CASE PayloadOutDtls(p)
  <2>1. kind[hold[p]].ltype = "ip" /\ pc[p] = "outDtls"
    BY <1>3 DEF PayloadOutDtls, TInv, Ctl, CtlAt
  <2>2. QED BY <1>3, <2>1, SendTInv, LeaveStep DEF PayloadOutDtls, Channel, Holding
<1>4. QED BY <1>1, <1>2, <1>3 DEF Channels

\* The frames of the client.
LEMMA FrameStep ==
  ASSUME TInv, NEW p \in Proc, p # P("devRead"), NEW x, NEW out \in {"outCstp", "outDtls"},
         Frame(p, x, out)
  PROVE  TInv'
<1>0. pc[p] = "read" /\ UNCHANGED <<via, queue, jobs, closing, cur, active, sock, peer>>
  BY DEF Frame
<1>1. Net'
  BY <1>0 DEF TInv, Net
<1>2. CASE Get(p, Plain) /\ Goto(p, "in")
  BY <1>0, <1>1, <1>2, GetStep, KindsType DEF TInv
<1>3. CASE Get(p, Dpd) /\ Goto(p, out)
  BY <1>0, <1>1, <1>3, GetStep, KindsType DEF TInv, Kinds
<1>4. QED BY <1>2, <1>3 DEF Frame

\* cstpWrite and dtlsWrite.
LEMMA WriterStep ==
  ASSUME TInv, NEW p \in Proc, NEW c \in Channel, NEW ok \in BOOLEAN,
         Receive(p, c) \/ Written(p, ok) \/ WriteFails(p)
  PROVE  TInv'
<1>1. CASE Receive(p, c)
  BY <1>1, ReceiveTInv
<1>2. CASE Written(p, ok)
  <2>1. CASE Leave(p, "take")
    BY <1>2, <2>1, LeaveStep DEF Written
  <2>2. CASE ~Leave(p, "take")
    <3>1. /\ pc[p] = "write" /\ Put(hold[p]) /\ Drop(p) /\ Goto(p, "take")
          /\ UNCHANGED <<queue, jobs, closing, cur, active, sock, peer>>
      BY <1>2, <2>2, Zenon DEF Written
    <3>2. hold[p] # NULL
      BY <3>1 DEF TInv, Ctl, CtlAt, Holding
    <3>3. Forget(p)
      BY <3>1, <3>2, PutForget DEF TInv
    <3>4. Leave(p, "take")
      BY <3>1, <3>3 DEF Leave, Keep
    <3>5. QED BY <2>2, <3>4
  <2>3. QED BY <2>1, <2>2
<1>3. CASE WriteFails(p)
  BY <1>3, QuitKeeps DEF WriteFails
<1>4. QED BY <1>1, <1>2, <1>3

\* The reader and the writer of the device.
LEMMA DevStep ==
  ASSUME TInv, DevPacket \/ DevFails \/ DevWrite \/ DevNotices
  PROVE  TInv'
<1>0. P("devRead") \in Proc /\ P("devWrite") \in Proc
  BY ProcType DEF Main
<1>1. CASE DevPacket
  <2> DEFINE p == P("devRead")
  <2>0. pc[p] = "read" /\ UNCHANGED <<queue, jobs, closing, cur, active, sock, peer>>
    BY <1>1 DEF DevPacket
  <2>1. via' \in Dtls \cup {NULL}
    BY <1>1 DEF DevPacket, TInv, Net
  <2>2. Net'
    BY <2>0, <2>1 DEF TInv, Net
  <2>3. CASE Get(p, Plain) /\ \E to \in {"outDtls", "outCstp"} : Goto(p, to)
    BY <1>0, <2>0, <2>2, <2>3, GetStep, KindsType DEF TInv
  <2>4. CASE Get(p, Arp) /\ Goto(p, "in")
    BY <1>0, <2>0, <2>2, <2>4, GetStep DEF TInv, Kinds
  <2>5. QED BY <1>1, <2>3, <2>4 DEF DevPacket
<1>2. CASE DevFails
  BY <1>0, <1>2, QuitKeeps DEF DevFails
<1>3. CASE DevWrite
  <2> DEFINE p == P("devWrite")
  <2>1. CASE Receive(p, "in")
    BY <1>0, <2>1, ReceiveTInv DEF Channel
  <2>2. CASE /\ pc[p] = "write" /\ InBefore(p) /\ Drop(p) /\ Goto(p, "take")
             /\ UNCHANGED <<queue, closing, cur, active, sock, peer>>
    <3>1. hold[p] # NULL
      BY <1>0, <2>2 DEF TInv, Ctl, CtlAt, Holding
    <3>2. CASE Cardinality(jobs) < Jobs
      <4>1. jobs' = jobs \cup {hold[p]} /\ UNCHANGED <<pool, kind>>
        BY <2>2, <3>2 DEF InBefore
      <4>2. hold' = [hold EXCEPT ![p] = NULL] /\ queue' = queue
        BY <2>2 DEF Drop
      <4>3. Mem' /\ Others(p) /\ hold'[p] = NULL
        BY <1>0, <3>1, <4>1, <4>2, JobKeeps DEF TInv
      <4>4. CtlAt(p)'
        BY <1>0, <2>2, <4>3 DEF CtlAt, Goto, TInv, Ctl, Holding
      <4>5. Ctl'
        BY <1>0, <2>2, <4>3, <4>4, CtlGoto DEF TInv, PcState, Unstored
      <4>6. Net'
        BY <2>2 DEF TInv, Net, Drop
      <4>7. QED BY <4>3, <4>5, <4>6 DEF TInv
    <3>3. CASE ~(Cardinality(jobs) < Jobs)
      <4>1. Put(hold[p]) /\ UNCHANGED jobs
        BY <2>2, <3>3 DEF InBefore
      <4>2. Forget(p)
        BY <1>0, <2>2, <3>1, <4>1, PutForget DEF TInv
      <4>3. Leave(p, "take")
        BY <2>2, <4>1, <4>2 DEF Leave, Keep
      <4>4. QED BY <1>0, <2>2, <4>3, LeaveStep
    <3>4. QED BY <3>2, <3>3
  <2>3. CASE pc[p] = "write" /\ (Leave(p, "take") \/ Leave(p, "close"))
    BY <1>0, <2>3, LeaveStep
  <2>4. QED BY <1>3, <2>1, <2>2, <2>3 DEF DevWrite
<1>4. CASE DevNotices
  BY <1>0, <1>4, LeaveStep DEF DevNotices
<1>5. QED BY <1>1, <1>2, <1>3, <1>4

\* A DTLS connection finds its tunnel, is accepted, and becomes the current one.
LEMMA DtlsStep ==
  ASSUME TInv, NEW d \in Dtls, FindTunnel(d) \/ Accept(d) \/ StoreDtls(d)
  PROVE  TInv'
<1>0. Read(d) \in Proc /\ Write(d) \in Proc /\ Read(d) # Write(d)
      /\ \A e \in Dtls : Read(d) # Write(e) /\ (Write(d) = Write(e) => d = e)
  BY ProcType
<1>1. CASE FindTunnel(d) \/ Accept(d)
  <2>1. Net'
    BY <1>1 DEF FindTunnel, Accept, TInv, Net
  <2>2. PICK to \in {"accept", "end", "store"} : Goto(Read(d), to)
    BY <1>1 DEF FindTunnel, Accept
  <2>3. pc[Read(d)] \in {"idle", "accept"} /\ UNCHANGED <<hold, queue, pool, jobs, kind>>
    BY <1>1 DEF FindTunnel, Accept
  <2>4. to \in PcState \ (Holding \cup {"idle"})
    BY DEF PcState, Holding
  <2>5. Mem' /\ Ctl'
    BY <1>0, <2>2, <2>3, <2>4, StillKeeps DEF Holding, Unstored
  <2>6. QED BY <2>1, <2>5 DEF TInv
<1>2. CASE StoreDtls(d)
  <2>1. Net'
    BY <1>2 DEF StoreDtls, TInv, Net
  <2>2. /\ pc' = [pc EXCEPT ![Read(d)] = "read", ![Write(d)] = "take"]
        /\ pc[Read(d)] = "store" /\ pc[Write(d)] = "idle"
        /\ UNCHANGED <<hold, queue, pool, jobs, kind>>
    BY <1>2 DEF StoreDtls, TInv, Ctl, Unstored
  <2>3. Mem'
    BY <2>2 DEF TInv, Mem, MemTypes, MemKinds, Exclusive, Queued
  <2>4. pc' \in [Proc -> PcState] /\ pc'[Read(d)] = "read" /\ pc'[Write(d)] = "take"
        /\ \A q \in Proc \ {Read(d), Write(d)} : pc'[q] = pc[q]
    BY <1>0, <2>2 DEF TInv, Ctl, PcState
  <2>5. \A q \in Proc : CtlAt(q)'
    BY <1>0, <2>2, <2>4 DEF TInv, Ctl, CtlAt, Holding
  <2>6. ASSUME NEW e \in Dtls, pc'[Read(e)] \in Unstored PROVE pc'[Write(e)] = "idle"
    <3>1. Read(e) \in Proc /\ Write(e) \in Proc /\ Read(e) # Write(d)
      BY ProcType
    <3>2. Read(e) # Read(d)
      BY <2>4, <2>6 DEF Unstored
    <3>3. e # d
      BY <3>2
    <3>4. QED BY <1>0, <2>4, <2>6, <3>1, <3>2, <3>3 DEF TInv, Ctl
  <2>7. QED BY <2>1, <2>3, <2>4, <2>5, <2>6 DEF TInv, Ctl
<1>3. QED BY <1>1, <1>2

\* ConnSession.Close.
LEMMA CloseStep ==
  ASSUME TInv, NEW p \in Proc, Close(p) \/ CloseDtls(p) \/ CloseReturns(p)
  PROVE  TInv'
<1>1. Net'
  BY DEF Close, CloseDtls, CloseReturns, Returned, TInv, Net
<1>2. PICK to \in {"closing", "end"} : Goto(p, to)
  BY DEF Close, CloseDtls, CloseReturns, Returned
<1>3. /\ pc[p] \in {"close", "closing"} \/ (pc[p] = "idle" /\ p = P("closer"))
      /\ UNCHANGED <<hold, queue, pool, jobs, kind>>
  BY DEF Close, CloseDtls, CloseReturns, Returned
<1>4. to \in PcState \ (Holding \cup {"idle"}) /\ to \notin Unstored /\ pc[p] \notin Holding
  BY <1>3 DEF PcState, Holding, Unstored
<1>5. pc[p] # "idle" \/ \A d \in Dtls : p # Write(d)
  BY <1>3, ProcType DEF Main
<1>6. Mem' /\ Ctl'
  BY <1>2, <1>3, <1>4, <1>5, StillKeeps
<1>7. QED BY <1>1, <1>6 DEF TInv

LEMMA TInvInit == Init => TInv
<1> USE TunnelAssumption
<1> SUFFICES ASSUME Init PROVE TInv
  OBVIOUS
<1>1. MemTypes
  BY KindsType DEF Init, MemTypes
<1>2. \A c \in Channel : Queued(c) = {}
  BY DEF Init, Queued, Range
<1>3. MemKinds
  BY <1>2 DEF Init, MemKinds, Channel
<1>4. Exclusive
  BY <1>2 DEF Init, Exclusive
<1>5. pc \in [Proc -> PcState] /\ \A p \in Proc : pc[p] \in {"read", "take", "idle"}
  BY DEF Init, PcState
<1>6. \A p \in Proc : CtlAt(p)
  BY <1>5 DEF Init, CtlAt, Holding
<1>7. \A d \in Dtls : pc[Write(d)] = "idle"
  BY ProcType DEF Init, Write
<1>8. Net
  BY DEF Init, Net
<1>9. QED BY <1>1, <1>3, <1>4, <1>5, <1>6, <1>7, <1>8 DEF TInv, Mem, Ctl

LEMMA TInvStep == ASSUME TInv, [Next]_vars PROVE TInv'
<1>0. /\ P("reader") \in Proc /\ P("writer") \in Proc
      /\ P("reader") # P("devRead")
      /\ \A d \in Dtls : Read(d) \in Proc /\ Write(d) \in Proc /\ Read(d) # P("devRead")
  BY ProcType DEF Main, P
<1>1. ASSUME NEW p \in Proc, PayloadIn(p) \/ PayloadOutCstp(p) \/ PayloadOutDtls(p) PROVE TInv'
  BY <1>1, ChannelsStep DEF Channels
<1>2. CASE CstpFrame
  BY <1>0, <1>2, FrameStep DEF CstpFrame
<1>3. CASE Disconnect
  BY <1>0, <1>3, LeaveStep DEF Disconnect
<1>4. CASE CstpFails
  BY <1>0, <1>4, QuitKeeps DEF CstpFails
<1>5. CASE CstpWrite
  <2>1. ("conn" \in sock /\ peer = "up") \in BOOLEAN
    OBVIOUS
  <2>2. QED BY <1>0, <1>5, <2>1, WriterStep DEF CstpWrite, Channel
<1>6. CASE CstpNotices
  BY <1>0, <1>6, QuitKeeps DEF CstpNotices
<1>7. ASSUME NEW d \in Dtls, FindTunnel(d) \/ Accept(d) \/ StoreDtls(d) PROVE TInv'
  BY <1>7, DtlsStep
<1>8. ASSUME NEW d \in Dtls, DtlsFrame(d) PROVE TInv'
  BY <1>0, <1>8, FrameStep DEF DtlsFrame
<1>9. ASSUME NEW d \in Dtls, DtlsEnds(d) \/ DtlsNotices(d) PROVE TInv'
  BY <1>0, <1>9, QuitKeeps DEF DtlsEnds, DtlsNotices
<1>10. ASSUME NEW d \in Dtls, DtlsWrite(d) PROVE TInv'
  <2>1. (d \in sock) \in BOOLEAN
    OBVIOUS
  <2>2. QED BY <1>0, <1>10, <2>1, WriterStep DEF DtlsWrite, Channel
<1>11. CASE DevPacket \/ DevFails \/ DevWrite \/ DevNotices
  BY <1>11, DevStep
<1>12. ASSUME NEW b \in Payload, Audited(b) PROVE TInv'
  <2>1. /\ b \in jobs /\ jobs' = jobs \ {b} /\ Put(b) /\ UNCHANGED <<queue, hold, pc>>
        /\ UNCHANGED <<via, closing, cur, active, sock, peer>>
    BY <1>12 DEF Audited
  <2>2. Mem' /\ \A q \in Proc : hold'[q] = hold[q] /\ (hold[q] # NULL => kind'[hold[q]] = kind[hold[q]])
    BY <2>1, AuditedKeeps DEF TInv
  <2>3. Ctl'
    BY <2>1, <2>2 DEF TInv, Ctl, CtlAt, Holding
  <2>4. QED BY <2>1, <2>2, <2>3 DEF TInv, Net
<1>13. ASSUME NEW p \in Proc, Close(p) \/ CloseDtls(p) \/ CloseReturns(p) PROVE TInv'
  BY <1>13, CloseStep
<1>14. CASE PeerGone
  BY <1>14 DEF PeerGone, TInv, Mem, MemTypes, MemKinds, Exclusive, Queued, Ctl, CtlAt, Net
<1>15. CASE UNCHANGED vars
  BY <1>15 DEF vars, TInv, Mem, MemTypes, MemKinds, Exclusive, Queued, Ctl, CtlAt, Net
<1>16. QED
  BY <1>1, <1>2, <1>3, <1>4, <1>5, <1>6, <1>7, <1>8, <1>9, <1>10, <1>11, <1>12, <1>13, <1>14, <1>15
     DEF Next

\* The variables keep their types, and no channel holds more than its capacity
\* (payload.go).
THEOREM TypeCorrect == Spec => []TypeOK
<1>1. TInv /\ [Next]_vars => TInv'
  BY TInvStep
<1>2. TInv => TypeOK
  BY TypeSplit DEF TInv, Mem, Ctl
<1>3. QED BY TInvInit, <1>1, <1>2, PTL DEF Spec

\* No payload is in two places: a goroutine has the buffer it reads into or writes out
\* for itself, from getPayload to putPayload (pool.go).
THEOREM AlwaysExclusive == Spec => []Exclusive
<1>1. TInv /\ [Next]_vars => TInv'
  BY TInvStep
<1>2. TInv => Exclusive
  BY DEF TInv, Mem
<1>3. QED BY TInvInit, <1>1, <1>2, PTL DEF Spec

\* A payload that was a DPD request or an ARP answer before goes out as data when the
\* device has filled it: putPayload resets it, and it is put in the pool nowhere else.
THEOREM KindsAlwaysKept == Spec => []KindsKept
<1>1. TInv /\ [Next]_vars => TInv'
  BY TInvStep
<1>2. TInv => KindsKept
  <2>1. P("devRead") \in Proc
    BY ProcType DEF Main
  <2>2. QED BY <2>1 DEF TInv, Mem, MemKinds, Ctl, CtlAt, KindsKept
<1>3. QED BY TInvInit, <1>1, <1>2, PTL DEF Spec
=============================================================================
