-------------------------------- MODULE Audit --------------------------------
(***************************************************************************)
(* The access audit (handler/payload_access_audit.go).  The workers of     *)
(* auditPayload.Pool turn packets into records, one for each key and       *)
(* AuditInterval, with the help of IpAuditMap; a single goroutine collects *)
(* the records from LogChan and writes them in batches.                    *)
(*                                                                         *)
(* A key is built in a buffer of byte51Pool and goes to the map without a  *)
(* copy (utils.BytesToString): what the map holds as a key is that buffer, *)
(* whatever it contains.                                                   *)
(***************************************************************************)
EXTENDS Integers, Sequences, FiniteSets

CONSTANTS
  Worker,    \* workers of the pool (10)
  Dest,      \* connections: a client's address, a server's address and a port
  Buf,       \* buffers of 51 bytes
  Interval,  \* base.Cfg.AuditInterval
  Cap,       \* capacity of LogChan (10240)
  Limit,     \* records in a batch (100)
  MaxTime,   \* bound of the clock
  MaxMade,   \* bound of the number of records
  NULL

\* A key is of a connection, or of the host name its hello asks for.
Key == Dest \X {"conn", "host"}

ASSUME AuditAssumption ==
  /\ Interval \in Nat /\ Cap \in Nat \ {0} /\ Limit \in Nat \ {0} /\ MaxTime \in Nat
  /\ MaxMade \in Nat /\ IsFiniteSet(Worker) /\ NULL \notin Buf /\ NULL \notin Key

VARIABLES
  now,      \* the clock, in seconds
  pc,       \* where a worker is
  job,      \* its packet's key, the time it read, and its buffer
  pool,     \* byte51Pool
  entry,    \* IpAuditMap: a key's time and buffer
  logChan,  \* logBatch.LogChan
  logs,     \* logBatch.Logs
  timer,    \* outTime: whether it runs, and whether outTime.C holds a tick
  made,     \* history: a key's records whose time is of the interval that starts at t
  total,    \* history: their number
  gone      \* history: the records written, or dropped at a full LogChan

vars == <<now, pc, job, pool, entry, logChan, logs, timer, made, total, gone>>

NoEntry == [at |-> -1, buf |-> NULL]
NoJob   == [key |-> NULL, at |-> 0, buf |-> NULL]

Init ==
  /\ now = 0
  /\ pc = [w \in Worker |-> "idle"]
  /\ job = [w \in Worker |-> NoJob]
  /\ pool = Buf
  /\ entry = [k \in Key |-> NoEntry]
  /\ logChan = <<>> /\ logs = <<>>
  /\ timer = [runs |-> TRUE, tick |-> FALSE]
  /\ made = [k \in Key |-> [t \in 0 .. MaxTime |-> 0]]
  /\ total = 0 /\ gone = 0

batch   == <<logChan, logs, timer>>
history == <<made, total, gone>>

Tick ==
  /\ now < MaxTime
  /\ now' = now + 1
  /\ UNCHANGED <<pc, job, pool, entry, batch, history>>

-----------------------------------------------------------------------------
(* logAudit.  Packets that are no record's leave no trace.                 *)

\* A worker takes a packet, reads the clock, gets a buffer and builds the key.
Take(w, k) ==
  /\ pc[w] = "idle"
  /\ \E b \in pool : /\ pool' = pool \ {b}
                     /\ job' = [job EXCEPT ![w] = [key |-> k, at |-> now, buf |-> b]]
  /\ pc' = [pc EXCEPT ![w] = IF k[2] = "host" THEN "setConn" ELSE "lookup"]
  /\ UNCHANGED <<now, entry, batch, history>>

\* The map takes key k with its buffer; the one it had for it is garbage.  As a new
\* buffer replaces it in the pool it counts as one of those.
Store(k, t, b) ==
  /\ entry' = [entry EXCEPT ![k] = [at |-> t, buf |-> b]]
  /\ pool' = (pool \cup {entry[k].buf}) \ {NULL}

\* The hello of HTTP or TLS: the connection's own key is set, in a buffer that is not
\* of the pool, so that it is not recorded too.
SetConn(w) ==
  /\ pc[w] = "setConn"
  /\ Store(<<job[w].key[1], "conn">>, job[w].at, NULL)
  /\ pc' = [pc EXCEPT ![w] = "lookup"]
  /\ UNCHANGED <<now, job, batch, history>>

\* Mutated: the interval ends a second early.
FreshEarly(w) == LET e == entry[job[w].key] IN e # NoEntry /\ job[w].at - e.at < Interval - 1

Fresh(w) == LET e == entry[job[w].key] IN e # NoEntry /\ job[w].at - e.at < Interval

Done(w) == pc' = [pc EXCEPT ![w] = "idle"] /\ job' = [job EXCEPT ![w] = NoJob]

\* A key set in the interval before is not recorded: the buffer goes back.
Known(w) ==
  /\ pc[w] = "lookup" /\ Fresh(w)
  /\ pool' = pool \cup {job[w].buf}
  /\ Done(w)
  /\ UNCHANGED <<now, entry, batch, history>>

Unknown(w) ==
  /\ pc[w] = "lookup" /\ ~Fresh(w)
  /\ pc' = [pc EXCEPT ![w] = "set"]
  /\ UNCHANGED <<now, job, pool, entry, batch, history>>

\* A record is made.
Made(w) ==
  /\ total < MaxMade /\ total' = total + 1
  /\ made' = [made EXCEPT ![job[w].key] = [t \in 0 .. MaxTime |->
       IF t <= job[w].at /\ job[w].at < t + Interval THEN @[t] + 1 ELSE @[t]]]

\* Mutated: the buffer goes back here too.
SetKeyPuts(w) ==
  /\ pc[w] = "set"
  /\ entry' = [entry EXCEPT ![job[w].key] = [at |-> job[w].at, buf |-> job[w].buf]]
  /\ pool' = pool \cup {job[w].buf}
  /\ job' = [job EXCEPT ![w].buf = NULL]
  /\ Made(w)
  /\ pc' = [pc EXCEPT ![w] = "queue"]
  /\ UNCHANGED <<now, batch, gone>>

\* The worker's buffer is now the map's.
SetKey(w) ==
  /\ pc[w] = "set"
  /\ Store(job[w].key, job[w].at, job[w].buf)
  /\ job' = [job EXCEPT ![w].buf = NULL]
  /\ Made(w)
  /\ pc' = [pc EXCEPT ![w] = "queue"]
  /\ UNCHANGED <<now, batch, gone>>

\* The record goes to LogChan, or nowhere if that is full.
Queue(w) ==
  /\ pc[w] = "queue"
  /\ IF Len(logChan) < Cap THEN logChan' = Append(logChan, job[w].key) /\ UNCHANGED gone
                           ELSE gone' = gone + 1 /\ UNCHANGED logChan
  /\ Done(w)
  /\ UNCHANGED <<now, pool, entry, logs, timer, made, total>>

-----------------------------------------------------------------------------
(* logAuditBatch.                                                          *)

worker == <<pc, job, pool, entry>>

TimerFires ==
  /\ timer.runs
  /\ timer' = [runs |-> FALSE, tick |-> TRUE]
  /\ UNCHANGED <<now, worker, logChan, logs, history>>

\* Mutated: the timer is not started again.
ResetNot(tick) == timer' = [timer EXCEPT !.tick = tick]

\* The loop goes on: the timer starts again; a tick that was not read stays.
Reset(tick) == timer' = [runs |-> TRUE, tick |-> tick]

\* Mutated: the batch is given up.
WriteNothing(b) == (UNCHANGED gone) /\ logs' = <<>>

\* LogBatch.Write: the batch is gone even if the database refuses it.
Write(b) == gone' = gone + Len(b) /\ logs' = <<>>

\* Mutated: the limit itself is not full.
FullOffByOne(b) == Len(b) > Limit

Full(b) == Len(b) >= Limit

\* A record joins the batch.  Before a full one is written the timer is stopped; if it
\* had fired its tick is read.
Collect ==
  LET b == Append(logs, Head(logChan)) IN
  /\ logChan # <<>>
  /\ logChan' = Tail(logChan)
  /\ IF Full(b)
     THEN /\ timer.runs \/ timer.tick
          /\ Reset(timer.runs /\ timer.tick)
          /\ Write(b)
     ELSE Reset(timer.tick) /\ logs' = b /\ UNCHANGED gone
  /\ UNCHANGED <<now, worker, made, total>>

Timeout ==
  /\ timer.tick
  /\ Reset(FALSE)
  /\ Write(logs)
  /\ UNCHANGED <<now, worker, logChan, made, total>>

Next ==
  \/ Tick \/ TimerFires \/ Collect \/ Timeout
  \/ \E w \in Worker : \/ \E k \in Key : Take(w, k)
                       \/ SetConn(w) \/ Known(w) \/ Unknown(w) \/ SetKey(w) \/ Queue(w)

Spec == Init /\ [][Next]_vars

\* The goroutine runs, its timer fires, and a select does not pass over a tick
\* for ever.
FairSpec == Spec /\ WF_vars(TimerFires) /\ WF_vars(Collect) /\ SF_vars(Timeout)
-----------------------------------------------------------------------------
(* Properties.                                                             *)

\* Types, and the bounds of the channel and of a batch.
TypeOK ==
  /\ now \in Nat
  /\ pc \in [Worker -> {"idle", "setConn", "lookup", "set", "queue"}]
  /\ job \in [Worker -> [key : Key \cup {NULL}, at : Nat, buf : Buf \cup {NULL}]]
  /\ pool \subseteq Buf
  /\ entry \in [Key -> [at : Nat \cup {-1}, buf : Buf \cup {NULL}]]
  /\ logChan \in Seq(Key) /\ Len(logChan) <= Cap
  /\ logs \in Seq(Key) /\ Len(logs) < Limit
  /\ timer \in [runs : BOOLEAN, tick : BOOLEAN]
  /\ made \in [Key -> [0 .. MaxTime -> Nat]] /\ total \in Nat /\ gone \in Nat

\* The buffer of a key in the map is nobody else's, neither a worker's nor the pool's
\* nor another key's: a key is not rewritten behind the map's back.
KeysIntact ==
  \A k \in Key : entry[k].buf # NULL =>
    /\ entry[k].buf \notin pool
    /\ \A w \in Worker : job[w].buf # entry[k].buf
    /\ \A j \in Key \ {k} : entry[j].buf # entry[k].buf

\* A record that was made is with its worker, in LogChan, in the batch or written,
\* or LogChan was full: none is lost on the way or written twice.
Conserved ==
  total = Cardinality({w \in Worker : pc[w] = "queue"}) + Len(logChan) + Len(logs) + gone

\* doc/question.md: the same log is recorded only once in an interval.  It is not:
\* workers that look a key up at the same time all record it.
RecordedOnce == \A k \in Key, t \in 0 .. MaxTime : made[k][t] <= 1

\* The bound that the map does keep.  Workers that look a key up at the same time all
\* record it, and an old time may replace a newer one, but each worker does so once:
\* the records of an interval are bounded by the number of workers, whatever the load.
RecordsBounded ==
  LET n == Cardinality(Worker) IN
  \A k \in Key, t \in 0 .. MaxTime : made[k][t] <= (n * (n + 1)) \div 2

\* The timer runs or its tick waits to be read: a full batch never waits for a tick
\* that does not come, and one that is not full is not kept for ever.
TimerReady == timer.runs \/ timer.tick

\* A batch is written sooner or later, though every record restarts the timer.
Written == (logs # <<>>) ~> (logs = <<>>)
=============================================================================
