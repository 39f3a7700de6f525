------------------------------- MODULE Tunnel -------------------------------
(***************************************************************************)
(* A running tunnel: LinkCstp and cstpWrite (handler/link_cstp.go), the    *)
(* reader and the writer of its device (link_tun.go, link_tap.go),         *)
(* LinkDtls and dtlsWrite of each DTLS connection (link_dtls.go), the      *)
(* workers of the audit pool, and whoever calls ConnSession.Close.  They   *)
(* pass payloads through the bounded channels of the ConnSession           *)
(* (payload.go), and a payload's buffer goes back to plPool for the next   *)
(* reader (pool.go).                                                       *)
(*                                                                         *)
(* One channel operation, one read or one write is one action.  A payload  *)
(* that nobody refers to any more is garbage; as the pool replaces it by a *)
(* new one it counts as one of the pool, with the type of a new one.       *)
(***************************************************************************)
EXTENDS Integers, Sequences, FiniteSets

CONSTANTS
  Dtls,       \* DTLS connections
  Payload,    \* payload buffers; no more are in use at a time
  Cap,        \* capacity of the channels (64)
  Jobs,       \* capacity of the audit pool's queue; 0 when AuditInterval < 0
  Tap,        \* whether the device is a tap: it also answers ARP requests
  NULL

ASSUME TunnelAssumption ==
  /\ Cap \in Nat \ {0} /\ Jobs \in Nat /\ Tap \in BOOLEAN
  /\ NULL \notin Dtls \cup Payload

\* The goroutines; "closer" stands for CloseSess, CloseCSess and NewConn.
Main == {"reader", "writer", "devRead", "devWrite", "closer"}
Proc == (Main \X {NULL}) \cup ({"dtlsRead", "dtlsWrite"} \X Dtls)
P(name)   == <<name, NULL>>
Read(d)   == <<"dtlsRead", d>>
Write(d)  == <<"dtlsWrite", d>>

VARIABLES
  pc,        \* where a goroutine is
  hold,      \* the payload it works on
  via,       \* the DtlsSession payloadOut has chosen
  queue,     \* PayloadIn, PayloadOutCstp and PayloadOutDtls
  pool,      \* plPool
  kind,      \* a payload's LType and PType
  jobs,      \* payloads of auditPayload.Pool.JobQueue
  closing,   \* ConnSession.Close: "open", "begun" (CloseChan closed), "done"
  cur,       \* ConnSession.dSess
  active,    \* DtlsSession: "none", "active", "closed"
  sock,      \* the connections and the device that are open
  peer       \* whether the client is reachable

vars == <<pc, hold, via, queue, pool, kind, jobs, closing, cur, active, sock, peer>>

Channel == {"in", "cstp", "dtls"}
Plain   == [ltype |-> "ip", ptype |-> "data"]
Dpd     == [ltype |-> "ip", ptype |-> "dpd"]
Arp     == [ltype |-> "eth", ptype |-> "data"]

Closed == closing # "open"
Range(s)  == {s[i] : i \in DOMAIN s}

Goto(p, to)   == pc' = [pc EXCEPT ![p] = to]
Drop(p)       == /\ hold' = [hold EXCEPT ![p] = NULL]
                 /\ via' = IF p = P("devRead") THEN NULL ELSE via
Forget(p)     == /\ Drop(p)
                 /\ pool' = (pool \cup {hold[p]}) \ {NULL}
                 /\ kind' = [b \in Payload |-> IF b = hold[p] THEN Plain ELSE kind[b]]
Keep          == UNCHANGED <<jobs, closing, cur, active, sock, peer>>
-----------------------------------------------------------------------------
Init ==
  /\ pc = [p \in Proc |-> CASE p[1] \in {"reader", "devRead"} -> "read"
                            [] p[1] \in {"writer", "devWrite"} -> "take"
                            [] OTHER -> "idle"]
  /\ hold = [p \in Proc |-> NULL]
  /\ via = NULL
  /\ queue = [c \in Channel |-> <<>>]
  /\ pool = Payload /\ jobs = {}
  /\ kind = [b \in Payload |-> Plain]
  /\ closing = "open"
  /\ cur = NULL
  /\ active = [d \in Dtls |-> "none"]
  /\ sock = {"conn", "dev"}
  /\ peer = "up"

-----------------------------------------------------------------------------
(* Payloads and channels.                                                  *)

\* getPayload.  The code sets the type of a payload only if it is to be other than
\* Plain.
Get(p, k) ==
  \E b \in pool :
    /\ pool' = pool \ {b}
    /\ hold' = [hold EXCEPT ![p] = b]
    /\ kind' = [kind EXCEPT ![b] = CASE k = Plain -> kind[b]
                                     [] k = Dpd   -> [kind[b] EXCEPT !.ptype = "dpd"]
                                     [] k = Arp   -> [kind[b] EXCEPT !.ltype = "eth"]]

\* Mutated: the type of the payload is not reset.
PutUnreset(b) == pool' = pool \cup {b} /\ UNCHANGED kind

\* putPayload resets the payload and gives it to the pool.
Put(b) == pool' = pool \cup {b} /\ kind' = [kind EXCEPT ![b] = Plain]

\* Mutated: the channel is not bounded.
SendUnbounded(p, c) ==
  /\ queue' = [queue EXCEPT ![c] = Append(@, hold[p])]
  /\ Drop(p)
  /\ Goto(p, "read")
  /\ UNCHANGED <<pool, kind>>
  /\ Keep

\* A send waits while the channel is full.
Send(p, c) ==
  /\ Len(queue[c]) < Cap
  /\ queue' = [queue EXCEPT ![c] = Append(@, hold[p])]
  /\ Drop(p)
  /\ Goto(p, "read")
  /\ UNCHANGED <<pool, kind>>
  /\ Keep

Receive(p, c) ==
  /\ pc[p] = "take" /\ queue[c] # <<>>
  /\ hold' = [hold EXCEPT ![p] = Head(queue[c])]
  /\ queue' = [queue EXCEPT ![c] = Tail(@)]
  /\ Goto(p, "write")
  /\ UNCHANGED <<via, pool, kind>>
  /\ Keep

Own(p) == IF p[2] # NULL THEN {p[2]} ELSE IF p[1] \in {"devRead", "devWrite"} THEN {"dev"}
          ELSE {"conn"}

\* p returns and its deferred calls follow: a DTLS goroutine closes its connection
\* and its DtlsSession, the device's reader the device, LinkCstp and cstpWrite the
\* connection and then the tunnel.
Quit(p) ==
  /\ Forget(p) /\ Goto(p, IF p[1] \in {"reader", "writer"} THEN "close" ELSE "end")
  /\ sock' = sock \ Own(p)
  /\ active' = IF p[2] # NULL THEN [active EXCEPT ![p[2]] = "closed"] ELSE active
  /\ UNCHANGED <<queue, jobs, closing, cur, peer>>

\* p goes on without the payload it had.
Leave(p, to) ==
  /\ Forget(p)
  /\ Goto(p, to)
  /\ UNCHANGED queue
  /\ Keep

\* payloadIn.  What the ACL rejects is dropped before, which changes nothing.
PayloadIn(p) ==
  /\ pc[p] = "in"
  /\ Send(p, "in") \/ (Closed /\ Quit(p))

\* payloadOutCstp.
PayloadOutCstp(p) ==
  /\ pc[p] = "outCstp"
  /\ Send(p, "cstp") \/ (Closed /\ Quit(p))

Via(p) == IF p = P("devRead") THEN via ELSE p[2]

\* Mutated: the send does not watch DtlsSession.CloseChan.
PayloadOutDtlsWaits(p) == pc[p] = "outDtls" /\ Send(p, "dtls")

\* payloadOutDtls: false even if the tunnel is closed.
PayloadOutDtls(p) ==
  /\ pc[p] = "outDtls"
  /\ Send(p, "dtls") \/ (active[Via(p)] = "closed" /\ Leave(p, "read"))

-----------------------------------------------------------------------------
(* LinkCstp and LinkDtls: what the client sends.                           *)

\* A frame with data, or a DPD request, which is answered with its own payload.
Frame(p, s, out) ==
  /\ pc[p] = "read"
  /\ s \in sock /\ peer = "up"
  /\ \/ Get(p, Plain) /\ Goto(p, "in")
     \/ Get(p, Dpd) /\ Goto(p, out)
  /\ UNCHANGED <<via, queue, jobs, closing, cur, active, sock, peer>>

CstpFrame == Frame(P("reader"), "conn", "outCstp")

\* DISCONNECT, or a KEEPALIVE of an idle client: CloseSess comes first.
Disconnect == pc[P("reader")] = "read" /\ peer = "up" /\ Leave(P("reader"), "close")

\* The read fails, with the connection or after CstpDpd + 5 seconds of silence.
CstpFails ==
  /\ pc[P("reader")] = "read"
  /\ "conn" \notin sock \/ peer = "gone"
  /\ Quit(P("reader"))

DtlsFrame(d) == Frame(Read(d), d, "outDtls")

\* DISCONNECT, or a read that fails.
DtlsEnds(d) == pc[Read(d)] = "read" /\ Quit(Read(d))

IsActive(d) == d # NULL /\ active[d] = "active"

\* startDtls finds the tunnel of a DTLS connection: Close has not reached
\* Session.CSess yet.
FindTunnel(d) ==
  /\ pc[Read(d)] = "idle"
  /\ closing = "open" /\ peer = "up"
  /\ Goto(Read(d), "accept")
  /\ sock' = sock \cup {d}
  /\ UNCHANGED <<hold, via, queue, pool, kind, jobs, closing, cur, active, peer>>

\* NewDtlsConn: if the current DTLS session is active LinkDtls closes the new
\* connection ...
Accept(d) ==
  /\ pc[Read(d)] = "accept"
  /\ IF IsActive(cur) THEN Goto(Read(d), "end") /\ sock' = sock \ {d}
                      ELSE Goto(Read(d), "store") /\ UNCHANGED sock
  /\ UNCHANGED <<hold, via, queue, pool, kind, jobs, closing, cur, active, peer>>

\* ... else it becomes the current one, whatever has happened in between.
StoreDtls(d) ==
  /\ pc[Read(d)] = "store"
  /\ cur' = d
  /\ active' = [active EXCEPT ![d] = "active"]
  /\ pc' = [pc EXCEPT ![Read(d)] = "read", ![Write(d)] = "take"]
  /\ UNCHANGED <<hold, via, queue, pool, kind, jobs, closing, sock, peer>>

-----------------------------------------------------------------------------
(* cstpWrite and dtlsWrite.                                                *)

\* A payload of layer 2 is passed over; a written one goes to the pool.
Written(p, ok) ==
  /\ pc[p] = "write"
  /\ \/ /\ kind[hold[p]].ltype # "ip"
        /\ Leave(p, "take")
     \/ /\ kind[hold[p]].ltype = "ip" /\ ok
        /\ Put(hold[p])
        /\ Drop(p) /\ Goto(p, "take")
        /\ UNCHANGED <<queue, jobs, closing, cur, active, sock, peer>>

WriteFails(p) == pc[p] = "write" /\ kind[hold[p]].ltype = "ip" /\ Quit(p)

CstpWrite ==
  \/ Receive(P("writer"), "cstp")
  \/ Written(P("writer"), "conn" \in sock /\ peer = "up")
  \/ ("conn" \notin sock \/ peer = "gone") /\ WriteFails(P("writer"))

DtlsWrite(d) ==
  \/ Receive(Write(d), "dtls")
  \/ Written(Write(d), d \in sock)
  \/ d \notin sock /\ WriteFails(Write(d))

\* The select of a writer that waits: CloseChan is closed.
CstpNotices    == pc[P("writer")] = "take" /\ Closed /\ Quit(P("writer"))
DtlsNotices(d) == pc[Write(d)] = "take" /\ active[d] = "closed" /\ Quit(Write(d))

-----------------------------------------------------------------------------
(* tunRead, tunWrite, allTapRead, allTapWrite.                             *)

\* A packet for the client: payloadOut asks GetDtlsSession which way it goes.  On a
\* tap also an ARP request for the client's address, whose answer goes back through
\* PayloadIn.
DevPacket ==
  LET p == P("devRead") IN
  /\ pc[p] = "read" /\ "dev" \in sock
  /\ \/ /\ Get(p, Plain)
        /\ via' = IF IsActive(cur) THEN cur ELSE NULL
        /\ Goto(p, IF IsActive(cur) THEN "outDtls" ELSE "outCstp")
     \/ Tap /\ Get(p, Arp) /\ Goto(p, "in") /\ UNCHANGED via
  /\ UNCHANGED <<queue, jobs, closing, cur, active, sock, peer>>

\* The read fails: only the device is closed.
DevFails == pc[P("devRead")] = "read" /\ Quit(P("devRead"))

\* Mutated: the payload goes to the audit and to the pool.
InBeforeBoth(p) ==
  /\ jobs' = IF Cardinality(jobs) < Jobs THEN jobs \cup {hold[p]} ELSE jobs
  /\ Put(hold[p])

\* putPayloadInBefore: to the audit, or to the pool if that is off or full.
InBefore(p) ==
  IF Cardinality(jobs) < Jobs THEN jobs' = jobs \cup {hold[p]} /\ UNCHANGED <<pool, kind>>
                              ELSE Put(hold[p]) /\ UNCHANGED jobs

\* A tap drops IPv6 and packets from another address than the client's.  A write may
\* fail whether the device is open or not.
DevWrite ==
  LET p == P("devWrite") IN
  \/ Receive(p, "in")
  \/ /\ pc[p] = "write" /\ "dev" \in sock
     /\ InBefore(p)
     /\ Drop(p) /\ Goto(p, "take")
     /\ UNCHANGED <<queue, closing, cur, active, sock, peer>>
  \/ Tap /\ pc[p] = "write" /\ kind[hold[p]].ltype = "ip" /\ Leave(p, "take")
  \/ pc[p] = "write" /\ Leave(p, "close")

DevNotices == pc[P("devWrite")] = "take" /\ Closed /\ Leave(P("devWrite"), "close")

\* A worker of the audit is done with a payload (logAudit).
Audited(b) ==
  /\ b \in jobs
  /\ jobs' = jobs \ {b}
  /\ Put(b)
  /\ UNCHANGED <<pc, hold, via, queue, closing, cur, active, sock, peer>>

-----------------------------------------------------------------------------
(* ConnSession.Close.                                                      *)

\* closeOnce: the first caller closes CloseChan ...
Close(p) ==
  /\ pc[p] = "close" \/ (p = P("closer") /\ pc[p] = "idle")
  /\ closing = "open"
  /\ closing' = "begun"
  /\ Goto(p, "closing")
  /\ UNCHANGED <<hold, via, queue, pool, kind, jobs, cur, active, sock, peer>>

\* Once Close has returned p closes its own connection or device.
Returned(p) ==
  /\ Goto(p, "end")
  /\ sock' = IF p = P("closer") THEN sock ELSE sock \ Own(p)
  /\ UNCHANGED <<hold, via, queue, pool, kind, jobs, cur, peer>>

\* ... and the DTLS session it finds; the others wait for it.
CloseDtls(p) ==
  /\ pc[p] = "closing"
  /\ closing' = "done"
  /\ active' = IF IsActive(cur) THEN [active EXCEPT ![cur] = "closed"] ELSE active
  /\ Returned(p)

CloseReturns(p) ==
  /\ pc[p] = "close" /\ closing = "done"
  /\ Returned(p)
  /\ UNCHANGED <<closing, active>>

\* The client or the network between goes away.
PeerGone ==
  /\ peer = "up"
  /\ peer' = "gone"
  /\ UNCHANGED <<pc, hold, via, queue, pool, kind, jobs, closing, cur, active, sock>>

Next ==
  \/ \E p \in Proc : PayloadIn(p) \/ PayloadOutCstp(p) \/ PayloadOutDtls(p)
  \/ CstpFrame \/ Disconnect \/ CstpFails \/ CstpWrite \/ CstpNotices
  \/ \E d \in Dtls : \/ FindTunnel(d) \/ Accept(d) \/ StoreDtls(d) \/ DtlsFrame(d)
                     \/ DtlsEnds(d) \/ DtlsWrite(d) \/ DtlsNotices(d)
  \/ DevPacket \/ DevFails \/ DevWrite \/ DevNotices
  \/ \E b \in Payload : Audited(b)
  \/ \E p \in Proc : Close(p) \/ CloseDtls(p) \/ CloseReturns(p)
  \/ PeerGone

Spec == Init /\ [][Next]_vars

(***************************************************************************)
(* Goroutines keep running, and a channel serves those that wait for it in *)
(* turn: on a tap LinkCstp does not wait for ever behind answers to ARP    *)
(* requests.  A select picks among its ready cases at random, so it does   *)
(* not pass over a closed channel forever.  A write ends, or fails when    *)
(* the connection is closed or TCP gives the client up; a client whose TLS *)
(* connection has been closed gives up DTLS.  A goroutine ends once, so    *)
(* one condition on all that ends them (Ends) says of each that it is not  *)
(* put off forever.                                                        *)
(***************************************************************************)
Channels(p) == PayloadIn(p) \/ PayloadOutCstp(p) \/ PayloadOutDtls(p)
LinkDtls(d) == Channels(Read(d)) \/ Accept(d) \/ StoreDtls(d)
Notices     == CstpNotices \/ DevNotices \/ \E d \in Dtls : DtlsNotices(d)
ReadFails   == CstpFails \/ ("dev" \notin sock /\ DevFails)
DtlsGivenUp == \E d \in Dtls : /\ d \notin sock \/ "conn" \notin sock \/ peer = "gone"
                              /\ DtlsEnds(d)
Ending      == \E p \in Proc : (pc[p] = "close" /\ Close(p)) \/ CloseDtls(p) \/ CloseReturns(p)
Ends        == Notices \/ ReadFails \/ DtlsGivenUp \/ Ending

Fairness ==
  /\ SF_vars(Channels(P("reader"))) /\ WF_vars(CstpWrite)
  /\ WF_vars(Channels(P("devRead"))) /\ WF_vars(DevWrite)
  /\ \A d \in Dtls : WF_vars(LinkDtls(d)) /\ WF_vars(DtlsWrite(d))
  /\ WF_vars(\E b \in Payload : Audited(b))
  /\ SF_vars(Ends)

FairSpec == Spec /\ Fairness
-----------------------------------------------------------------------------
(* Properties.                                                             *)

PcState == {"idle", "read", "take", "in", "outCstp", "outDtls", "write", "accept", "store",
            "close", "closing", "end"}

\* Types, and channels within their capacity.
TypeOK ==
  /\ pc \in [Proc -> PcState]
  /\ hold \in [Proc -> Payload \cup {NULL}]
  /\ via \in Dtls \cup {NULL} /\ cur \in Dtls \cup {NULL}
  /\ queue \in [Channel -> Seq(Payload)]
  /\ \A c \in Channel : Len(queue[c]) <= Cap
  /\ pool \subseteq Payload /\ jobs \subseteq Payload
  /\ kind \in [Payload -> {Plain, Dpd, Arp}]
  /\ closing \in {"open", "begun", "done"}
  /\ active \in [Dtls -> {"none", "active", "closed"}]
  /\ sock \subseteq {"conn", "dev"} \cup Dtls
  /\ peer \in {"up", "gone"}

\* A payload is in one place: a goroutine that reads into it or writes it out
\* has it for itself, whatever way the payload takes through channels, audit and
\* pool.
Queued(c) == Range(queue[c])
Exclusive ==
  /\ \A p, q \in Proc : hold[p] # NULL /\ hold[p] = hold[q] => p = q
  /\ \A c \in Channel : /\ \A i, j \in DOMAIN queue[c] : queue[c][i] = queue[c][j] => i = j
                        /\ \A e \in Channel \ {c} : Queued(c) \cap Queued(e) = {}
                        /\ \A p \in Proc : hold[p] \notin Queued(c)
                        /\ (pool \cup jobs) \cap Queued(c) = {}
  /\ pool \cap jobs = {}
  /\ \A p \in Proc : hold[p] \notin pool \cup jobs

\* A packet from the device goes out as data and never as a DPD answer or a layer 2
\* frame, although its payload may have been either before.
KindsKept ==
  /\ pc[P("devRead")] \in {"outCstp", "outDtls"} => kind[hold[P("devRead")]] = Plain
  /\ \A b \in Queued("cstp") \cup Queued("dtls") : kind[b].ltype = "ip"
  /\ \A b \in pool : kind[b] = Plain

AllEnded ==
  /\ \A p \in Proc : pc[p] \in {"end", "idle"}
  /\ sock = {} /\ jobs = {}
  /\ \A d \in Dtls : active[d] # "active"

\* Once Close has begun, or the client is gone, every goroutine of the tunnel ends and
\* its connections and its device are closed: also those that wait for room in a
\* channel, LinkCstp waiting for cstpWrite when the client goes, and a DTLS session
\* stored after Close had looked for one.
TunnelEnds == Closed \/ peer = "gone" ~> AllEnded
=============================================================================
