------------------------------ MODULE Session ------------------------------
(***************************************************************************)
(* The session table of sessdata/session.go and its callers: tunnel        *)
(* requests (handler/link_tunnel.go), the goroutines of a running tunnel   *)
(* (handler/link_cstp.go, link_tun.go), the two sweepers checkSession and  *)
(* CloseUserLimittimeSession, and the administrator's "offline", "reline"  *)
(* and online list (sessdata/online.go).  A login creates a Session, named *)
(* by its token; a tunnel request attaches a ConnSession to it, which owns *)
(* a slot of the client limit (sessdata/limit_client.go) and an address of *)
(* the pool.                                                               *)
(*                                                                         *)
(* Steps follow the locks of the code: what runs under one lock is one     *)
(* action, what is read outside a lock is read in a step of its own.  A    *)
(* ConnSession is named by the request that created it.  Which address     *)
(* AcquireIp picks is left open here.                                      *)
(***************************************************************************)
EXTENDS Integers, FiniteSets

CONSTANTS
  Token,           \* sessions that log in
  User,            \* user names
  UserOf,          \* the user of a session, fixed when it logs in
  Req,             \* tunnel requests, each with the connection it creates
  Admin,           \* requests of the administration API, and client logouts
  Reaper,          \* the checkSession goroutine; {} when SessionTimeout = 0
  Expirer,         \* the CloseUserLimittimeSession job
  Ip,              \* addresses of the pool
  MaxClient,       \* base.Cfg.MaxClient
  MaxUserClient,   \* base.Cfg.MaxUserClient
  Fault,           \* which errors may occur: a group that cannot be read, Hijack's, the
                   \* device's, and a list of online users that is to show "sleepers" too
  AllKey,          \* limitAllKey
  NULL

ASSUME SessionAssumption ==
  /\ UserOf \in [Token -> User]
  /\ AllKey \notin User /\ NULL \notin User
  /\ IsFiniteSet(Req)
  /\ MaxClient \in Nat /\ MaxUserClient \in Nat
  /\ NULL \notin Token \cup Req \cup Ip \cup Admin \cup Reaper \cup Expirer
  /\ Req \cap (Admin \cup Reaper \cup Expirer) = {}
  /\ Admin \cap (Reaper \cup Expirer) = {}
  /\ Reaper \cap Expirer = {}
  /\ Fault \subseteq {"group", "hijack", "link", "sleepers"}

Sweeper == Reaper \cup Expirer
Thread  == Req \cup Admin \cup Sweeper

VARIABLES
  sessions,     \* token -> "none", "live" (in the map), "gone" (deleted from it)
  isActive,     \* Session.IsActive
  cSess,        \* Session.CSess
  stale,        \* now - Session.LastLogin > SessionTimeout
  mux,          \* Session.mux: the connection whose Close holds it, or the request that
                \* panicked with it
  sessMux,      \* the thread holding sessMux for writing
  sessRd,       \* the threads holding sessMux for reading across steps
  pc,           \* where a request is in LinkTunnel, NewConn or LinkCstp
  tok,          \* the Session a request found
  conn,         \* ConnSession: how far its Close has come
  ip,           \* ConnSession.IpAddr
  call,         \* a thread's CloseSess, CloseCSess or Close in progress
  out,          \* a sweeper's collected tokens
  ipActive,     \* sessdata/ip_pool.go ipActive
  limitClient   \* sessdata/limit_client.go limitClient

sessVars == <<sessions, isActive, cSess, stale>>
lockVars == <<mux, sessMux, sessRd>>
reqVars  == <<pc, tok, conn, ip>>
poolVars == <<ipActive, limitClient>>
vars     == <<sessVars, lockVars, reqVars, call, out, poolVars>>

(***************************************************************************)
(* pc: NewConn runs through "read", "closeOld", "waitOld", "limit",        *)
(* "acquire", "group" and "publish"; LinkTunnel then sets the tunnel up,   *)
(* and LinkCstp serves it.  "disc" is LinkCstp after a DISCONNECT or an    *)
(* idle timeout.  "orphan" is a request that returned with its connection  *)
(* still open, "leaked" one that returned between AcquireIp and the        *)
(* creation of the connection.                                             *)
(***************************************************************************)
PcState == {"idle", "read", "closeOld", "waitOld", "limit", "acquire", "group",
            "publish", "setup", "served", "disc", "orphan", "leaked"}

\* Close: "marked" after the fields are reset, "ipFreed" after ReleaseIp.
ConnState == {"none", "open", "marked", "ipFreed", "closed"}
Closing   == {"marked", "ipFreed"}

NoCall == [kind |-> "none", tok |-> NULL, conn |-> NULL]
Calls  == {NoCall} \cup
          [kind : {"CloseSess", "CloseCSess"}, tok : Token, conn : Req \cup {NULL}]
          \cup [kind : {"Close"}, tok : Token, conn : Req]

Called(c) == \E th \in Thread : call[th].conn = c

\* The requests that have been granted a slot, or an address, and not returned it.
HoldsSlot(c) == \/ pc[c] \in {"acquire", "group", "publish", "leaked"}
                \/ conn[c] \in {"open", "marked", "ipFreed"}
HoldsIp(c)   == \/ pc[c] \in {"group", "publish", "leaked"}
                \/ conn[c] \in {"open", "marked"}

SlotHolders    == {c \in Req : HoldsSlot(c)}
SlotsOfUser(u) == {c \in SlotHolders : UserOf[tok[c]] = u}

-----------------------------------------------------------------------------
Init ==
  /\ sessions = [t \in Token |-> "none"]
  /\ isActive = [t \in Token |-> FALSE]
  /\ cSess = [t \in Token |-> NULL]
  /\ stale = [t \in Token |-> FALSE]
  /\ mux = [t \in Token |-> NULL]
  /\ sessMux = NULL /\ sessRd = {}
  /\ pc = [r \in Req |-> "idle"]
  /\ tok = [r \in Req |-> NULL]
  /\ conn = [r \in Req |-> "none"]
  /\ ip = [r \in Req |-> NULL]
  /\ call = [th \in Thread |-> NoCall]
  /\ out = [j \in Sweeper |-> {}]
  /\ ipActive = {}
  /\ limitClient = [k \in User \cup {AllKey} |-> 0]

(***************************************************************************)
(* A login: NewSession adds a session under a fresh random token.          *)
(***************************************************************************)
NewSession(t) ==
  /\ sessMux = NULL /\ sessRd = {}
  /\ sessions[t] = "none"
  /\ sessions' = [sessions EXCEPT ![t] = "live"]
  /\ UNCHANGED <<isActive, cSess, stale, lockVars, reqVars, call, out, poolVars>>

\* Time passes: SessionTimeout seconds after the last login or disconnection,
\* which only checkSession looks at.
Age(t) ==
  /\ Reaper # {}
  /\ sessions[t] = "live" /\ ~stale[t]
  /\ stale' = [stale EXCEPT ![t] = TRUE]
  /\ UNCHANGED <<sessions, isActive, cSess, lockVars, reqVars, call, out, poolVars>>

-----------------------------------------------------------------------------
(* NewConn and LinkTunnel.                                                 *)

Goto(r, to) == pc' = [pc EXCEPT ![r] = to]

\* LinkTunnel: SToken2Sess finds the session of the cookie, else 401.
Lookup(r, t) ==
  /\ pc[r] = "idle"
  /\ sessMux = NULL
  /\ sessions[t] = "live"
  /\ Goto(r, "read")
  /\ tok' = [tok EXCEPT ![r] = t]
  /\ UNCHANGED <<sessVars, lockVars, conn, ip, call, out, poolVars>>

\* NewConn reads IsActive under Session.mux ...
ReadActive(r) ==
  /\ pc[r] = "read"
  /\ mux[tok[r]] = NULL
  /\ Goto(r, IF isActive[tok[r]] THEN "closeOld" ELSE "limit")
  /\ UNCHANGED <<sessVars, lockVars, tok, conn, ip, call, out, poolVars>>

\* Mutated: a request that finds no connection any more waits for one.
CloseOldWaiting(r) ==
  /\ pc[r] = "closeOld"
  /\ cSess[tok[r]] # NULL
  /\ call' = [call EXCEPT ![r] = [kind |-> "Close", tok |-> tok[r], conn |-> cSess[tok[r]]]]
  /\ Goto(r, "waitOld")
  /\ UNCHANGED <<sessVars, lockVars, tok, conn, ip, out, poolVars>>

\* Mutated: Close is entered on whatever CSess holds, nil included.
CloseOldUnchecked(r) ==
  /\ pc[r] = "closeOld"
  /\ call' = [call EXCEPT ![r] = [kind |-> "Close", tok |-> tok[r], conn |-> cSess[tok[r]]]]
  /\ Goto(r, "waitOld")
  /\ UNCHANGED <<sessVars, lockVars, tok, conn, ip, out, poolVars>>

\* ... and then CSess without it, to close the connection it finds there.  If
\* that has become nil the request panics, which net/http recovers.
CloseOld(r) ==
  LET t == tok[r] IN
  /\ pc[r] = "closeOld"
  /\ \/ /\ cSess[t] # NULL
        /\ call' = [call EXCEPT ![r] = [kind |-> "Close", tok |-> t, conn |-> cSess[t]]]
        /\ Goto(r, "waitOld")
        /\ UNCHANGED tok
     \/ /\ cSess[t] = NULL
        /\ Goto(r, "idle")
        /\ tok' = [tok EXCEPT ![r] = NULL]
        /\ UNCHANGED call
  /\ UNCHANGED <<sessVars, lockVars, conn, ip, out, poolVars>>

AddSlot(u, n) == [limitClient EXCEPT ![u] = @ + n, ![AllKey] = @ + n]

\* Mutated: the limit of the user is not looked at.
TakeSlotAnyUser(r) ==
  /\ pc[r] = "limit"
  /\ limitClient[AllKey] < MaxClient
  /\ limitClient' = AddSlot(UserOf[tok[r]], 1)
  /\ Goto(r, "acquire")
  /\ UNCHANGED <<sessVars, lockVars, tok, conn, ip, call, out, ipActive>>

\* LimitClient(user, false); a refused request answers 401.
TakeSlot(r) ==
  LET u == UserOf[tok[r]] IN
  /\ pc[r] = "limit"
  /\ IF limitClient[AllKey] >= MaxClient \/ limitClient[u] >= MaxUserClient
     THEN /\ Goto(r, "idle")
          /\ tok' = [tok EXCEPT ![r] = NULL]
          /\ UNCHANGED limitClient
     ELSE /\ limitClient' = AddSlot(u, 1)
          /\ Goto(r, "acquire")
          /\ UNCHANGED tok
  /\ UNCHANGED <<sessVars, lockVars, conn, ip, call, out, ipActive>>

\* AcquireIp returns an address that is not active, and makes it active ...
TakeIp(r, a) ==
  /\ pc[r] = "acquire"
  /\ a \notin ipActive
  /\ ipActive' = ipActive \cup {a}
  /\ ip' = [ip EXCEPT ![r] = a]
  /\ Goto(r, "group")
  /\ UNCHANGED <<sessVars, lockVars, tok, conn, call, out, limitClient>>

\* Mutated: without an address NewConn returns and keeps the slot.
NoIpKeepsSlot(r) ==
  /\ pc[r] = "acquire"
  /\ Goto(r, "idle")
  /\ tok' = [tok EXCEPT ![r] = NULL]
  /\ UNCHANGED <<sessVars, lockVars, conn, ip, call, out, poolVars>>

\* ... or nil (pool exhausted, reserved address, database error): the slot is
\* given back.
NoIp(r) ==
  /\ pc[r] = "acquire"
  /\ limitClient' = AddSlot(UserOf[tok[r]], -1)
  /\ Goto(r, "idle")
  /\ tok' = [tok EXCEPT ![r] = NULL]
  /\ UNCHANGED <<sessVars, lockVars, conn, ip, call, out, ipActive>>

\* The session's group is read; on an error NewConn returns nil as it stands.
GroupLookup(r) ==
  /\ pc[r] = "group"
  /\ \/ Goto(r, "publish")
     \/ "group" \in Fault /\ Goto(r, "leaked")
  /\ UNCHANGED <<sessVars, lockVars, tok, conn, ip, call, out, poolVars>>

\* The new connection is stored in the session under Session.mux.
Publish(r) ==
  LET t == tok[r] IN
  /\ pc[r] = "publish"
  /\ mux[t] = NULL
  /\ isActive' = [isActive EXCEPT ![t] = TRUE]
  /\ cSess' = [cSess EXCEPT ![t] = r]
  /\ conn' = [conn EXCEPT ![r] = "open"]
  /\ Goto(r, "setup")
  /\ UNCHANGED <<sessions, stale, lockVars, tok, ip, call, out, poolVars>>

\* LinkTunnel: Hijack and LinkTun/LinkTap/LinkMacvtap, whose SetIfName waits for
\* Session.mux, then go LinkCstp.  Their error paths return without closing the
\* connection; Hijack and the creation of the device fail before that wait.
SetupLink(r) ==
  /\ pc[r] = "setup"
  /\ \/ mux[tok[r]] = NULL /\ Goto(r, "served")
     \/ Fault \cap {"hijack", "link"} # {} /\ Goto(r, "orphan")
  /\ UNCHANGED <<sessVars, lockVars, tok, conn, ip, call, out, poolVars>>

-----------------------------------------------------------------------------
(* ConnSession.Close: closeOnce, then Session.mux held to the end.         *)

\* Mutated: no closeOnce, a closed connection can be closed again.
StartCloseAgain(c) ==
  LET t == tok[c] IN
  /\ conn[c] \in {"open", "closed"}
  /\ mux[t] = NULL
  /\ mux' = [mux EXCEPT ![t] = c]
  /\ isActive' = [isActive EXCEPT ![t] = FALSE]
  /\ stale' = [stale EXCEPT ![t] = FALSE]
  /\ cSess' = [cSess EXCEPT ![t] = NULL]
  /\ conn' = [conn EXCEPT ![c] = "marked"]
  /\ UNCHANGED <<sessions, sessMux, sessRd, pc, tok, ip, call, out, poolVars>>

\* Mutated: Session.CSess keeps pointing to the closed connection.
StartCloseKeepsCSess(c) ==
  LET t == tok[c] IN
  /\ conn[c] = "open"
  /\ mux[t] = NULL
  /\ mux' = [mux EXCEPT ![t] = c]
  /\ isActive' = [isActive EXCEPT ![t] = FALSE]
  /\ stale' = [stale EXCEPT ![t] = FALSE]
  /\ conn' = [conn EXCEPT ![c] = "marked"]
  /\ UNCHANGED <<sessions, cSess, sessMux, sessRd, pc, tok, ip, call, out, poolVars>>

StartClose(c) ==
  LET t == tok[c] IN
  /\ conn[c] = "open"
  /\ mux[t] = NULL
  /\ mux' = [mux EXCEPT ![t] = c]
  /\ isActive' = [isActive EXCEPT ![t] = FALSE]
  /\ stale' = [stale EXCEPT ![t] = FALSE]
  /\ cSess' = [cSess EXCEPT ![t] = NULL]
  /\ conn' = [conn EXCEPT ![c] = "marked"]
  /\ UNCHANGED <<sessions, sessMux, sessRd, pc, tok, ip, call, out, poolVars>>

ReleaseIp(c) ==
  /\ conn[c] = "marked"
  /\ ipActive' = ipActive \ {ip[c]}
  /\ conn' = [conn EXCEPT ![c] = "ipFreed"]
  /\ UNCHANGED <<sessVars, lockVars, pc, tok, ip, call, out, limitClient>>

\* Mutated: Session.mux is not unlocked.
ReleaseSlotKeepsMux(c) ==
  /\ conn[c] = "ipFreed"
  /\ limitClient' = AddSlot(UserOf[tok[c]], -1)
  /\ conn' = [conn EXCEPT ![c] = "closed"]
  /\ UNCHANGED <<sessVars, lockVars, pc, tok, ip, call, out, ipActive>>

\* LimitClient(user, true), and Session.mux is unlocked.
ReleaseSlot(c) ==
  /\ conn[c] = "ipFreed"
  /\ limitClient' = AddSlot(UserOf[tok[c]], -1)
  /\ conn' = [conn EXCEPT ![c] = "closed"]
  /\ mux' = [mux EXCEPT ![tok[c]] = NULL]
  /\ UNCHANGED <<sessVars, sessMux, sessRd, pc, tok, ip, call, out, ipActive>>

\* A thread that calls Close on c gets closeOnce.
CalledClose(th) == call[th].conn # NULL /\ StartClose(call[th].conn)

\* The goroutines of the tunnel close it on a read, write or device error or on
\* the read deadline.
IoClose(r) == pc[r] = "served" /\ StartClose(r)

\* Mutated: LinkCstp closes the session's current connection, not its own.
DeferredCloseCurrent(r) ==
  /\ pc[r] = "disc" /\ call[r] = NoCall
  /\ cSess[tok[r]] # NULL
  /\ StartClose(cSess[tok[r]])

\* LinkCstp's deferred Close, after a DISCONNECT or an idle timeout.
DeferredClose(r) == pc[r] = "disc" /\ call[r] = NoCall /\ StartClose(r)

\* Close returns to a waiting thread, which unlocks what CloseSess or
\* CloseCSess locked, or goes on with NewConn.
CloseReturn(th) ==
  LET k == call[th] IN
  /\ k.conn # NULL /\ conn[k.conn] = "closed"
  /\ call' = [call EXCEPT ![th] = NoCall]
  /\ sessMux' = IF k.kind = "CloseSess" THEN NULL ELSE sessMux
  /\ sessRd' = sessRd \ {th}
  /\ pc' = IF k.kind = "Close" THEN [pc EXCEPT ![th] = "limit"] ELSE pc
  /\ UNCHANGED <<sessVars, mux, tok, conn, ip, out, poolVars>>

\* The last goroutine of a closed connection has returned.
ConnGone(r) ==
  /\ pc[r] \in {"served", "disc", "orphan"}
  /\ conn[r] = "closed"
  /\ call[r] = NoCall /\ ~Called(r)
  /\ Goto(r, "idle")
  /\ tok' = [tok EXCEPT ![r] = NULL]
  /\ conn' = [conn EXCEPT ![r] = "none"]
  /\ ip' = [ip EXCEPT ![r] = NULL]
  /\ UNCHANGED <<sessVars, lockVars, call, out, poolVars>>

-----------------------------------------------------------------------------
(* CloseSess and CloseCSess.                                               *)

\* CloseSess: under sessMux the session leaves the maps; if it has a connection
\* sessMux stays locked until that is closed, else the call is over.
EnterCloseSess(th, t) ==
  /\ call[th] = NoCall
  /\ sessMux = NULL /\ sessRd = {}
  /\ sessions' = [sessions EXCEPT ![t] = IF @ = "live" THEN "gone" ELSE @]
  /\ IF sessions[t] = "live" /\ cSess[t] # NULL
     THEN /\ sessMux' = th
          /\ call' = [call EXCEPT ![th] = [kind |-> "CloseSess", tok |-> t, conn |-> NULL]]
     ELSE UNCHANGED <<sessMux, call>>
  /\ UNCHANGED <<isActive, cSess, stale, mux, sessRd, tok, conn, ip, poolVars>>

\* CSess, found non-nil, is read again for the call of Close.
CallClose(th) ==
  LET k == call[th] IN
  /\ k # NoCall /\ k.conn = NULL
  /\ cSess[k.tok] # NULL
  /\ call' = [call EXCEPT ![th].conn = cSess[k.tok]]
  /\ UNCHANGED <<sessVars, lockVars, reqVars, out, poolVars>>

\* The second read finds nil.  In an API request net/http recovers the panic and
\* the deferred unlock runs ...
PanicRecovered(th) ==
  LET k == call[th] IN
  /\ th \in Admin
  /\ k # NoCall /\ k.conn = NULL
  /\ cSess[k.tok] = NULL
  /\ call' = [call EXCEPT ![th] = NoCall]
  /\ sessMux' = IF k.kind = "CloseSess" THEN NULL ELSE sessMux
  /\ sessRd' = sessRd \ {th}
  /\ UNCHANGED <<sessVars, mux, reqVars, out, poolVars>>

\* ... in any other goroutine it ends the process; the service manager starts
\* it again with empty tables.
PanicRestart(th) ==
  LET k == call[th] IN
  /\ th \notin Admin
  /\ k # NoCall /\ k.conn = NULL
  /\ cSess[k.tok] = NULL
  /\ sessions' = [t \in Token |-> "none"]
  /\ isActive' = [t \in Token |-> FALSE]
  /\ cSess' = [t \in Token |-> NULL]
  /\ stale' = [t \in Token |-> FALSE]
  /\ mux' = [t \in Token |-> NULL]
  /\ sessMux' = NULL /\ sessRd' = {}
  /\ pc' = [r \in Req |-> "idle"]
  /\ tok' = [r \in Req |-> NULL]
  /\ conn' = [r \in Req |-> "none"]
  /\ ip' = [r \in Req |-> NULL]
  /\ call' = [x \in Thread |-> NoCall]
  /\ out' = [j \in Sweeper |-> {}]
  /\ ipActive' = {}
  /\ limitClient' = [k2 \in User \cup {AllKey} |-> 0]

\* LinkCstp: the client sends DISCONNECT, or a KEEPALIVE after IdleTimeout.
Disconnect(r) ==
  /\ pc[r] = "served"
  /\ EnterCloseSess(r, tok[r])
  /\ Goto(r, "disc")
  /\ UNCHANGED out

\* UserOffline of the API, and the logout request (DelSessByStoken).
Offline(a, t) == EnterCloseSess(a, t) /\ UNCHANGED <<pc, out>>

\* UserReline of the API: CloseCSess, under sessMux.RLock.
Reline(a, t) ==
  /\ call[a] = NoCall
  /\ sessMux = NULL
  /\ sessions[t] = "live" /\ cSess[t] # NULL
  /\ sessRd' = sessRd \cup {a}
  /\ call' = [call EXCEPT ![a] = [kind |-> "CloseCSess", tok |-> t, conn |-> NULL]]
  /\ UNCHANGED <<sessVars, mux, sessMux, reqVars, out, poolVars>>

\* GetOnlineSess: the list of online users is made under sessMux ...
List(a) ==
  /\ call[a] = NoCall
  /\ sessMux = NULL /\ sessRd = {}
  /\ sessMux' = a
  /\ UNCHANGED <<sessVars, mux, sessRd, reqVars, call, out, poolVars>>

Listing(a) == sessMux = a /\ call[a] = NoCall

\* Mutated: sessMux is not unlocked.
ListKeepsLock(a) ==
  /\ Listing(a)
  /\ \A t \in Token : sessions[t] = "live" => mux[t] = NULL
  /\ UNCHANGED vars

\* ... and waits for the mux of each session.  None is held when it has been through all.
ListEnds(a) ==
  /\ Listing(a)
  /\ \A t \in Token : sessions[t] = "live" => mux[t] = NULL
  /\ sessMux' = NULL
  /\ UNCHANGED <<sessVars, mux, sessRd, reqVars, call, out, poolVars>>

\* A session that sleeps is shown by way of an empty ConnSession, which has no dSess to
\* load.  net/http recovers the panic; sessMux is unlocked by a defer, the mux is not.
ListPanics(a, t) ==
  /\ "sleepers" \in Fault
  /\ Listing(a)
  /\ sessions[t] = "live" /\ mux[t] = NULL /\ cSess[t] = NULL
  /\ mux' = [mux EXCEPT ![t] = a]
  /\ sessMux' = NULL
  /\ UNCHANGED <<sessVars, sessRd, reqVars, call, out, poolVars>>

-----------------------------------------------------------------------------
(* The sweepers collect tokens under read locks and then close each.       *)

CanScan(j) == /\ out[j] = {} /\ call[j] = NoCall
              /\ sessMux = NULL
              /\ \A t \in Token : sessions[t] = "live" => mux[t] = NULL

\* checkSession: inactive sessions whose last login is too old.  A session that
\* connects while the map is walked is one that is not collected.
ScanExpired(j) ==
  LET expired == {t \in Token : sessions[t] = "live" /\ ~isActive[t] /\ stale[t]} IN
  /\ CanScan(j)
  /\ expired # {}
  /\ out' = [out EXCEPT ![j] = expired]
  /\ UNCHANGED <<sessVars, lockVars, reqVars, call, poolVars>>

\* CloseUserLimittimeSession: active sessions of the users whose term is over.
ScanLimittime(j) ==
  \E U \in SUBSET User :
    LET over == {t \in Token : sessions[t] = "live" /\ isActive[t] /\ UserOf[t] \in U} IN
    /\ CanScan(j)
    /\ over # {}
    /\ out' = [out EXCEPT ![j] = over]
    /\ UNCHANGED <<sessVars, lockVars, reqVars, call, poolVars>>

SweepOne(j, t) ==
  /\ t \in out[j]
  /\ EnterCloseSess(j, t)
  /\ out' = [out EXCEPT ![j] = @ \ {t}]
  /\ UNCHANGED pc

-----------------------------------------------------------------------------
Next ==
  \/ \E t \in Token : NewSession(t) \/ Age(t)
  \/ \E r \in Req, t \in Token : Lookup(r, t)
  \/ \E r \in Req : ReadActive(r) \/ CloseOld(r) \/ TakeSlot(r) \/ NoIp(r)
  \/ \E r \in Req, a \in Ip : TakeIp(r, a)
  \/ \E r \in Req : GroupLookup(r) \/ Publish(r) \/ SetupLink(r)
  \/ \E r \in Req : IoClose(r) \/ Disconnect(r) \/ DeferredClose(r) \/ ConnGone(r)
  \/ \E c \in Req : ReleaseIp(c) \/ ReleaseSlot(c)
  \/ \E th \in Thread : CallClose(th) \/ CalledClose(th) \/ CloseReturn(th)
  \/ \E th \in Thread : PanicRecovered(th) \/ PanicRestart(th)
  \/ \E a \in Admin, t \in Token : Offline(a, t) \/ Reline(a, t) \/ ListPanics(a, t)
  \/ \E a \in Admin : List(a) \/ ListEnds(a)
  \/ \E j \in Reaper : ScanExpired(j)
  \/ \E j \in Expirer : ScanLimittime(j)
  \/ \E j \in Sweeper, t \in Token : SweepOne(j, t)

Spec == Init /\ [][Next]_vars

(***************************************************************************)
(* Goroutines keep running and Go's mutexes do not starve a waiter, so     *)
(* steps that wait for a mutex are strongly fair and the others weakly.    *)
(* Clients, the network, administrators and the passing of time owe        *)
(* nothing.                                                                *)
(***************************************************************************)
Run(r) == \/ CloseOld(r) \/ TakeSlot(r) \/ NoIp(r) \/ \E a \in Ip : TakeIp(r, a)
          \/ GroupLookup(r) \/ ConnGone(r)
RunCall(th) == CallClose(th) \/ PanicRecovered(th) \/ PanicRestart(th) \/ CloseReturn(th)

Fairness ==
  /\ \A r \in Req : /\ WF_vars(Run(r))
                    /\ WF_vars(ReleaseIp(r) \/ ReleaseSlot(r))
                    /\ SF_vars(ReadActive(r) \/ Publish(r) \/ SetupLink(r) \/ DeferredClose(r))
  /\ \A th \in Thread : WF_vars(RunCall(th)) /\ SF_vars(CalledClose(th))
  /\ \A a \in Admin : SF_vars(ListEnds(a) \/ \E t \in Token : ListPanics(a, t))
  /\ \A j \in Sweeper : SF_vars(\E t \in Token : SweepOne(j, t))

FairSpec == Spec /\ Fairness
-----------------------------------------------------------------------------
(* Properties.                                                             *)

\* Every variable has its type.
TypeOK ==
  /\ sessions \in [Token -> {"none", "live", "gone"}]
  /\ isActive \in [Token -> BOOLEAN] /\ stale \in [Token -> BOOLEAN]
  /\ cSess \in [Token -> Req \cup {NULL}]
  /\ mux \in [Token -> Req \cup Admin \cup {NULL}]
  /\ sessMux \in Thread \cup {NULL} /\ sessRd \subseteq Thread
  /\ pc \in [Req -> PcState] /\ conn \in [Req -> ConnState]
  /\ tok \in [Req -> Token \cup {NULL}] /\ ip \in [Req -> Ip \cup {NULL}]
  /\ call \in [Thread -> Calls]
  /\ out \in [Sweeper -> SUBSET Token]
  /\ ipActive \subseteq Ip
  /\ limitClient \in [User \cup {AllKey} -> Int]

\* No two connections or requests hold one address, and an address that is held
\* is active, so that AcquireIp cannot hand it out: the release of one
\* connection's address never frees another's, whoever calls Close and however
\* often.
IpExclusive ==
  \A c, d \in Req : /\ HoldsIp(c) => ip[c] \in ipActive
                    /\ HoldsIp(c) /\ HoldsIp(d) /\ c # d => ip[c] # ip[d]

\* The counters of LimitClient are the numbers of slots granted and not given
\* back, in all and of each user: no path takes one twice, returns one twice, or
\* returns what another path already did.
SlotAccount ==
  /\ limitClient[AllKey] = Cardinality(SlotHolders)
  /\ \A u \in User : limitClient[u] = Cardinality(SlotsOfUser(u))

\* Requests that race each other never get more slots than max_client and
\* max_user_client allow.
Limits ==
  /\ Cardinality(SlotHolders) <= MaxClient
  /\ \A u \in User : Cardinality(SlotsOfUser(u)) <= MaxUserClient

\* Session.CSess never points to a closed connection or another session's, and
\* a session is active exactly while it has one: what CloseSess, CloseCSess,
\* NewConn and the DTLS lookup find there can be closed.
PublishedIsOpen ==
  \A t \in Token :
    /\ isActive[t] <=> cSess[t] # NULL
    /\ cSess[t] # NULL => conn[cSess[t]] = "open" /\ tok[cSess[t]] = t

\* The session table implements the promise of Admission: slots and addresses
\* are granted within the limits, exclusively, and returned once, in order.
slotOwner == [c \in Req |-> IF HoldsSlot(c) THEN UserOf[tok[c]] ELSE NULL]
heldIp    == [c \in Req |-> IF HoldsIp(c) THEN ip[c] ELSE NULL]
Promise   == INSTANCE Admission WITH Client <- Req, owner <- slotOwner, addr <- heldIp
ImplementsAdmission == Promise!Spec

\* Every CloseSess, CloseCSess and NewConn's Close returns, whoever else is
\* closing the same connection or another of the same session.
CallsReturn == \A th \in Thread : call[th] # NoCall ~> call[th] = NoCall

\* NewConn ends: a request is refused or gets its tunnel.
RequestsReturn ==
  \A r \in Req : pc[r] \in {"read", "closeOld", "waitOld", "limit", "acquire", "group", "publish"}
                 ~> pc[r] \in {"idle", "setup", "leaked"}

\* A client that disconnects gives back its slot and its address, although its
\* session may meanwhile be closed, kicked or taken over by a newer connection.
DisconnectReleases == \A r \in Req : pc[r] = "disc" ~> ~HoldsSlot(r) /\ ~HoldsIp(r)

\* A list of online users is finished: while it has sessMux, and nobody can log in, it
\* waits only for closes that need no lock it has.
ListsReturn == \A a \in Admin : Listing(a) ~> ~Listing(a)

\* What conf/server-sample.toml says of max_user_client: it bounds the
\* connections a user has online at a time.  So a full counter means that many
\* connections are online or being set up.
SlotsAreOnline ==
  \A u \in User :
    limitClient[u] <= Cardinality({c \in SlotsOfUser(u) : pc[c] \notin {"leaked", "orphan"}})
=============================================================================
