--------------------------- MODULE SessionProofs ---------------------------
(***************************************************************************)
(* Proofs about Session: types, exclusive addresses, exact slot counters,  *)
(* the limits, and the refinement of Admission.                            *)
(***************************************************************************)
EXTENDS Session, FiniteSetTheorems, TLAPS

(***************************************************************************)
(* The inductive invariant.  ControlInv says what the position of a        *)
(* request tells of its session, connection and address, and that only a   *)
(* NewConn that waits for the old connection is inside a plain Close.      *)
(***************************************************************************)
ControlInv ==
  /\ \A r \in Req :
       /\ pc[r] # "idle" => tok[r] \in Token
       /\ conn[r] # "none" => pc[r] \in {"setup", "served", "disc", "orphan"}
       /\ HoldsIp(r) => ip[r] \in Ip
  /\ \A th \in Thread : call[th].kind = "Close" => th \in Req /\ pc[th] = "waitOld"

TInv == TypeOK /\ ControlInv

-----------------------------------------------------------------------------
(* Type correctness.                                                       *)

LEMMA TInvInit == Init => TInv
BY SessionAssumption DEF Init, TInv, TypeOK, ControlInv, HoldsIp, Thread, Sweeper, Calls, NoCall,
   PcState, ConnState

\* A connection that a thread closes is one of a request.
LEMMA CalledConn ==
  ASSUME TInv, NEW th \in Thread, CalledClose(th)
  PROVE  \E c \in Req : StartClose(c)
BY DEF TInv, TypeOK, CalledClose, Calls, NoCall

\* What CloseSess changes on entry keeps its type and starts no plain Close.
LEMMA EnterType ==
  ASSUME TInv, NEW th \in Thread, NEW t \in Token, EnterCloseSess(th, t)
  PROVE  /\ sessions' \in [Token -> {"none", "live", "gone"}]
         /\ sessMux' \in Thread \cup {NULL}
         /\ call' \in [Thread -> Calls]
         /\ \A x \in Thread : call'[x].kind = "Close" => call[x].kind = "Close"
         /\ UNCHANGED <<isActive, cSess, stale, mux, sessRd, tok, conn, ip, poolVars>>
BY DEF TInv, TypeOK, EnterCloseSess, Calls

LEMMA TInvStep == ASSUME TInv, [Next]_vars PROVE TInv'
<1> USE SessionAssumption DEF TInv, TypeOK, ControlInv, HoldsIp, Calls, NoCall
<1>1. ASSUME NEW t \in Token, NewSession(t) PROVE TInv'
  BY <1>1 DEF NewSession, sessVars, lockVars, reqVars, poolVars, Goto, AddSlot, Thread, Sweeper, PcState, ConnState
<1>2. ASSUME NEW t \in Token, Age(t) PROVE TInv'
  BY <1>2 DEF Age, sessVars, lockVars, reqVars, poolVars, Goto, AddSlot, Thread, Sweeper, PcState, ConnState
<1>3. ASSUME NEW r \in Req, NEW t \in Token, Lookup(r, t) PROVE TInv'
  BY <1>3 DEF Lookup, sessVars, lockVars, reqVars, poolVars, Goto, AddSlot, Thread, Sweeper, PcState, ConnState
<1>4. ASSUME NEW r \in Req, ReadActive(r) PROVE TInv'
  BY <1>4 DEF ReadActive, sessVars, lockVars, reqVars, poolVars, Goto, AddSlot, Thread, Sweeper, PcState, ConnState
<1>5. ASSUME NEW r \in Req, CloseOld(r) PROVE TInv'
  <2>1. CASE cSess[tok[r]] # NULL
    <3>1. call' = [call EXCEPT ![r] = [kind |-> "Close", tok |-> tok[r], conn |-> cSess[tok[r]]]]
      BY <1>5, <2>1 DEF CloseOld
    <3>2. tok[r] \in Token /\ cSess[tok[r]] \in Req /\ r \in Thread
      BY <1>5, <2>1 DEF CloseOld, Thread
    <3>3. call' \in [Thread -> Calls]
      BY <3>1, <3>2
    <3>4. pc' = [pc EXCEPT ![r] = "waitOld"] /\ UNCHANGED <<tok, conn, ip>>
      BY <1>5, <2>1 DEF CloseOld, Goto
    <3>5. ControlInv'
      BY <1>5, <3>1, <3>2, <3>4 DEF CloseOld, Thread
    <3>6. TypeOK'
      BY <1>5, <3>3, <3>4 DEF CloseOld, sessVars, lockVars, reqVars, poolVars, PcState
    <3>7. QED BY <3>5, <3>6
  <2>2. CASE cSess[tok[r]] = NULL
    BY <1>5, <2>2 DEF CloseOld, sessVars, lockVars, reqVars, poolVars, Goto, PcState
  <2>3. QED BY <2>1, <2>2
<1>6. ASSUME NEW r \in Req, TakeSlot(r) PROVE TInv'
  BY <1>6 DEF TakeSlot, sessVars, lockVars, reqVars, poolVars, Goto, AddSlot, Thread, Sweeper, PcState, ConnState
<1>7. ASSUME NEW r \in Req, NoIp(r) PROVE TInv'
  BY <1>7 DEF NoIp, sessVars, lockVars, reqVars, poolVars, Goto, AddSlot, Thread, Sweeper, PcState, ConnState
<1>8. ASSUME NEW r \in Req, NEW a \in Ip, TakeIp(r, a) PROVE TInv'
  BY <1>8 DEF TakeIp, sessVars, lockVars, reqVars, poolVars, Goto, AddSlot, Thread, Sweeper, PcState, ConnState
<1>9. ASSUME NEW r \in Req, GroupLookup(r) PROVE TInv'
  BY <1>9 DEF GroupLookup, sessVars, lockVars, reqVars, poolVars, Goto, AddSlot, Thread, Sweeper, PcState, ConnState
<1>10. ASSUME NEW r \in Req, Publish(r) PROVE TInv'
  BY <1>10 DEF Publish, sessVars, lockVars, reqVars, poolVars, Goto, AddSlot, Thread, Sweeper, PcState, ConnState
<1>11. ASSUME NEW r \in Req, SetupLink(r) PROVE TInv'
  BY <1>11 DEF SetupLink, sessVars, lockVars, reqVars, poolVars, Goto, AddSlot, Thread, Sweeper, PcState, ConnState
<1>12. ASSUME NEW c \in Req, StartClose(c) PROVE TInv'
  BY <1>12 DEF StartClose, sessVars, lockVars, reqVars, poolVars, Goto, AddSlot, Thread, Sweeper, PcState, ConnState
<1>13. ASSUME NEW r \in Req, Disconnect(r) PROVE TInv'
  <2>1. r \in Thread /\ tok[r] \in Token
    BY <1>13 DEF Disconnect, Thread
  <2>2. /\ sessions' \in [Token -> {"none", "live", "gone"}]
        /\ sessMux' \in Thread \cup {NULL}
        /\ call' \in [Thread -> Calls]
        /\ \A x \in Thread : call'[x].kind = "Close" => call[x].kind = "Close"
        /\ UNCHANGED <<isActive, cSess, stale, mux, sessRd, tok, conn, ip, poolVars>>
    <3> HIDE DEF TInv, TypeOK, ControlInv, Calls
    <3>1. QED BY <1>13, <2>1, EnterType DEF Disconnect
  <2>3. pc[r] = "served" /\ call[r] = NoCall /\ pc' = [pc EXCEPT ![r] = "disc"] /\ out' = out
    BY <1>13 DEF Disconnect, EnterCloseSess, Goto
  <2>4. TypeOK'
    BY <2>2, <2>3 DEF poolVars, PcState
  <2>5. ControlInv'
    BY <2>2, <2>3, <2>1 DEF poolVars
  <2>6. QED BY <2>4, <2>5
<1>14. ASSUME NEW r \in Req, ConnGone(r) PROVE TInv'
  BY <1>14 DEF ConnGone, sessVars, lockVars, reqVars, poolVars, Goto, AddSlot, Thread, Sweeper, PcState, ConnState
<1>15. ASSUME NEW c \in Req, ReleaseIp(c) PROVE TInv'
  BY <1>15 DEF ReleaseIp, sessVars, lockVars, reqVars, poolVars, Goto, AddSlot, Thread, Sweeper, PcState, ConnState
<1>16. ASSUME NEW c \in Req, ReleaseSlot(c) PROVE TInv'
  BY <1>16 DEF ReleaseSlot, sessVars, lockVars, reqVars, poolVars, Goto, AddSlot, Thread, Sweeper, PcState, ConnState
<1>17. ASSUME NEW th \in Thread, CallClose(th) PROVE TInv'
  BY <1>17 DEF CallClose, sessVars, lockVars, reqVars, poolVars, Goto, AddSlot, Thread, Sweeper, PcState, ConnState
<1>18. ASSUME NEW th \in Thread, CloseReturn(th) PROVE TInv'
  BY <1>18 DEF CloseReturn, sessVars, lockVars, reqVars, poolVars, Goto, AddSlot, Thread, Sweeper, PcState, ConnState
<1>19. ASSUME NEW th \in Thread, PanicRecovered(th) PROVE TInv'
  BY <1>19 DEF PanicRecovered, sessVars, lockVars, reqVars, poolVars, Goto, AddSlot, Thread, Sweeper, PcState, ConnState
<1>20. ASSUME NEW th \in Thread, PanicRestart(th) PROVE TInv'
  BY <1>20 DEF PanicRestart, sessVars, lockVars, reqVars, poolVars, Goto, AddSlot, Thread, Sweeper, PcState, ConnState
<1>21. ASSUME NEW x \in Admin, NEW t \in Token, Offline(x, t) PROVE TInv'
  BY <1>21, EnterType DEF Offline, poolVars, Goto, Thread, PcState
<1>22. ASSUME NEW x \in Admin, NEW t \in Token, Reline(x, t) PROVE TInv'
  BY <1>22 DEF Reline, sessVars, lockVars, reqVars, poolVars, Goto, AddSlot, Thread, Sweeper, PcState, ConnState
<1>23. ASSUME NEW j \in Reaper, ScanExpired(j) PROVE TInv'
  BY <1>23 DEF ScanExpired, sessVars, lockVars, reqVars, poolVars, Goto, AddSlot, Thread, Sweeper, PcState, ConnState
<1>24. ASSUME NEW j \in Expirer, ScanLimittime(j) PROVE TInv'
  BY <1>24 DEF ScanLimittime, sessVars, lockVars, reqVars, poolVars, Goto, AddSlot, Thread, Sweeper, PcState, ConnState
<1>25. ASSUME NEW j \in Sweeper, NEW t \in Token, SweepOne(j, t) PROVE TInv'
  <2>1. EnterCloseSess(j, t) /\ j \in Thread /\ UNCHANGED pc
    BY <1>25 DEF SweepOne, Thread
  <2>2. out' \in [Sweeper -> SUBSET Token]
    BY <1>25 DEF SweepOne
  <2>3. QED BY <2>1, <2>2, EnterType DEF poolVars
<1>26. ASSUME NEW x \in Admin, List(x) PROVE TInv'
  BY <1>26 DEF List, sessVars, lockVars, reqVars, poolVars, Thread
<1>27. ASSUME NEW x \in Admin, ListEnds(x) PROVE TInv'
  BY <1>27 DEF ListEnds, sessVars, lockVars, reqVars, poolVars, Thread
<1>28. ASSUME NEW x \in Admin, NEW t \in Token, ListPanics(x, t) PROVE TInv'
  BY <1>28 DEF ListPanics, sessVars, lockVars, reqVars, poolVars, Thread
<1>29. CASE UNCHANGED vars
  BY <1>29 DEF vars, sessVars, lockVars, reqVars, poolVars
<1>30. QED
  BY <1>1, <1>2, <1>3, <1>4, <1>5, <1>6, <1>7, <1>8, <1>9, <1>10, <1>11, <1>12, <1>13, <1>14, <1>15, <1>16, <1>17, <1>18, <1>19, <1>20, <1>21, <1>22, <1>23, <1>24, <1>25, <1>26, <1>27, <1>28, <1>29,
     CalledConn DEF Next, IoClose, DeferredClose

THEOREM TypeCorrect == Spec => []TypeOK
<1>1. TInv /\ [Next]_vars => TInv'
  BY TInvStep
<1>2. TInv => TypeOK
  BY DEF TInv
<1>3. QED
  BY TInvInit, <1>1, <1>2, PTL DEF Spec

-----------------------------------------------------------------------------
(***************************************************************************)
(* What a step does to the slots and addresses.  Every step of the code is *)
(* one of six kinds, and the theorems below look at these six only.        *)
(***************************************************************************)
SameSlots ==
  /\ \A c \in Req : HoldsSlot(c)' <=> HoldsSlot(c)
  /\ \A c \in Req : HoldsSlot(c) => tok'[c] = tok[c]
  /\ limitClient' = limitClient

SameIps ==
  /\ \A c \in Req : HoldsIp(c)' <=> HoldsIp(c)
  /\ \A c \in Req : HoldsIp(c) => ip'[c] = ip[c]
  /\ ipActive' = ipActive

GrantSlot(r) ==
  /\ ~HoldsSlot(r) /\ HoldsSlot(r)' /\ tok[r] \in Token
  /\ \A c \in Req \ {r} : HoldsSlot(c)' <=> HoldsSlot(c)
  /\ tok' = tok
  /\ limitClient[AllKey] < MaxClient
  /\ limitClient[UserOf[tok[r]]] < MaxUserClient
  /\ limitClient' = AddSlot(UserOf[tok[r]], 1)

DropSlot(r) ==
  /\ HoldsSlot(r) /\ ~HoldsIp(r) /\ ~HoldsSlot(r)' /\ tok[r] \in Token
  /\ \A c \in Req \ {r} : /\ HoldsSlot(c)' <=> HoldsSlot(c)
                          /\ tok'[c] = tok[c]
  /\ limitClient' = AddSlot(UserOf[tok[r]], -1)

GrantIp(r, a) ==
  /\ HoldsSlot(r) /\ ~HoldsIp(r) /\ HoldsIp(r)' /\ ip'[r] = a
  /\ \A c \in Req \ {r} : /\ HoldsIp(c)' <=> HoldsIp(c)
                          /\ ip'[c] = ip[c]
  /\ a \in Ip \ ipActive
  /\ ipActive' = ipActive \cup {a}

DropIp(r) ==
  /\ HoldsIp(r) /\ ~HoldsIp(r)'
  /\ \A c \in Req \ {r} : HoldsIp(c)' <=> HoldsIp(c)
  /\ ip' = ip
  /\ ipActive' = ipActive \ {ip[r]}

Restarted ==
  /\ \A c \in Req : ~HoldsSlot(c)' /\ ~HoldsIp(c)'
  /\ ipActive' = {}
  /\ limitClient' = [k \in User \cup {AllKey} |-> 0]

StepKind ==
  \/ SameSlots /\ SameIps
  \/ \E r \in Req : GrantSlot(r) /\ SameIps
  \/ \E r \in Req : DropSlot(r) /\ SameIps
  \/ \E r \in Req, a \in Ip : GrantIp(r, a) /\ SameSlots
  \/ \E r \in Req : DropIp(r) /\ SameSlots
  \/ Restarted

LEMMA StepKinds == ASSUME TInv, [Next]_vars PROVE StepKind
<1> USE SessionAssumption DEF TInv, TypeOK, ControlInv, HoldsIp, HoldsSlot
<1>1. ASSUME NEW t \in Token, NewSession(t) PROVE SameSlots /\ SameIps
  BY <1>1 DEF NewSession, SameSlots, SameIps, sessVars, lockVars, reqVars, poolVars, Goto, Thread, Sweeper
<1>2. ASSUME NEW t \in Token, Age(t) PROVE SameSlots /\ SameIps
  BY <1>2 DEF Age, SameSlots, SameIps, sessVars, lockVars, reqVars, poolVars, Goto, Thread, Sweeper
<1>3. ASSUME NEW r \in Req, NEW t \in Token, Lookup(r, t) PROVE SameSlots /\ SameIps
  BY <1>3 DEF Lookup, SameSlots, SameIps, sessVars, lockVars, reqVars, poolVars, Goto, Thread, Sweeper
<1>4. ASSUME NEW r \in Req, ReadActive(r) PROVE SameSlots /\ SameIps
  BY <1>4 DEF ReadActive, SameSlots, SameIps, sessVars, lockVars, reqVars, poolVars, Goto, Thread, Sweeper
<1>5. ASSUME NEW r \in Req, CloseOld(r) PROVE SameSlots /\ SameIps
  BY <1>5 DEF CloseOld, SameSlots, SameIps, sessVars, lockVars, reqVars, poolVars, Goto, Thread, Sweeper
<1>6. ASSUME NEW r \in Req, TakeSlot(r) PROVE (SameSlots \/ GrantSlot(r)) /\ SameIps
  BY <1>6 DEF TakeSlot, SameSlots, GrantSlot, SameIps, sessVars, lockVars, reqVars, poolVars, Goto, Thread, Sweeper
<1>7. ASSUME NEW r \in Req, NoIp(r) PROVE DropSlot(r) /\ SameIps
  BY <1>7 DEF NoIp, DropSlot, SameIps, sessVars, lockVars, reqVars, poolVars, Goto, Thread, Sweeper
<1>8. ASSUME NEW r \in Req, NEW a \in Ip, TakeIp(r, a) PROVE GrantIp(r, a) /\ SameSlots
  BY <1>8 DEF TakeIp, GrantIp, SameSlots, sessVars, lockVars, reqVars, poolVars, Goto, Thread, Sweeper
<1>9. ASSUME NEW r \in Req, GroupLookup(r) PROVE SameSlots /\ SameIps
  BY <1>9 DEF GroupLookup, SameSlots, SameIps, sessVars, lockVars, reqVars, poolVars, Goto, Thread, Sweeper
<1>10. ASSUME NEW r \in Req, Publish(r) PROVE SameSlots /\ SameIps
  BY <1>10 DEF Publish, SameSlots, SameIps, sessVars, lockVars, reqVars, poolVars, Goto, Thread, Sweeper
<1>11. ASSUME NEW r \in Req, SetupLink(r) PROVE SameSlots /\ SameIps
  BY <1>11 DEF SetupLink, SameSlots, SameIps, sessVars, lockVars, reqVars, poolVars, Goto, Thread, Sweeper
<1>12. ASSUME NEW c \in Req, StartClose(c) PROVE SameSlots /\ SameIps
  BY <1>12 DEF StartClose, SameSlots, SameIps, sessVars, lockVars, reqVars, poolVars, Goto, Thread, Sweeper
<1>13. ASSUME NEW r \in Req, Disconnect(r) PROVE SameSlots /\ SameIps
  BY <1>13 DEF Disconnect, EnterCloseSess, SameSlots, SameIps, sessVars, lockVars, reqVars, poolVars, Goto, Thread, Sweeper
<1>14. ASSUME NEW r \in Req, ConnGone(r) PROVE SameSlots /\ SameIps
  BY <1>14 DEF ConnGone, SameSlots, SameIps, sessVars, lockVars, reqVars, poolVars, Goto, Thread, Sweeper
<1>15. ASSUME NEW c \in Req, ReleaseIp(c) PROVE DropIp(c) /\ SameSlots
  BY <1>15 DEF ReleaseIp, DropIp, SameSlots, sessVars, lockVars, reqVars, poolVars, Goto, Thread, Sweeper
<1>16. ASSUME NEW c \in Req, ReleaseSlot(c) PROVE DropSlot(c) /\ SameIps
  BY <1>16 DEF ReleaseSlot, DropSlot, SameIps, sessVars, lockVars, reqVars, poolVars, Goto, Thread, Sweeper
<1>17. ASSUME NEW th \in Thread, CallClose(th) PROVE SameSlots /\ SameIps
  BY <1>17 DEF CallClose, SameSlots, SameIps, sessVars, lockVars, reqVars, poolVars, Goto, Thread, Sweeper
<1>18. ASSUME NEW th \in Thread, CloseReturn(th) PROVE SameSlots /\ SameIps
  BY <1>18 DEF CloseReturn, SameSlots, SameIps, sessVars, lockVars, reqVars, poolVars, Goto, Thread, Sweeper
<1>19. ASSUME NEW th \in Thread, PanicRecovered(th) PROVE SameSlots /\ SameIps
  BY <1>19 DEF PanicRecovered, SameSlots, SameIps, sessVars, lockVars, reqVars, poolVars, Goto, Thread, Sweeper
<1>20. ASSUME NEW th \in Thread, PanicRestart(th) PROVE Restarted
  BY <1>20 DEF PanicRestart, Restarted, sessVars, lockVars, reqVars, poolVars, Goto, Thread, Sweeper
<1>21. ASSUME NEW x \in Admin, NEW t \in Token, Offline(x, t) PROVE SameSlots /\ SameIps
  BY <1>21 DEF Offline, EnterCloseSess, SameSlots, SameIps, sessVars, lockVars, reqVars, poolVars, Goto, Thread, Sweeper
<1>22. ASSUME NEW x \in Admin, NEW t \in Token, Reline(x, t) PROVE SameSlots /\ SameIps
  BY <1>22 DEF Reline, SameSlots, SameIps, sessVars, lockVars, reqVars, poolVars, Goto, Thread, Sweeper
<1>23. ASSUME NEW j \in Reaper, ScanExpired(j) PROVE SameSlots /\ SameIps
  BY <1>23 DEF ScanExpired, SameSlots, SameIps, sessVars, lockVars, reqVars, poolVars, Goto, Thread, Sweeper
<1>24. ASSUME NEW j \in Expirer, ScanLimittime(j) PROVE SameSlots /\ SameIps
  BY <1>24 DEF ScanLimittime, SameSlots, SameIps, sessVars, lockVars, reqVars, poolVars, Goto, Thread, Sweeper
<1>25. ASSUME NEW j \in Sweeper, NEW t \in Token, SweepOne(j, t) PROVE SameSlots /\ SameIps
  BY <1>25 DEF SweepOne, EnterCloseSess, SameSlots, SameIps, sessVars, lockVars, reqVars, poolVars, Goto, Thread, Sweeper
<1>26. ASSUME NEW x \in Admin, List(x) PROVE SameSlots /\ SameIps
  BY <1>26 DEF List, SameSlots, SameIps, sessVars, lockVars, reqVars, poolVars
<1>27. ASSUME NEW x \in Admin, ListEnds(x) PROVE SameSlots /\ SameIps
  BY <1>27 DEF ListEnds, SameSlots, SameIps, sessVars, lockVars, reqVars, poolVars
<1>28. ASSUME NEW x \in Admin, NEW t \in Token, ListPanics(x, t) PROVE SameSlots /\ SameIps
  BY <1>28 DEF ListPanics, SameSlots, SameIps, sessVars, lockVars, reqVars, poolVars
<1>29. CASE UNCHANGED vars
  BY <1>29 DEF vars, sessVars, lockVars, reqVars, poolVars, SameSlots, SameIps, StepKind
<1>30. QED
  BY <1>1, <1>2, <1>3, <1>4, <1>5, <1>6, <1>7, <1>8, <1>9, <1>10, <1>11, <1>12, <1>13, <1>14, <1>15, <1>16, <1>17, <1>18, <1>19, <1>20, <1>21, <1>22, <1>23, <1>24, <1>25, <1>26, <1>27, <1>28, <1>29,
     CalledConn DEF Next, IoClose, DeferredClose, StepKind

-----------------------------------------------------------------------------
(* Addresses.                                                              *)

LEMMA IpExclusiveStep ==
  ASSUME TInv, IpExclusive, [Next]_vars PROVE IpExclusive'
<1>1. StepKind
  BY StepKinds
<1>2. CASE SameIps
  BY <1>2 DEF SameIps, IpExclusive
<1>3. ASSUME NEW r \in Req, NEW a \in Ip, GrantIp(r, a) PROVE IpExclusive'
  BY <1>3 DEF GrantIp, IpExclusive
<1>4. ASSUME NEW r \in Req, DropIp(r) PROVE IpExclusive'
  BY <1>4 DEF DropIp, IpExclusive
<1>5. CASE Restarted
  BY <1>5 DEF Restarted, IpExclusive
<1>6. QED
  BY <1>1, <1>2, <1>3, <1>4, <1>5 DEF StepKind

THEOREM AddressesExclusive == Spec => []IpExclusive
<1>1. Init => IpExclusive
  BY DEF Init, IpExclusive, HoldsIp
<1>2. TInv /\ IpExclusive /\ [Next]_vars => TInv' /\ IpExclusive'
  BY TInvStep, IpExclusiveStep
<1>3. QED
  BY TInvInit, <1>1, <1>2, PTL DEF Spec

-----------------------------------------------------------------------------
(* Slots.                                                                  *)

LEMMA HoldersFinite ==
  /\ IsFiniteSet(SlotHolders)
  /\ \A u \in User : IsFiniteSet(SlotsOfUser(u))
BY SessionAssumption, FS_Subset DEF SlotHolders, SlotsOfUser

LEMMA SlotStep ==
  ASSUME TInv, SlotAccount, Limits, [Next]_vars
  PROVE  SlotAccount' /\ Limits'
<1> USE SessionAssumption
<1>1. StepKind
  BY StepKinds
<1>2. CASE SameSlots
  <2>1. SlotHolders' = SlotHolders
    BY <1>2 DEF SameSlots, SlotHolders
  <2>2. ASSUME NEW u \in User PROVE SlotsOfUser(u)' = SlotsOfUser(u)
    BY <1>2, <2>1 DEF SameSlots, SlotHolders, SlotsOfUser
  <2>3. QED
    BY <1>2, <2>1, <2>2 DEF SameSlots, SlotAccount, Limits
<1>3. ASSUME NEW r \in Req, GrantSlot(r) PROVE SlotAccount' /\ Limits'
  <2>1. UserOf[tok[r]] \in User
    BY <1>3 DEF GrantSlot
  <2>2. SlotHolders' = SlotHolders \cup {r} /\ r \notin SlotHolders
    BY <1>3 DEF GrantSlot, SlotHolders
  <2>3. Cardinality(SlotHolders') = Cardinality(SlotHolders) + 1
    BY <2>2, HoldersFinite, FS_AddElement
  <2>4. ASSUME NEW u \in User
        PROVE Cardinality(SlotsOfUser(u)') =
                Cardinality(SlotsOfUser(u)) + IF u = UserOf[tok[r]] THEN 1 ELSE 0
    <3>1. CASE u = UserOf[tok[r]]
      <4>1. SlotsOfUser(u)' = SlotsOfUser(u) \cup {r} /\ r \notin SlotsOfUser(u)
        BY <1>3, <2>2, <3>1 DEF GrantSlot, SlotsOfUser
      <4>2. QED
        BY <3>1, <4>1, HoldersFinite, FS_AddElement
    <3>2. CASE u # UserOf[tok[r]]
      <4>1. SlotsOfUser(u)' = SlotsOfUser(u)
        BY <1>3, <2>2, <3>2 DEF GrantSlot, SlotsOfUser
      <4>2. Cardinality(SlotsOfUser(u)) \in Nat
        BY HoldersFinite, FS_CardinalityType
      <4>3. QED
        BY <3>2, <4>1, <4>2
    <3>3. QED BY <3>1, <3>2
  <2>5. /\ limitClient'[AllKey] = limitClient[AllKey] + 1
        /\ \A u \in User : limitClient'[u] =
             limitClient[u] + IF u = UserOf[tok[r]] THEN 1 ELSE 0
    BY <1>3, <2>1 DEF GrantSlot, AddSlot, TInv, TypeOK
  <2>6. /\ limitClient[AllKey] < MaxClient
        /\ limitClient[UserOf[tok[r]]] < MaxUserClient
        /\ limitClient[AllKey] \in Int /\ \A u \in User : limitClient[u] \in Int
    BY <1>3 DEF GrantSlot, TInv, TypeOK
  <2>7. SlotAccount'
    BY <2>3, <2>4, <2>5 DEF SlotAccount
  <2>8. Cardinality(SlotHolders') <= MaxClient
    BY <2>3, <2>6 DEF SlotAccount
  <2>9. ASSUME NEW u \in User PROVE Cardinality(SlotsOfUser(u)') <= MaxUserClient
    BY <2>1, <2>4, <2>6 DEF SlotAccount, Limits
  <2>10. QED
    BY <2>7, <2>8, <2>9 DEF Limits
<1>4. ASSUME NEW r \in Req, DropSlot(r) PROVE SlotAccount' /\ Limits'
  <2>1. UserOf[tok[r]] \in User
    BY <1>4 DEF DropSlot
  <2>2. SlotHolders' = SlotHolders \ {r} /\ r \in SlotHolders
    BY <1>4 DEF DropSlot, SlotHolders
  <2>3. Cardinality(SlotHolders') = Cardinality(SlotHolders) - 1
    BY <2>2, HoldersFinite, FS_RemoveElement
  <2>4. ASSUME NEW u \in User
        PROVE Cardinality(SlotsOfUser(u)') =
                Cardinality(SlotsOfUser(u)) + IF u = UserOf[tok[r]] THEN -1 ELSE 0
    <3>0. Cardinality(SlotsOfUser(u)) \in Nat
      BY HoldersFinite, FS_CardinalityType
    <3>1. CASE u = UserOf[tok[r]]
      <4>1. SlotsOfUser(u)' = SlotsOfUser(u) \ {r} /\ r \in SlotsOfUser(u)
        BY <1>4, <2>2, <3>1 DEF DropSlot, SlotsOfUser, SlotHolders
      <4>2. Cardinality(SlotsOfUser(u)') = Cardinality(SlotsOfUser(u)) - 1
        BY <4>1, HoldersFinite, FS_RemoveElement
      <4>3. QED
        BY <3>0, <3>1, <4>2
    <3>2. CASE u # UserOf[tok[r]]
      <4>1. SlotsOfUser(u)' = SlotsOfUser(u)
        BY <1>4, <2>2, <3>2 DEF DropSlot, SlotsOfUser, SlotHolders
      <4>2. QED
        BY <3>0, <3>2, <4>1
    <3>3. QED BY <3>1, <3>2
  <2>5. /\ limitClient'[AllKey] = limitClient[AllKey] - 1
        /\ \A u \in User : limitClient'[u] =
             limitClient[u] + IF u = UserOf[tok[r]] THEN -1 ELSE 0
    BY <1>4, <2>1 DEF DropSlot, AddSlot, TInv, TypeOK
  <2>6. SlotAccount'
    BY <2>3, <2>4, <2>5 DEF SlotAccount
  <2>7. Cardinality(SlotHolders) \in Nat
    BY HoldersFinite, FS_CardinalityType
  <2>8. ASSUME NEW u \in User PROVE Cardinality(SlotsOfUser(u)) \in Nat
    BY HoldersFinite, FS_CardinalityType
  <2>9. QED
    BY <2>3, <2>4, <2>6, <2>7, <2>8 DEF Limits
<1>5. CASE Restarted
  <2>1. SlotHolders' = {} /\ \A u \in User : SlotsOfUser(u)' = {}
    BY <1>5 DEF Restarted, SlotHolders, SlotsOfUser
  <2>2. Cardinality(SlotHolders') = 0 /\ \A u \in User : Cardinality(SlotsOfUser(u)') = 0
    BY <2>1, FS_EmptySet
  <2>3. \A k \in User \cup {AllKey} : limitClient'[k] = 0
    BY <1>5 DEF Restarted
  <2>4. QED
    BY <2>2, <2>3 DEF SlotAccount, Limits
<1>6. QED
  BY <1>1, <1>2, <1>3, <1>4, <1>5 DEF StepKind

LEMMA SlotInit == Init => SlotAccount /\ Limits
<1> SUFFICES ASSUME Init PROVE SlotAccount /\ Limits
  OBVIOUS
<1>1. SlotHolders = {} /\ \A u \in User : SlotsOfUser(u) = {}
  BY DEF Init, SlotHolders, SlotsOfUser, HoldsSlot
<1>2. Cardinality(SlotHolders) = 0 /\ \A u \in User : Cardinality(SlotsOfUser(u)) = 0
  BY <1>1, FS_EmptySet
<1>3. \A k \in User \cup {AllKey} : limitClient[k] = 0
  BY DEF Init
<1>4. QED
  BY <1>2, <1>3, SessionAssumption DEF SlotAccount, Limits

THEOREM SlotsCounted == Spec => []SlotAccount
<1>1. TInv /\ SlotAccount /\ Limits /\ [Next]_vars => TInv' /\ SlotAccount' /\ Limits'
  BY TInvStep, SlotStep
<1>2. QED
  BY TInvInit, SlotInit, <1>1, PTL DEF Spec

THEOREM LimitsHold == Spec => []Limits
<1>1. TInv /\ SlotAccount /\ Limits /\ [Next]_vars => TInv' /\ SlotAccount' /\ Limits'
  BY TInvStep, SlotStep
<1>2. QED
  BY TInvInit, SlotInit, <1>1, PTL DEF Spec

-----------------------------------------------------------------------------
(* The connection a session points to.                                     *)

LEMMA PublishedStep ==
  ASSUME TInv, PublishedIsOpen, [Next]_vars PROVE PublishedIsOpen'
<1> USE SessionAssumption DEF TInv, TypeOK, ControlInv, PublishedIsOpen
<1>1. ASSUME NEW t \in Token, NewSession(t) PROVE PublishedIsOpen'
  BY <1>1 DEF NewSession, sessVars, lockVars, reqVars, poolVars, Goto
<1>2. ASSUME NEW t \in Token, Age(t) PROVE PublishedIsOpen'
  BY <1>2 DEF Age, sessVars, lockVars, reqVars, poolVars, Goto
<1>3. ASSUME NEW r \in Req, NEW t \in Token, Lookup(r, t) PROVE PublishedIsOpen'
  BY <1>3 DEF Lookup, sessVars, lockVars, reqVars, poolVars, Goto
<1>4. ASSUME NEW r \in Req, ReadActive(r) PROVE PublishedIsOpen'
  BY <1>4 DEF ReadActive, sessVars, lockVars, reqVars, poolVars, Goto
<1>5. ASSUME NEW r \in Req, CloseOld(r) PROVE PublishedIsOpen'
  BY <1>5 DEF CloseOld, sessVars, lockVars, reqVars, poolVars, Goto
<1>6. ASSUME NEW r \in Req, TakeSlot(r) PROVE PublishedIsOpen'
  BY <1>6 DEF TakeSlot, sessVars, lockVars, reqVars, poolVars, Goto
<1>7. ASSUME NEW r \in Req, NoIp(r) PROVE PublishedIsOpen'
  BY <1>7 DEF NoIp, sessVars, lockVars, reqVars, poolVars, Goto
<1>8. ASSUME NEW r \in Req, NEW a \in Ip, TakeIp(r, a) PROVE PublishedIsOpen'
  BY <1>8 DEF TakeIp, sessVars, lockVars, reqVars, poolVars, Goto
<1>9. ASSUME NEW r \in Req, GroupLookup(r) PROVE PublishedIsOpen'
  BY <1>9 DEF GroupLookup, sessVars, lockVars, reqVars, poolVars, Goto
<1>10. ASSUME NEW r \in Req, Publish(r) PROVE PublishedIsOpen'
  BY <1>10 DEF Publish, sessVars, lockVars, reqVars, poolVars, Goto
<1>11. ASSUME NEW r \in Req, SetupLink(r) PROVE PublishedIsOpen'
  BY <1>11 DEF SetupLink, sessVars, lockVars, reqVars, poolVars, Goto
<1>12. ASSUME NEW c \in Req, StartClose(c) PROVE PublishedIsOpen'
  BY <1>12 DEF StartClose, sessVars, lockVars, reqVars, poolVars, Goto
<1>13. ASSUME NEW r \in Req, Disconnect(r) PROVE PublishedIsOpen'
  BY <1>13 DEF Disconnect, EnterCloseSess, sessVars, lockVars, reqVars, poolVars, Goto
<1>14. ASSUME NEW r \in Req, ConnGone(r) PROVE PublishedIsOpen'
  BY <1>14 DEF ConnGone, sessVars, lockVars, reqVars, poolVars, Goto
<1>15. ASSUME NEW c \in Req, ReleaseIp(c) PROVE PublishedIsOpen'
  BY <1>15 DEF ReleaseIp, sessVars, lockVars, reqVars, poolVars, Goto
<1>16. ASSUME NEW c \in Req, ReleaseSlot(c) PROVE PublishedIsOpen'
  BY <1>16 DEF ReleaseSlot, sessVars, lockVars, reqVars, poolVars, Goto
<1>17. ASSUME NEW th \in Thread, CallClose(th) PROVE PublishedIsOpen'
  BY <1>17 DEF CallClose, sessVars, lockVars, reqVars, poolVars, Goto
<1>18. ASSUME NEW th \in Thread, CloseReturn(th) PROVE PublishedIsOpen'
  BY <1>18 DEF CloseReturn, sessVars, lockVars, reqVars, poolVars, Goto
<1>19. ASSUME NEW th \in Thread, PanicRecovered(th) PROVE PublishedIsOpen'
  BY <1>19 DEF PanicRecovered, sessVars, lockVars, reqVars, poolVars, Goto
<1>20. ASSUME NEW th \in Thread, PanicRestart(th) PROVE PublishedIsOpen'
  BY <1>20 DEF PanicRestart, sessVars, lockVars, reqVars, poolVars, Goto
<1>21. ASSUME NEW x \in Admin, NEW t \in Token, Offline(x, t) PROVE PublishedIsOpen'
  BY <1>21 DEF Offline, EnterCloseSess, sessVars, lockVars, reqVars, poolVars, Goto
<1>22. ASSUME NEW x \in Admin, NEW t \in Token, Reline(x, t) PROVE PublishedIsOpen'
  BY <1>22 DEF Reline, sessVars, lockVars, reqVars, poolVars, Goto
<1>23. ASSUME NEW j \in Reaper, ScanExpired(j) PROVE PublishedIsOpen'
  BY <1>23 DEF ScanExpired, sessVars, lockVars, reqVars, poolVars, Goto
<1>24. ASSUME NEW j \in Expirer, ScanLimittime(j) PROVE PublishedIsOpen'
  BY <1>24 DEF ScanLimittime, sessVars, lockVars, reqVars, poolVars, Goto
<1>25. ASSUME NEW j \in Sweeper, NEW t \in Token, SweepOne(j, t) PROVE PublishedIsOpen'
  BY <1>25 DEF SweepOne, EnterCloseSess, sessVars, lockVars, reqVars, poolVars, Goto
<1>26. ASSUME NEW x \in Admin, List(x) PROVE PublishedIsOpen'
  BY <1>26 DEF List, sessVars, lockVars, reqVars, poolVars
<1>27. ASSUME NEW x \in Admin, ListEnds(x) PROVE PublishedIsOpen'
  BY <1>27 DEF ListEnds, sessVars, lockVars, reqVars, poolVars
<1>28. ASSUME NEW x \in Admin, NEW t \in Token, ListPanics(x, t) PROVE PublishedIsOpen'
  BY <1>28 DEF ListPanics, sessVars, lockVars, reqVars, poolVars
<1>29. CASE UNCHANGED vars
  BY <1>29 DEF vars, sessVars, lockVars, reqVars, poolVars
<1>30. QED
  BY <1>1, <1>2, <1>3, <1>4, <1>5, <1>6, <1>7, <1>8, <1>9, <1>10, <1>11, <1>12, <1>13, <1>14, <1>15, <1>16, <1>17, <1>18, <1>19, <1>20, <1>21, <1>22, <1>23, <1>24, <1>25, <1>26, <1>27, <1>28, <1>29,
     CalledConn DEF Next, IoClose, DeferredClose

THEOREM PublishedOpen == Spec => []PublishedIsOpen
<1>1. Init => PublishedIsOpen
  BY DEF Init, PublishedIsOpen
<1>2. TInv /\ PublishedIsOpen /\ [Next]_vars => TInv' /\ PublishedIsOpen'
  BY TInvStep, PublishedStep
<1>3. QED
  BY TInvInit, <1>1, <1>2, PTL DEF Spec

-----------------------------------------------------------------------------
(* Refinement of Admission.                                                *)

LEMMA OwnerSets ==
  ASSUME TInv
  PROVE  /\ Promise!Admitted = SlotHolders
         /\ \A u \in User : Promise!AdmittedOf(u) = SlotsOfUser(u)
<1>1. \A c \in Req : HoldsSlot(c) => UserOf[tok[c]] \in User /\ UserOf[tok[c]] # NULL
  BY SessionAssumption DEF TInv, TypeOK, ControlInv, HoldsSlot
<1>2. QED
  BY <1>1, SessionAssumption
  DEF Promise!Admitted, Promise!AdmittedOf, slotOwner, SlotHolders, SlotsOfUser

\* The two names of one library operator.
LEMMA SameCardinality == ASSUME NEW S PROVE Promise!Cardinality(S) = Cardinality(S)
BY Zenon DEF Promise!Cardinality, Cardinality

LEMMA AdmissionStep ==
  ASSUME TInv, IpExclusive, SlotAccount, [Next]_vars
  PROVE  [Promise!Next]_(Promise!vars)
<1> USE SessionAssumption
<1>1. StepKind
  BY StepKinds
<1>2. ASSUME SameSlots PROVE slotOwner' = slotOwner
  BY <1>2 DEF SameSlots, slotOwner
<1>3. ASSUME SameIps PROVE heldIp' = heldIp
  BY <1>3 DEF SameIps, heldIp
<1>4. ASSUME NEW r \in Req, GrantSlot(r), SameIps PROVE Promise!Next
  <2>1. UserOf[tok[r]] \in User
    BY <1>4 DEF GrantSlot
  <2>2. slotOwner[r] = NULL /\ slotOwner' = [slotOwner EXCEPT ![r] = UserOf[tok[r]]]
    BY <1>4 DEF GrantSlot, slotOwner
  <2>3. Cardinality(Promise!Admitted) < MaxClient
    BY <1>4, OwnerSets DEF GrantSlot, SlotAccount
  <2>4. Cardinality(Promise!AdmittedOf(UserOf[tok[r]])) < MaxUserClient
    BY <1>4, <2>1, OwnerSets DEF GrantSlot, SlotAccount
  <2>5. UNCHANGED heldIp
    BY <1>3, <1>4
  <2>6. Promise!Admit(r, UserOf[tok[r]])
    BY <2>2, <2>3, <2>4, <2>5, SameCardinality DEF Promise!Admit
  <2>7. QED
    BY <2>1, <2>6 DEF Promise!Next
<1>5. ASSUME NEW r \in Req, DropSlot(r), SameIps PROVE Promise!Next
  <2>1. slotOwner[r] # NULL /\ heldIp[r] = NULL
    BY <1>5 DEF DropSlot, slotOwner, heldIp
  <2>2. slotOwner' = [slotOwner EXCEPT ![r] = NULL]
    BY <1>5 DEF DropSlot, slotOwner
  <2>3. Promise!ReturnSlot(r)
    BY <1>3, <1>5, <2>1, <2>2 DEF Promise!ReturnSlot
  <2>4. QED
    BY <2>3 DEF Promise!Next
<1>6. ASSUME NEW r \in Req, NEW a \in Ip, GrantIp(r, a), SameSlots PROVE Promise!Next
  <2>1. slotOwner[r] # NULL /\ heldIp[r] = NULL
    <3>1. tok[r] \in Token
      BY <1>6 DEF GrantIp, HoldsSlot, TInv, ControlInv
    <3>2. QED
      BY <1>6, <3>1 DEF GrantIp, slotOwner, heldIp
  <2>2. \A d \in Req : heldIp[d] # a
    BY <1>6 DEF GrantIp, heldIp, IpExclusive
  <2>3. heldIp' = [heldIp EXCEPT ![r] = a]
    BY <1>6 DEF GrantIp, heldIp
  <2>4. Promise!Lease(r, a)
    BY <1>2, <1>6, <2>1, <2>2, <2>3 DEF Promise!Lease
  <2>5. QED
    BY <2>4 DEF Promise!Next
<1>7. ASSUME NEW r \in Req, DropIp(r), SameSlots PROVE Promise!Next
  <2>1. heldIp[r] # NULL
    BY <1>7 DEF DropIp, heldIp, TInv, ControlInv
  <2>2. heldIp' = [heldIp EXCEPT ![r] = NULL]
    BY <1>7 DEF DropIp, heldIp
  <2>3. Promise!ReturnIp(r)
    BY <1>2, <1>7, <2>1, <2>2 DEF Promise!ReturnIp
  <2>4. QED
    BY <2>3 DEF Promise!Next
<1>8. CASE Restarted
  BY <1>8 DEF Restarted, slotOwner, heldIp, Promise!Next, Promise!Restart
<1>9. QED
  BY <1>1, <1>2, <1>3, <1>4, <1>5, <1>6, <1>7, <1>8 DEF StepKind, Promise!vars

THEOREM Implements == Spec => ImplementsAdmission
<1>1. Init => Promise!Init
  BY DEF Init, Promise!Init, slotOwner, heldIp, HoldsSlot, HoldsIp
<1>2. Init => IpExclusive
  BY DEF Init, IpExclusive, HoldsIp
<1>3. TInv /\ IpExclusive /\ SlotAccount /\ Limits /\ [Next]_vars
        => TInv' /\ IpExclusive' /\ SlotAccount' /\ Limits'
  BY TInvStep, IpExclusiveStep, SlotStep
<1>4. TInv /\ IpExclusive /\ SlotAccount /\ [Next]_vars => [Promise!Next]_(Promise!vars)
  BY AdmissionStep
<1>5. QED
  BY TInvInit, SlotInit, <1>1, <1>2, <1>3, <1>4, PTL
  DEF Spec, ImplementsAdmission, Promise!Spec
=============================================================================
