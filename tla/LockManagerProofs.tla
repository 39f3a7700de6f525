------------------------- MODULE LockManagerProofs -------------------------
(***************************************************************************)
(* Proofs about LockManager: types, the agreement of locks and counts, the *)
(* bound on counted failures, and that locks are kept.                     *)
(***************************************************************************)
EXTENDS LockManager, FiniteSetTheorems, TLAPS

(***************************************************************************)
(* Time starts at 1, so 0 marks a time never set: a login in progress has  *)
(* read the clock, and a locked record has a last failure.  What a login    *)
(* read is not ahead of the clock.                                         *)
(***************************************************************************)
ClockInv ==
  /\ now >= 1
  /\ \A l \in Login : at[l] <= now
  /\ \A l \in Login : pc[l] # "idle" => /\ at[l] >= 1
                                        /\ who[l] \in [user : User \cup {NoUser}, ip : Ip]
  /\ \A k \in Key : locks[k].locked => locks[k].last >= 1

TInv == TypeOK /\ ClockInv

-----------------------------------------------------------------------------
(* Type correctness.                                                       *)

\* What the operations on one record return.
LEMMA UnlockType ==
  ASSUME NEW s \in LockState
  PROVE  /\ Unlock(s) \in LockState
         /\ Unlock(s).locked = FALSE /\ Unlock(s).count = 0 /\ Unlock(s).until = 0
         /\ Unlock(s).last = s.last
BY DEF LockState, Unlock

LEMMA SucceededType ==
  ASSUME NEW s \in LockState, NEW t \in Nat
  PROVE  /\ Succeeded(s, t) \in LockState
         /\ Succeeded(s, t).locked = FALSE /\ Succeeded(s, t).count = 0
         /\ Succeeded(s, t).until = 0 /\ Succeeded(s, t).last = t
BY DEF LockState, Unlock, Succeeded

LEMMA FailedType ==
  ASSUME NEW k \in Key, NEW s \in LockState, NEW t \in Nat
  PROVE  /\ Failed(k, s, t) \in LockState
         /\ Failed(k, s, t).count = s.count + 1 /\ Failed(k, s, t).last = t
         /\ IF s.count + 1 >= Max[k.kind]
            THEN Failed(k, s, t).locked /\ Failed(k, s, t).until = t + LockTime[k.kind]
            ELSE Failed(k, s, t).locked = s.locked /\ Failed(k, s, t).until = s.until
<1>1. k.kind \in Kind
  BY DEF Key, Kind
<1>2. LockTime[k.kind] \in Nat /\ Max[k.kind] \in Nat
  BY <1>1, LockAssumption
<1> DEFINE m == Max[k.kind]
           z == LockTime[k.kind]
<1>3. m \in Nat /\ z \in Nat
  BY <1>2
<1>4. Failed(k, s, t) = IF s.count + 1 >= m
        THEN [locked |-> TRUE, count |-> s.count + 1, until |-> t + z, last |-> t]
        ELSE [s EXCEPT !.count = s.count + 1, !.last = t]
  BY DEF Failed
<1> HIDE DEF m, z
<1>5. CASE s.count + 1 >= m
  BY <1>3, <1>4, <1>5 DEF LockState, m, z
<1>6. CASE ~(s.count + 1 >= m)
  <2> DEFINE r == Failed(k, s, t)
             n == s.count + 1
  <2>1. r = [s EXCEPT !.count = n, !.last = t] /\ n \in Nat
    BY <1>4, <1>6 DEF LockState
  <2> HIDE DEF r, n
  <2>2. /\ r \in LockState /\ r.count = n /\ r.last = t
        /\ r.locked = s.locked /\ r.until = s.until
    BY <2>1 DEF LockState
  <2> QED BY <2>2, <1>6 DEF r, n, m
<1> QED BY <1>5, <1>6

\* A check forgets a lock that is over, or a count whose window is, or nothing.
LEMMA CheckedCases ==
  ASSUME NEW k \in Key, NEW s \in LockState, NEW t \in Nat
  PROVE  \/ s.last # 0 /\ Over(s, t) /\ Checked(k, s, t) = Unlock(s)
         \/ s.last # 0 /\ ~Over(s, t) /\ Forgets(k, s, t) /\ Checked(k, s, t) = [s EXCEPT !.count = 0]
         \/ Checked(k, s, t) = s /\ (s.last = 0 \/ (~Over(s, t) /\ ~Forgets(k, s, t)))
BY DEF Checked

LEMMA CheckedType ==
  ASSUME NEW k \in Key, NEW s \in LockState, NEW t \in Nat
  PROVE  /\ Checked(k, s, t) \in LockState
         /\ Checked(k, s, t).last = s.last
         /\ Checked(k, s, t).locked => s.locked
<1> DEFINE r == Checked(k, s, t)
<1>1. r = Unlock(s) \/ r = [s EXCEPT !.count = 0] \/ r = s
  BY CheckedCases
<1>2. CASE r = Unlock(s)
  BY <1>2, UnlockType
<1>3. CASE r = [s EXCEPT !.count = 0]
  <2> HIDE DEF r
  <2>1. r \in LockState /\ r.last = s.last /\ r.locked = s.locked
    BY <1>3 DEF LockState
  <2> QED BY <2>1 DEF r
<1>4. CASE r = s
  BY <1>4
<1> QED BY <1>1, <1>2, <1>3, <1>4

LEMMA FreshType == Fresh \in LockState /\ Fresh.locked = FALSE /\ Fresh.count = 0 /\ Fresh.until = 0
BY DEF Fresh, LockState

LEMMA TInvInit == Init => TInv
BY FreshType, LockAssumption DEF Init, TInv, TypeOK, ClockInv

LEMMA TInvStep == ASSUME TInv, [Next]_vars PROVE TInv'
<1> USE LockAssumption DEF TInv, TypeOK, ClockInv
<1>1. CASE Tick
  BY <1>1 DEF Tick
<1>2. ASSUME NEW l \in Login, NEW u \in User \cup {NoUser}, NEW a \in Ip, Begin(l, u, a)
      PROVE  TInv'
  <2>1. KeysOf([user |-> u, ip |-> a]) \in SUBSET Key
    BY DEF KeysOf
  <2> QED BY <1>2, <2>1 DEF Begin
<1>3. ASSUME NEW l \in Login, NEW k \in Key, CheckKey(l, k) PROVE TInv'
  <2>1. locks[k] \in LockState /\ at[l] \in Nat
    OBVIOUS
  <2>2. CASE Enabled(k) /\ Barred(k, locks[k], at[l])
    BY <1>3, <2>2 DEF CheckKey, End
  <2>3. CASE ~(Enabled(k) /\ Barred(k, locks[k], at[l]))
    <3>1. locks' \in [Key -> LockState] /\ \A j \in Key : locks'[j].locked => locks'[j].last >= 1
      <4>1. CASE Enabled(k)
        <5> DEFINE r == Checked(k, locks[k], at[l])
        <5>1. locks' = [locks EXCEPT ![k] = r]
          BY <1>3, <2>3, <4>1 DEF CheckKey
        <5>2. r \in LockState /\ r.last = locks[k].last /\ (r.locked => locks[k].locked)
          BY <2>1, CheckedType
        <5> HIDE DEF r
        <5> QED BY <5>1, <5>2
      <4>2. CASE ~Enabled(k)
        BY <1>3, <2>3, <4>2 DEF CheckKey
      <4> QED BY <4>1, <4>2
    <3>2. /\ passed' = [passed EXCEPT ![l] = @ \cup {k}]
          /\ UNCHANGED <<now, pc, who, at>> /\ pc[l] = "check"
      BY <1>3, <2>3 DEF CheckKey
    <3> QED BY <3>1, <3>2
  <2> QED BY <2>2, <2>3
<1>4. ASSUME NEW l \in Login, Verify(l) PROVE TInv'
  BY <1>4 DEF Verify
<1>5. ASSUME NEW l \in Login, NEW k \in Key, Update(l, k) PROVE TInv'
  <2>1. locks[k] \in LockState /\ at[l] \in Nat /\ at[l] >= 1
    BY <1>5 DEF Update
  <2>2. locks' \in [Key -> LockState] /\ \A j \in Key : locks'[j].locked => locks'[j].last >= 1
    <3>1. CASE pc[l] = "good"
      <4>1. locks' = [locks EXCEPT ![k] = Succeeded(locks[k], at[l])]
        BY <1>5, <3>1 DEF Update
      <4> QED BY <4>1, <2>1, SucceededType
    <3>2. CASE pc[l] = "bad"
      <4> DEFINE r == Failed(k, locks[k], at[l])
      <4>1. locks' = [locks EXCEPT ![k] = r]
        BY <1>5, <3>2 DEF Update
      <4>2. ASSUME NEW s \in LockState, NEW t \in Nat
            PROVE  Failed(k, s, t) \in LockState /\ Failed(k, s, t).last = t
        BY FailedType
      <4>3. r \in LockState /\ r.last = at[l]
        BY <2>1, <4>2
      <4> HIDE DEF r
      <4> QED BY <4>1, <4>3, <2>1
    <3> QED BY <1>5, <3>1, <3>2 DEF Update
  <2>3. CASE passed[l] = {k}
    BY <1>5, <2>2, <2>3 DEF Update, End
  <2>4. CASE passed[l] # {k}
    BY <1>5, <2>2, <2>4 DEF Update
  <2> QED BY <2>3, <2>4
<1>6. CASE Cleanup
  BY <1>6, FreshType DEF Cleanup
<1>7. ASSUME NEW k \in Key, UnlockUser(k) PROVE TInv'
  <2>1. locks' = [locks EXCEPT ![k] = Unlock(locks[k])] /\ UNCHANGED <<now, pc, who, at, passed>>
    BY <1>7 DEF UnlockUser
  <2> QED BY <2>1, UnlockType
<1>8. CASE UNCHANGED vars
  BY <1>8 DEF vars
<1> QED BY <1>1, <1>2, <1>3, <1>4, <1>5, <1>6, <1>7, <1>8 DEF Next

\* Every variable keeps its type, and a login that is over reports nothing more
\* (the three Update functions are called for each login at most once).
THEOREM TypeCorrect == Spec => []TypeOK
<1>1. TInv => TypeOK
  BY DEF TInv
<1> QED BY TInvInit, TInvStep, <1>1, PTL DEF Spec

-----------------------------------------------------------------------------
(* What a step may do to one record.                                       *)

CheckStep(k) == \E l \in Login :
  /\ CheckKey(l, k) /\ Enabled(k) /\ ~Barred(k, locks[k], at[l])
  /\ pc[l] # "idle"
  /\ locks'[k] = Checked(k, locks[k], at[l])
  /\ passed' = [passed EXCEPT ![l] = @ \cup {k}]

UpdateStep(k) == \E l \in Login :
  /\ Update(l, k) /\ k \in passed[l] /\ pc[l] # "idle"
  /\ passed' = [passed EXCEPT ![l] = @ \ {k}]
  /\ \/ pc[l] = "good" /\ locks'[k] = Succeeded(locks[k], at[l])
     \/ pc[l] = "bad" /\ locks'[k] = Failed(k, locks[k], at[l])

CleanupStep(k) ==
  /\ locks'[k] = Fresh
  /\ ~Barred(k, locks[k], now) \/ now - locks[k].last > Expiration
  /\ UNCHANGED <<now, passed>>

UnlockStep(k) == UnlockUser(k) /\ locks'[k] = Unlock(locks[k]) /\ UNCHANGED <<now, passed>>

\* The record stays, and no login passes its check that had not before unless it
\* is one that cannot be refused.
OtherStep(k) ==
  /\ locks'[k] = locks[k]
  /\ \A l \in Login : k \in passed'[l] => k \in passed[l] \/ Exempt(k) \/ ~Enabled(k)

\* A login on the whitelist reports to exempt records only.
LEMMA BeginExempt ==
  ASSUME NEW u \in User \cup {NoUser}, NEW a \in Ip, ~(AntiBruteForce /\ a \notin Whitelist),
         NEW k \in KeysOf([user |-> u, ip |-> a])
  PROVE  Exempt(k)
<1>1. CASE ~AntiBruteForce
  BY <1>1 DEF Exempt
<1>2. CASE a \in Whitelist
  <2>1. k \in Key /\ k.ip \in {a, NULL}
    BY DEF KeysOf
  <2>2. k.kind = "user" \/ k.ip \in Ip
    BY <2>1 DEF Key
  <2> QED BY <1>2, <2>1, <2>2, LockAssumption DEF Exempt
<1> QED BY <1>1, <1>2, LockAssumption

LEMMA RecordStep ==
  ASSUME TInv, [Next]_vars, NEW k \in Key
  PROVE  CheckStep(k) \/ UpdateStep(k) \/ CleanupStep(k) \/ UnlockStep(k) \/ OtherStep(k)
<1> USE DEF TInv, TypeOK
<1>1. CASE Tick
  BY <1>1 DEF Tick, OtherStep
<1>2. ASSUME NEW l \in Login, NEW u \in User \cup {NoUser}, NEW a \in Ip, Begin(l, u, a)
      PROVE  OtherStep(k)
  BY <1>2, BeginExempt DEF Begin, OtherStep
<1>3. ASSUME NEW l \in Login, NEW j \in Key, CheckKey(l, j) PROVE CheckStep(k) \/ OtherStep(k)
  <2>1. CASE Enabled(j) /\ Barred(j, locks[j], at[l])
    BY <1>3, <2>1 DEF CheckKey, OtherStep
  <2>2. CASE ~(Enabled(j) /\ Barred(j, locks[j], at[l])) /\ j # k
    BY <1>3, <2>2 DEF CheckKey, OtherStep
  <2>3. CASE ~(Enabled(j) /\ Barred(j, locks[j], at[l])) /\ j = k
    <3>1. CASE Enabled(k)
      BY <1>3, <2>3, <3>1 DEF CheckKey, CheckStep
    <3>2. CASE ~Enabled(k)
      BY <1>3, <2>3, <3>2 DEF CheckKey, OtherStep
    <3> QED BY <3>1, <3>2
  <2> QED BY <2>1, <2>2, <2>3
<1>4. ASSUME NEW l \in Login, Verify(l) PROVE OtherStep(k)
  BY <1>4 DEF Verify, OtherStep
<1>5. ASSUME NEW l \in Login, NEW j \in Key, Update(l, j) PROVE UpdateStep(k) \/ OtherStep(k)
  <2>1. CASE j = k
    BY <1>5, <2>1 DEF Update, UpdateStep, IsFirst
  <2>2. CASE j # k
    BY <1>5, <2>2 DEF Update, OtherStep
  <2> QED BY <2>1, <2>2
<1>6. CASE Cleanup
  BY <1>6 DEF Cleanup, CleanupStep, OtherStep
<1>7. ASSUME NEW j \in Key, UnlockUser(j) PROVE UnlockStep(k) \/ OtherStep(k)
  BY <1>7 DEF UnlockUser, UnlockStep, OtherStep
<1>8. CASE UNCHANGED vars
  BY <1>8 DEF vars, OtherStep
<1> QED BY <1>1, <1>2, <1>3, <1>4, <1>5, <1>6, <1>7, <1>8 DEF Next

-----------------------------------------------------------------------------
(* Locks and counts.                                                       *)

Consistent(k, s) ==
  /\ s.locked <=> s.count >= Max[k.kind]
  /\ s.locked => s.until = s.last + LockTime[k.kind]
  /\ ~s.locked => s.until = 0

LEMMA Constants ==
  ASSUME NEW k \in Key
  PROVE  /\ Max[k.kind] \in Nat /\ LockTime[k.kind] \in Nat /\ ResetTime[k.kind] \in Nat
         /\ WellConfigured => LockTime[k.kind] <= ResetTime[k.kind] /\ LockTime[k.kind] <= Expiration
<1>1. k.kind \in Kind
  BY DEF Key, Kind
<1> QED BY <1>1, LockAssumption DEF WellConfigured

LEMMA ResetConsistent ==
  ASSUME NEW k \in Key, Enabled(k), NEW s \in LockState,
         s.locked = FALSE, s.count = 0, s.until = 0
  PROVE  Consistent(k, s)
BY Constants DEF Consistent, Enabled

\* A check that does not refuse leaves no lock.
LEMMA CheckedConsistent ==
  ASSUME NEW k \in Key, Enabled(k), NEW s \in LockState, NEW t \in Nat, WellConfigured,
         Consistent(k, s), ~Barred(k, s, t), s.locked => s.last >= 1
  PROVE  Consistent(k, Checked(k, s, t)) /\ ~Checked(k, s, t).locked
<1>0. /\ Max[k.kind] \in Nat /\ Max[k.kind] > 0
      /\ LockTime[k.kind] \in Nat /\ ResetTime[k.kind] \in Nat
      /\ LockTime[k.kind] <= ResetTime[k.kind]
  BY Constants DEF Enabled
<1>1. s.locked => Over(s, t) /\ s.last # 0
  <2> SUFFICES ASSUME s.locked PROVE Over(s, t) /\ s.last # 0
    OBVIOUS
  <2>1. s.until = s.last + LockTime[k.kind] /\ s.last >= 1 /\ s.last \in Nat /\ s.until \in Nat
    BY DEF Consistent, LockState
  <2>2. Over(s, t) \/ Forgets(k, s, t)
    BY <2>1 DEF Barred
  <2>3. Forgets(k, s, t) => Over(s, t)
    BY <2>1, <1>0 DEF Forgets, Over
  <2> QED BY <2>1, <2>2, <2>3
<1>2. CASE Checked(k, s, t) = Unlock(s)
  BY <1>2, UnlockType, ResetConsistent
<1>3. CASE Checked(k, s, t) = [s EXCEPT !.count = 0] /\ ~Over(s, t)
  <2> DEFINE r == Checked(k, s, t)
  <2>1. ~s.locked /\ s.until = 0
    BY <1>1, <1>3 DEF Consistent
  <2>2. r.count = 0 /\ r.locked = s.locked /\ r.until = s.until
    BY <1>3 DEF LockState
  <2> QED BY <2>1, <2>2, <1>0 DEF Consistent
<1>4. CASE Checked(k, s, t) = s /\ (s.last = 0 \/ ~Over(s, t))
  BY <1>1, <1>4
<1> QED BY <1>2, <1>3, <1>4, CheckedCases

LEMMA FailedConsistent ==
  ASSUME NEW k \in Key, NEW s \in LockState, NEW t \in Nat, Consistent(k, s)
  PROVE  Consistent(k, Failed(k, s, t))
<1> DEFINE r == Failed(k, s, t)
<1>1. /\ r \in LockState /\ r.count = s.count + 1 /\ r.last = t
      /\ IF s.count + 1 >= Max[k.kind]
         THEN r.locked /\ r.until = t + LockTime[k.kind]
         ELSE r.locked = s.locked /\ r.until = s.until
  BY FailedType
<1>2. Max[k.kind] \in Nat /\ LockTime[k.kind] \in Nat /\ s.count \in Nat
  BY Constants DEF LockState
<1> HIDE DEF r
<1>3. Consistent(k, r)
  BY <1>1, <1>2 DEF Consistent
<1> QED BY <1>3 DEF r

LEMMA LimitStep ==
  ASSUME TInv, LockIffLimit, [Next]_vars, WellConfigured
  PROVE  LockIffLimit'
<1> SUFFICES ASSUME NEW k \in Key, Enabled(k) PROVE Consistent(k, locks'[k])
  BY DEF LockIffLimit, Consistent, Enabled
<1>1. locks[k] \in LockState /\ Consistent(k, locks[k]) /\ (locks[k].locked => locks[k].last >= 1)
  BY DEF TInv, TypeOK, ClockInv, LockIffLimit, Consistent
<1>2. CASE CheckStep(k)
  <2>1. PICK l \in Login : /\ ~Barred(k, locks[k], at[l])
                           /\ locks'[k] = Checked(k, locks[k], at[l])
    BY <1>2 DEF CheckStep
  <2>2. at[l] \in Nat
    BY DEF TInv, TypeOK
  <2> QED BY <1>1, <2>1, <2>2, CheckedConsistent
<1>3. CASE UpdateStep(k)
  <2>1. PICK l \in Login : \/ locks'[k] = Succeeded(locks[k], at[l])
                           \/ locks'[k] = Failed(k, locks[k], at[l])
    BY <1>3 DEF UpdateStep
  <2>2. at[l] \in Nat
    BY DEF TInv, TypeOK
  <2> QED BY <1>1, <2>1, <2>2, SucceededType, ResetConsistent, FailedConsistent
<1>4. CASE CleanupStep(k)
  BY <1>4, FreshType, ResetConsistent DEF CleanupStep
<1>5. CASE UnlockStep(k)
  BY <1>1, <1>5, UnlockType, ResetConsistent DEF UnlockStep
<1>6. CASE OtherStep(k)
  BY <1>1, <1>6 DEF OtherStep
<1> QED BY <1>2, <1>3, <1>4, <1>5, <1>6, RecordStep

LEMMA LimitInit == Init => LockIffLimit
BY Constants, FreshType DEF Init, LockIffLimit, Enabled

\* With the configuration conf/server-sample.toml recommends, a record is locked
\* exactly while its count is at the maximum, until LockTime after the failure
\* (UpdateLockState and CheckLockState agree, whatever runs between them).
THEOREM LocksMatchCounts == ASSUME WellConfigured PROVE Spec => []LockIffLimit
<1>1. Init => TInv /\ LockIffLimit
  BY TInvInit, LimitInit
<1>2. TInv /\ LockIffLimit /\ [Next]_vars => (TInv /\ LockIffLimit)'
  BY TInvStep, LimitStep
<1> QED BY <1>1, <1>2, PTL DEF Spec

-----------------------------------------------------------------------------
(* The bound on counted failures.                                          *)

\* The logins past the check of a record that have not reported to it.
InFlight(k) == {l \in Login : k \in passed[l]}

\* While a record is locked no login passes its check, so the failures counted
\* and those still to come together stay within the bound.
FlightInv ==
  \A k \in Key : Enabled(k) /\ ~Exempt(k) /\ locks[k].locked =>
    locks[k].count + Cardinality(InFlight(k)) <= Max[k.kind] + Cardinality(Login) - 1

BInv == TInv /\ LockIffLimit /\ FlightInv

LEMMA FlightFinite ==
  ASSUME NEW k \in Key
  PROVE  /\ IsFiniteSet(InFlight(k)) /\ Cardinality(InFlight(k)) \in Nat
         /\ Cardinality(Login) \in Nat
<1>1. InFlight(k) \subseteq Login
  BY DEF InFlight
<1> QED BY <1>1, LockAssumption, FS_Subset, FS_CardinalityType

\* A set of logins that leaves one out is smaller than Login.
LEMMA LeaveOut ==
  ASSUME NEW S \in SUBSET Login, NEW l \in Login, l \notin S
  PROVE  /\ IsFiniteSet(S) /\ Cardinality(S) \in Nat /\ Cardinality(Login) \in Nat
         /\ Cardinality(S) <= Cardinality(Login) - 1
<1>1. S \subseteq Login \ {l} /\ IsFiniteSet(Login) /\ IsFiniteSet(Login \ {l})
  BY LockAssumption, FS_Subset, FS_RemoveElement
<1>2. Cardinality(Login \ {l}) = Cardinality(Login) - 1
  BY <1>1, FS_RemoveElement
<1> QED BY <1>1, <1>2, FS_Subset, FS_CardinalityType

LEMMA FlightStep ==
  ASSUME BInv, [Next]_vars, WellConfigured
  PROVE  FlightInv'
<1> SUFFICES ASSUME NEW k \in Key, Enabled(k), ~Exempt(k), locks'[k].locked
             PROVE  locks'[k].count + Cardinality(InFlight(k)')
                      <= Max[k.kind] + Cardinality(Login) - 1
  BY DEF FlightInv, Enabled, Exempt
<1> DEFINE n == Cardinality(InFlight(k))
           n2 == Cardinality(InFlight(k)')
           m == Max[k.kind]
<1>1. /\ locks[k] \in LockState /\ Consistent(k, locks[k])
      /\ (locks[k].locked => locks[k].last >= 1)
      /\ m \in Nat /\ Cardinality(Login) \in Nat /\ n \in Nat
  BY Constants, FlightFinite DEF BInv, TInv, TypeOK, ClockInv, LockIffLimit, Consistent
<1>2. locks[k].locked => locks[k].count + n <= m + Cardinality(Login) - 1
  BY DEF BInv, FlightInv
<1>3. \A l \in Login : at[l] \in Nat /\ passed[l] \in SUBSET Key
  BY DEF BInv, TInv, TypeOK
<1>4. ~CheckStep(k)
  <2> SUFFICES ASSUME CheckStep(k) PROVE FALSE
    OBVIOUS
  <2>1. PICK l \in Login : /\ ~Barred(k, locks[k], at[l])
                           /\ locks'[k] = Checked(k, locks[k], at[l])
    BY DEF CheckStep
  <2> QED BY <2>1, <1>1, <1>3, CheckedConsistent
<1>5. CASE UpdateStep(k)
  <2>1. PICK l \in Login :
          /\ k \in passed[l] /\ passed' = [passed EXCEPT ![l] = @ \ {k}]
          /\ \/ locks'[k] = Succeeded(locks[k], at[l])
             \/ locks'[k] = Failed(k, locks[k], at[l])
    BY <1>5 DEF UpdateStep
  <2>2. /\ locks'[k] = Failed(k, locks[k], at[l])
        /\ locks'[k].count = locks[k].count + 1
    <3>1. ~Succeeded(locks[k], at[l]).locked
      BY <1>1, <1>3, SucceededType
    <3>2. locks'[k] = Failed(k, locks[k], at[l])
      BY <2>1, <3>1
    <3>3. at[l] \in Nat /\ locks[k] \in LockState
      BY <1>1, <1>3
    <3>4. Failed(k, locks[k], at[l]).count = locks[k].count + 1
      <4> DEFINE s == locks[k]  t == at[l]
      <4>1. s \in LockState /\ t \in Nat
        BY <3>3
      <4> HIDE DEF s, t
      <4>2. Failed(k, s, t).count = s.count + 1
        BY <4>1, FailedType
      <4> QED BY <4>2 DEF s, t
    <3> QED BY <3>2, <3>4
  <2>3. l \in InFlight(k) /\ InFlight(k)' = InFlight(k) \ {l}
    BY <2>1, <1>3 DEF BInv, TInv, TypeOK, InFlight
  <2>4. n2 = n - 1
    BY <2>3, FlightFinite, FS_RemoveElement
  <2>5. CASE locks[k].locked
    BY <2>2, <2>4, <2>5, <1>1, <1>2 DEF LockState
  <2>6. CASE ~locks[k].locked
    <3>1. locks[k].count < m /\ locks[k].count \in Nat
      BY <2>6, <1>1 DEF Consistent, LockState
    <3>2. l \notin InFlight(k)' /\ InFlight(k)' \in SUBSET Login
      BY <2>3 DEF InFlight
    <3>3. n2 \in Nat /\ n2 <= Cardinality(Login) - 1
      BY <3>2, LeaveOut
    <3>4. locks'[k].count + n2 <= m + Cardinality(Login) - 1
      <4> HIDE DEF n2, m
      <4> QED BY <3>1, <3>3, <2>2, <1>1
    <3> QED BY <3>4
  <2> QED BY <2>5, <2>6
<1>6. CASE CleanupStep(k)
  BY <1>6, FreshType DEF CleanupStep
<1>7. CASE UnlockStep(k)
  BY <1>1, <1>7, UnlockType DEF UnlockStep
<1>8. CASE OtherStep(k)
  <2>1. InFlight(k)' \subseteq InFlight(k)
    BY <1>8 DEF OtherStep, InFlight
  <2>2. n2 \in Nat /\ n2 <= n
    BY <2>1, FlightFinite, FS_Subset, FS_CardinalityType
  <2>3. locks'[k] = locks[k]
    BY <1>8 DEF OtherStep
  <2>4. locks'[k].count + n2 <= m + Cardinality(Login) - 1
    <3> HIDE DEF n2, n, m
    <3> QED BY <2>2, <2>3, <1>1, <1>2 DEF LockState
  <2> QED BY <2>4
<1> QED BY <1>4, <1>5, <1>6, <1>7, <1>8, RecordStep DEF BInv

LEMMA FlightBound == ASSUME BInv PROVE AttemptsBounded
<1> SUFFICES ASSUME NEW k \in Key, Enabled(k), ~Exempt(k)
             PROVE  locks[k].count <= Max[k.kind] + Cardinality(Login) - 1
  BY DEF AttemptsBounded
<1>1. locks[k].count \in Nat /\ Consistent(k, locks[k])
  BY DEF BInv, TInv, TypeOK, LockState, LockIffLimit, Consistent
<1>2. Max[k.kind] \in Nat /\ Cardinality(Login) \in Nat /\ Cardinality(InFlight(k)) \in Nat
  BY Constants, FlightFinite
<1>3. CASE locks[k].locked
  BY <1>1, <1>2, <1>3 DEF BInv, FlightInv
<1>4. CASE ~locks[k].locked
  BY <1>1, <1>2, <1>4 DEF Consistent
<1> QED BY <1>3, <1>4

LEMMA FlightInit == Init => FlightInv
BY FreshType DEF Init, FlightInv

\* A record counts at most its maximum and one failure more for each login but
\* one (the check and the update of a login are separate sections under mu, but
\* a lock stops every login that has not passed the check).
THEOREM FailuresBounded == ASSUME WellConfigured PROVE Spec => []AttemptsBounded
<1>1. Init => BInv
  BY TInvInit, LimitInit, FlightInit DEF BInv
<1>2. BInv /\ [Next]_vars => BInv'
  BY TInvStep, LimitStep, FlightStep DEF BInv
<1>3. BInv => AttemptsBounded
  BY FlightBound
<1> QED BY <1>1, <1>2, <1>3, PTL DEF Spec

-----------------------------------------------------------------------------
(* Locks are kept.                                                         *)

LEMMA KeptStep ==
  ASSUME TInv, LockIffLimit, [Next]_vars, WellConfigured,
         NEW k \in Key, InForce(k), ~InForce(k)', now' <= locks[k].until
  PROVE  UnlockUser(k) \/ \E l \in Login : k \in passed[l] /\ Update(l, k)
<1>1. /\ locks[k] \in LockState /\ Consistent(k, locks[k]) /\ locks[k].locked /\ Enabled(k)
      /\ locks[k].last # 0 /\ Barred(k, locks[k], now)
  BY DEF TInv, TypeOK, LockIffLimit, Consistent, InForce, Barred
<1>2. /\ now \in Nat /\ now' \in Nat /\ \A l \in Login : at[l] \in Nat
      /\ LockTime[k.kind] \in Nat /\ LockTime[k.kind] <= ResetTime[k.kind]
      /\ LockTime[k.kind] <= Expiration /\ ResetTime[k.kind] \in Nat /\ Expiration \in Nat
  BY Constants, TInvStep, LockAssumption DEF TInv, TypeOK
<1>3. locks[k].until = locks[k].last + LockTime[k.kind] /\ locks[k].last \in Nat /\ locks[k].until \in Nat
  BY <1>1 DEF Consistent, LockState
<1>4. \A t \in Nat : t <= locks[k].until => Barred(k, locks[k], t)
  BY <1>1, <1>2, <1>3 DEF Barred, Over, Forgets
<1>5. locks'[k] # locks[k]
  BY <1>1, <1>2, <1>4 DEF InForce, Enabled
<1>6. now <= locks[k].until
  BY <1>1, <1>3, <1>2 DEF Barred, Over
<1>7. ~CheckStep(k)
  <2> SUFFICES ASSUME CheckStep(k) PROVE FALSE
    OBVIOUS
  <2>1. PICK l \in Login : /\ CheckKey(l, k)
                           /\ ~Barred(k, locks[k], at[l]) /\ UNCHANGED now
    BY DEF CheckStep, CheckKey
  <2>2. at[l] \in Nat /\ at[l] <= now
    BY DEF TInv, TypeOK, ClockInv
  <2> QED BY <2>1, <2>2, <1>2, <1>3, <1>4, <1>6
<1>8. ~CleanupStep(k)
  BY <1>1, <1>2, <1>3, <1>6 DEF CleanupStep
<1> QED BY <1>5, <1>7, <1>8, RecordStep DEF UpdateStep, UnlockStep, OtherStep

\* A lock in force ends with its time, by the administrator or by a login that
\* had passed its check (CleanupExpiredLocks and CheckLockState keep it).
THEOREM LocksKept == ASSUME WellConfigured PROVE Spec => LockKept
<1>1. Init => TInv /\ LockIffLimit
  BY TInvInit, LimitInit
<1>2. TInv /\ LockIffLimit /\ [Next]_vars => (TInv /\ LockIffLimit)'
  BY TInvStep, LimitStep
<1> DEFINE Step == \A k \in Key : InForce(k) /\ ~InForce(k)' =>
                     \/ now' > locks[k].until
                     \/ UnlockUser(k)
                     \/ \E l \in Login : k \in passed[l] /\ Update(l, k)
<1>3. TInv /\ LockIffLimit /\ [Next]_vars => [Step]_vars
  <2> SUFFICES ASSUME TInv, LockIffLimit, [Next]_vars, NEW k \in Key,
                      InForce(k), ~InForce(k)', ~(now' > locks[k].until)
               PROVE  UnlockUser(k) \/ \E l \in Login : k \in passed[l] /\ Update(l, k)
    OBVIOUS
  <2>1. now' \in Nat /\ locks[k].until \in Nat
    BY TInvStep DEF TInv, TypeOK, LockState
  <2> QED BY <2>1, KeptStep
<1> HIDE DEF Step
<1>4. Spec => [][Step]_vars
  BY <1>1, <1>2, <1>3, PTL DEF Spec
<1> QED BY <1>4 DEF LockKept, Step

=============================================================================
