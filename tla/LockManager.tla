---------------------------- MODULE LockManager ----------------------------
(***************************************************************************)
(* The login lockout of admin/lockmanager.go.  Failed logins are counted   *)
(* per address, per user name, and per both; a count that reaches its      *)
(* maximum locks the record for some time.  A login asks CheckLocked,      *)
(* verifies the password or the one-time code, and reports the result with *)
(* UpdateLoginStatus (handler/link_auth.go, link_auth_otp.go).  Both look  *)
(* at the three records one after the other, each under LockManager.mu for *)
(* itself, with a clock they read once at their start; meanwhile other     *)
(* logins, the cleanup of every minute and the administrator act.          *)
(*                                                                         *)
(* A missing record and a zero LockState behave alike in every operation,  *)
(* so deleting a record makes it Fresh.                                    *)
(***************************************************************************)
EXTENDS Integers, FiniteSets

CONSTANTS
  Login,           \* login requests that may be in progress at a time
  User,            \* user names
  NoUser,          \* the empty name AnyConnect sends first
  Ip,              \* client addresses
  Whitelist,       \* base.Cfg.IPWhitelist
  AntiBruteForce,  \* base.Cfg.AntiBruteForce
  Max,             \* kind -> MaxGlobalIPBanCount, MaxGlobalUserBanCount, MaxBanCount
  LockTime,        \* kind -> GlobalIPLockTime, GlobalUserLockTime, LockTime
  ResetTime,       \* kind -> GlobalIPBanResetTime, GlobalUserBanResetTime, BanResetTime
  Expiration,      \* base.Cfg.GlobalLockStateExpirationTime
  MaxTime,         \* bound of the clock
  MaxCount,        \* bound of the failures on record when another is reported
  NULL

Kind == {"ip", "user", "pair"}

ASSUME LockAssumption ==
  /\ IsFiniteSet(Login)
  /\ NoUser \notin User /\ NULL \notin User \cup {NoUser} \cup Ip
  /\ Whitelist \subseteq Ip
  /\ AntiBruteForce \in BOOLEAN
  /\ Max \in [Kind -> Nat] /\ LockTime \in [Kind -> Nat] /\ ResetTime \in [Kind -> Nat]
  /\ Expiration \in Nat /\ MaxTime \in Nat /\ MaxCount \in Nat

\* conf/server-sample.toml: a lock had better not outlast the counting window.
\* The records are kept longer than either.
WellConfigured == \A d \in Kind : LockTime[d] <= ResetTime[d] /\ LockTime[d] <= Expiration

VARIABLES
  now,      \* the clock, in seconds
  locks,    \* ipLocks, userLocks and ipUserLocks
  pc,       \* "idle", "check", then "good" or "bad": the result to report
  who,      \* the user and the address of a login
  at,       \* the time it read
  passed    \* the records whose check it has passed and not yet updated

vars == <<now, locks, pc, who, at, passed>>

Key == [kind : {"ip"}, user : {NULL}, ip : Ip]
       \cup [kind : {"user"}, user : User, ip : {NULL}]
       \cup [kind : {"pair"}, user : User, ip : Ip]

\* The records of a login; only that of the address if the name is empty.
KeysOf(w) == {k \in Key : /\ k.ip \in {w.ip, NULL}
                          /\ k.user \in {w.user, NULL}}

\* The order in which a login goes through its records.
Rank == [ip |-> 1, user |-> 2, pair |-> 3]
IsFirst(k, S) == k \in S /\ \A j \in S : Rank[k.kind] <= Rank[j.kind]

LockState == [locked : BOOLEAN, count : Nat, until : Nat, last : Nat]

\* The zero LockState.
Fresh == [locked |-> FALSE, count |-> 0, until |-> 0, last |-> 0]

-----------------------------------------------------------------------------
(* CheckLockState, Unlock and UpdateLockState.                             *)

Unlock(s) == [s EXCEPT !.locked = FALSE, !.count = 0, !.until = 0]

Over(s, t)      == s.until # 0 /\ t > s.until
Forgets(k, s, t) == t - s.last > ResetTime[k.kind]

\* CheckLockState's result ...
Barred(k, s, t) == s.last # 0 /\ ~Over(s, t) /\ ~Forgets(k, s, t) /\ s.locked

\* ... and what it leaves behind.
Checked(k, s, t) ==
  IF s.last # 0 /\ Over(s, t) THEN Unlock(s)
  ELSE IF s.last # 0 /\ Forgets(k, s, t) THEN [s EXCEPT !.count = 0]
  ELSE s

\* Mutated: > for >=.
FailedOffByOne(k, s, t) ==
  IF s.count + 1 > Max[k.kind]
  THEN [locked |-> TRUE, count |-> s.count + 1, until |-> t + LockTime[k.kind], last |-> t]
  ELSE [s EXCEPT !.count = @ + 1, !.last = t]

Failed(k, s, t) ==
  IF s.count + 1 >= Max[k.kind]
  THEN [locked |-> TRUE, count |-> s.count + 1, until |-> t + LockTime[k.kind], last |-> t]
  ELSE [s EXCEPT !.count = @ + 1, !.last = t]

Succeeded(s, t) == [Unlock(s) EXCEPT !.last = t]

-----------------------------------------------------------------------------
Init ==
  /\ now = 1
  /\ locks = [k \in Key |-> Fresh]
  /\ pc = [l \in Login |-> "idle"]
  /\ who = [l \in Login |-> NULL]
  /\ at = [l \in Login |-> 0]
  /\ passed = [l \in Login |-> {}]

Tick ==
  /\ now < MaxTime
  /\ now' = now + 1
  /\ UNCHANGED <<locks, pc, who, at, passed>>

\* CheckLocked reads the clock; nothing is checked if the lockout is off or the
\* address is on the whitelist.
Begin(l, u, a) ==
  LET w == [user |-> u, ip |-> a] IN
  /\ pc[l] = "idle"
  /\ pc' = [pc EXCEPT ![l] = "check"]
  /\ who' = [who EXCEPT ![l] = w]
  /\ at' = [at EXCEPT ![l] = now]
  /\ passed' = [passed EXCEPT ![l] = IF AntiBruteForce /\ a \notin Whitelist
                                     THEN {} ELSE KeysOf(w)]
  /\ UNCHANGED <<now, locks>>

\* A refused login answers 429 and is over.
End(l) ==
  /\ pc' = [pc EXCEPT ![l] = "idle"]
  /\ who' = [who EXCEPT ![l] = NULL]
  /\ at' = [at EXCEPT ![l] = 0]

Enabled(k) == Max[k.kind] > 0

\* Mutated: only the lock of the address refuses.
CheckKeyIpOnly(l, k) ==
  /\ pc[l] = "check"
  /\ IsFirst(k, KeysOf(who[l]) \ passed[l])
  /\ IF Enabled(k) /\ Barred(k, locks[k], at[l]) /\ k.kind = "ip"
     THEN End(l) /\ passed' = [passed EXCEPT ![l] = {}] /\ UNCHANGED locks
     ELSE /\ passed' = [passed EXCEPT ![l] = @ \cup {k}]
          /\ locks' = IF Enabled(k) THEN [locks EXCEPT ![k] = Checked(k, @, at[l])] ELSE locks
          /\ UNCHANGED <<pc, who, at>>
  /\ UNCHANGED now

\* Mutated: a refused login goes on.
CheckKeyGoesOn(l, k) ==
  /\ pc[l] = "check"
  /\ IsFirst(k, KeysOf(who[l]) \ passed[l])
  /\ IF Enabled(k) /\ Barred(k, locks[k], at[l])
     THEN End(l) /\ UNCHANGED <<passed, locks>>
     ELSE /\ passed' = [passed EXCEPT ![l] = @ \cup {k}]
          /\ locks' = IF Enabled(k) THEN [locks EXCEPT ![k] = Checked(k, @, at[l])] ELSE locks
          /\ UNCHANGED <<pc, who, at>>
  /\ UNCHANGED now

\* CheckGlobalIPLock, CheckGlobalUserLock or CheckUserIPLock of CheckLocked;
\* a kind whose maximum is 0 is not looked at.
CheckKey(l, k) ==
  /\ pc[l] = "check"
  /\ IsFirst(k, KeysOf(who[l]) \ passed[l])
  /\ IF Enabled(k) /\ Barred(k, locks[k], at[l])
     THEN End(l) /\ passed' = [passed EXCEPT ![l] = {}] /\ UNCHANGED locks
     ELSE /\ passed' = [passed EXCEPT ![l] = @ \cup {k}]
          /\ locks' = IF Enabled(k) THEN [locks EXCEPT ![k] = Checked(k, @, at[l])] ELSE locks
          /\ UNCHANGED <<pc, who, at>>
  /\ UNCHANGED now

\* CheckUser or CheckOtp has answered, and UpdateLoginStatus reads the clock.
Verify(l) ==
  /\ pc[l] = "check"
  /\ passed[l] = KeysOf(who[l])
  /\ \/ pc' = [pc EXCEPT ![l] = "good"]
     \/ /\ \A k \in passed[l] : locks[k].count < MaxCount
        /\ pc' = [pc EXCEPT ![l] = "bad"]
  /\ at' = [at EXCEPT ![l] = now]
  /\ UNCHANGED <<now, locks, who, passed>>

\* UpdateGlobalIPLock, UpdateGlobalUserLock or UpdateUserIPLock.
Update(l, k) ==
  /\ pc[l] \in {"good", "bad"}
  /\ IsFirst(k, passed[l])
  /\ locks' = [locks EXCEPT ![k] = IF pc[l] = "good" THEN Succeeded(@, at[l])
                                                     ELSE Failed(k, @, at[l])]
  /\ passed' = [passed EXCEPT ![l] = @ \ {k}]
  /\ IF passed[l] = {k} THEN End(l) ELSE UNCHANGED <<pc, who, at>>
  /\ UNCHANGED now

\* Mutated: everything is dropped.
CleanupAll ==
  /\ AntiBruteForce
  /\ locks' = [k \in Key |-> Fresh]
  /\ UNCHANGED <<now, pc, who, at, passed>>

\* CleanupExpiredLocks, every minute: a record is dropped if it is not locked,
\* or old.  (A minute is any number of seconds here.)
Cleanup ==
  /\ AntiBruteForce
  /\ locks' = [k \in Key |->
       IF ~Barred(k, locks[k], now) \/ now - locks[k].last > Expiration
       THEN Fresh ELSE locks[k]]
  /\ UNCHANGED <<now, pc, who, at, passed>>

\* The administrator's unlock; refused if the record is not locked.
UnlockUser(k) ==
  /\ locks[k].locked
  /\ locks' = [locks EXCEPT ![k] = Unlock(@)]
  /\ UNCHANGED <<now, pc, who, at, passed>>

Next ==
  \/ Tick \/ Cleanup
  \/ \E l \in Login, u \in User \cup {NoUser}, a \in Ip : Begin(l, u, a)
  \/ \E l \in Login, k \in Key : CheckKey(l, k) \/ Update(l, k)
  \/ \E l \in Login : Verify(l)
  \/ \E k \in Key : UnlockUser(k)

Spec == Init /\ [][Next]_vars
-----------------------------------------------------------------------------
(* Properties.                                                             *)

\* Types, and a login that is over has nothing left to report.
TypeOK ==
  /\ now \in Nat
  /\ locks \in [Key -> LockState]
  /\ pc \in [Login -> {"idle", "check", "good", "bad"}]
  /\ who \in [Login -> [user : User \cup {NoUser}, ip : Ip] \cup {NULL}]
  /\ at \in [Login -> Nat]
  /\ passed \in [Login -> SUBSET Key]
  /\ \A l \in Login : pc[l] = "idle" => passed[l] = {}

\* A record is locked exactly when its count has reached the maximum, and then
\* until LockTime after the last failure: no order of checks, failures, resets
\* and cleanups leaves a lock without its count or a full count without a lock.
LockIffLimit ==
  \A k \in Key : Enabled(k) =>
    /\ locks[k].locked <=> locks[k].count >= Max[k.kind]
    /\ locks[k].locked => locks[k].until = locks[k].last + LockTime[k.kind]
    /\ ~locks[k].locked => locks[k].until = 0

\* Whether logins that are never refused report to a record.
Exempt(k) == \/ ~AntiBruteForce
             \/ Whitelist # {} /\ (k.kind = "user" \/ k.ip \in Whitelist)

\* However logins interleave, a record counts at most one failure more than its
\* maximum for each login that was past the check when the lock came.
AttemptsBounded ==
  \A k \in Key : Enabled(k) /\ ~Exempt(k) =>
    locks[k].count <= Max[k.kind] + Cardinality(Login) - 1

InForce(k) == Enabled(k) /\ Barred(k, locks[k], now)

\* lock_time of base/config.go: how long a lock lasts once the attempts are used up.
\* A lock in force ends only with its time, by the administrator, or by the
\* result of a login that had passed the check before: never by the cleanup, a
\* refused login, or a login with other records.
LockKept ==
  [][\A k \in Key : InForce(k) /\ ~InForce(k)' =>
       \/ now' > locks[k].until
       \/ UnlockUser(k)
       \/ \E l \in Login : k \in passed[l] /\ Update(l, k)]_vars
=============================================================================
