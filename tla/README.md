# AnyLink in TLA+

AnyLink (`src/`) is an SSL VPN server for the AnyConnect clients, written in Go.
This directory holds TLA+ models of its concurrent core, the TLC instances that
check them, and TLAPS proofs about them.

Contents: 1 the system, 2 the modules, 3 the models and the code (sessions,
lockout, address pool, tunnels, logins, audit, certificates, groups), 4 the runs,
5 fairness, 6 the proofs, 7 findings, 8 what is left out, 9 what could come next.

## 1. The system

A client logs in over HTTPS (`handler/link_auth.go`), possibly with a one-time
password in a second request (`link_auth_otp.go`). A login creates a `Session`
under a random token. With the token as a cookie the client then opens a tunnel
(`CONNECT`, `link_tunnel.go`), which attaches a `ConnSession` to the session.
A connection owns a slot of the client limit and an address of the pool, a
device (tun, tap or macvtap), and several goroutines that move packets. A DTLS
connection (`dtls.go`, `link_dtls.go`) may be attached later. Administrators
watch and kick sessions over an HTTP API, and two background jobs reap sessions.

All paths below are under `src/server/`.

| Component | State | Operations | Who calls it, and what is hard |
|---|---|---|---|
| Session table, `sessdata/session.go` | `sessions`, `dtlsIds` under `sessMux`; per session `IsActive`, `CSess`, `LastLogin` under `Session.mux`; `closeOnce` per connection | `NewSession`, `SToken2Sess`, `NewConn`, `Close`, `CloseSess`, `CloseCSess`, `checkSession`, `CloseUserLimittimeSession` | Requests, tunnel goroutines, API and jobs at once. Several fields are read outside their lock. Correct: an address and a slot belong to one connection and are returned once; a close always ends; a kick holds |
| Client limit, `sessdata/limit_client.go` | counters per user and in all, under `limitMux` | `LimitClient(user, close)` | `NewConn`, `Close`. Correct: the counters equal the slots in use and stay below the limits |
| IP pool, `sessdata/ip_pool.go`, table `ip_map` | `ipActive`, `loopCurIp` under `ipPoolMux`; a database row per lease | `AcquireIp`, `loopIp`, `loopLong`, `ReleaseIp`; the API edits rows | `NewConn`, `Close`; the API takes no lock. Correct: no address twice, reserved rows respected, leases stick to their client |
| Login lockout, `admin/lockmanager.go` | failure counters and locks per address, user, and both, under `mu` | `CheckLocked`, `UpdateLoginStatus`, `CleanupExpiredLocks`, `UnlockUser` | Logins; a ticker; the API. Three lock sections per login. Correct: a lock holds for its time and ends after it |
| Login and one-time passwords, `handler/link_auth*.go`, `dbdata/user.go` | temporary login sessions; the codes entered lately | `LinkAuth`, `LinkAuth_otp`, `CheckUser`, `CheckOtp` | Concurrent requests share a temporary session; codes are forgotten by a clock. Correct: a session takes a code of its own |
| DTLS, `handler/dtls.go`, `link_dtls.go` | `dSess` and its `isActive` | `NewDtlsConn`, `LinkDtls`, `Close` | Check-then-store of the DTLS session against `Close`. Correct: no DTLS session outlives its tunnel for ever |
| Data path, `handler/payload.go`, `link_cstp.go`, `pool.go` | bounded channels in and out, buffers in a pool | `payloadIn`, `payloadOut`, readers and writers | Goroutines that feed each other's channels. Correct: none blocks for ever once `CloseChan` is closed, and a buffer has one user |
| Devices, `handler/link_tun.go`, `link_tap.go`, `link_vtap.go` | an interface per connection, ARP replies | `LinkTun`, `LinkTap`, `LinkMacvtap` | The kernel; interface names are derived from addresses |
| Access audit, `handler/payload_access_audit.go` | a deduplication map, a channel, a batch, a timer | `logAudit`, `logAuditBatch` | Ten workers; keys that share memory with a pool of buffers; a timer that is stopped, drained and reset. Correct: no key changes in the map, every record is written or dropped once |
| Certificates, `dbdata/cert.go`, `admin/api_cert.go`, `handler/server.go` | two files, `nameToCertificate` | upload, request, renewal, start, `GetCertificateBySNI` | Files written one after the other with no lock; crashes. Correct: what is served is a pair, and the next start finds one |
| Groups and policies, `dbdata/group.go`, `policy.go`; ACL, `handler/payload.go` | a row each; the group of a connection | `SetGroup`, `SetPolicy`, `SetUserPolicy`, `checkLinkAcl` | Two rows read at different times. Correct: what is stored can be stored again, a client is told routes and name servers that fit and can be reached |
| Online list, `sessdata/online.go` | reads sessions under their locks | `GetOnlineSess` | Holds `sessMux` while it waits for each session's mutex; a panic inside leaves one locked |
| ARP table, `pkg/arpdis` | address to hardware address with expiry | `Add`, `Lookup` | tap devices |
| Activity log, `dbdata/user_act_log.go` | a bounded queue | `Add` | Called under session locks |
| Users, settings, statistics, `dbdata/` | database rows | one read or write each | One request at a time per row |
| Configuration, logging, jobs, start-up, web console, deployment | constant after start | | |

`PROJECT.json` lists these as components with their files and status, and every
place where the code is hard to test under `hazards`.

## 2. The modules

| Module | What it is |
|---|---|
| `Session.tla` | The session table and its callers: one action per step between locks |
| `Admission.tla` | What an operator may rely on: slots within the limits, exclusive addresses |
| `LockManager.tla` | The login lockout: concurrent logins, the cleanup, the administrator |
| `IpPool.tla` | The address pool and its table, call by call and row by row |
| `Login.tla` | The requests of a login, one-time codes and temporary sessions |
| `Tunnel.tla` | A running tunnel: goroutines, channels, payloads, DTLS, `Close` |
| `Audit.tla` | The access audit: workers, deduplication, batches |
| `Cert.tla` | The certificate's files, what is served, crashes and restarts |
| `Group.tla` | Groups and policies as stored, as told to a client, and the access list |
| `*Proofs.tla` | Proofs about the module they are named after; `SessionProofs` also shows that `Session` implements `Admission` |
| `MC*.tla`, `*.cfg` | Instances for TLC |

The modules meet where the code calls from one part into the other, and each leaves open
what the other has in detail. `Session` abstracts the pool to the step that takes an
address (`TakeIp`, `NoIp`) and the one that returns it; `IpPool` abstracts the session to
a client that connects and disconnects. They meet in the promise that a call never
returns an active address: `Session` builds on it and `ActiveIsHeld` of `IpPool` proves
it. `Login` ends where `Session` starts, with `NewSession`, and lets `LockManager` refuse
any request. `Tunnel` is the inside of a connection that `Session` has published; its
`"closer"` is any caller of `Close` there. `Audit` is what happens to the payloads in
`jobs` of `Tunnel`, `CheckLinkAcl` of `Group` what `PayloadIn` asks.

Operators before an action whose comment begins with "Mutated:" describe a plausible bug
in that action; no specification uses them. They show that the property named for them
in `PROJECT.json` would notice.

## 3. The models and the code

### Session

A token names a `Session`, and a `ConnSession` is named by the tunnel request
that created it, so that `Req` is the set of both. `pc[r]` is the place of the
request in `NewConn` and `LinkTunnel`, and afterwards the state of its
`LinkCstp` goroutine. `conn[r]` is how far `Close` has come. `call[th]` is a
`CloseSess`, `CloseCSess` or `Close` that thread `th` is inside.

| Code | Model |
|---|---|
| `sessMux` held for writing, for reading across steps | `sessMux`, `sessRd` |
| `Session.mux` held from the start of `Close` to its end | `mux[t]`; shorter sections are one action |
| `closeOnce` | `conn[c] = "open"` in `StartClose`: a second caller waits in `CloseReturn` until it is `"closed"`, as `sync.Once` does |
| `NewConn`, up to the first unlocked read | `ReadActive`, then `CloseOld` reads `CSess` |
| `LimitClient`, `AcquireIp`, the group's row | `TakeSlot`, `TakeIp` or `NoIp`, `GroupLookup` |
| `s.mux.Lock(); s.CSess = cSess` | `Publish` |
| `LinkTunnel`: hijack, the device, `SetIfName` under `Session.mux`; their errors | `SetupLink`, which may end in `"orphan"` |
| `Close` | `StartClose`, `ReleaseIp`, `ReleaseSlot` |
| `CloseSess`: delete, read `CSess`, read it again, `Close` | `EnterCloseSess`, `CallClose`, `CloseReturn` |
| a nil `CSess` at the second read | `PanicRecovered` in an API request, else `PanicRestart` |
| DISCONNECT, idle timeout: `CloseSess`, then the deferred `Close` | `Disconnect`, `DeferredClose` |
| `UserOffline`, logout; `UserReline` | `Offline`; `Reline` |
| `checkSession`; `CloseUserLimittimeSession` | `ScanExpired`; `ScanLimittime`; both then `SweepOne` |
| `GetOnlineSess`: `sessMux`, then each session's `mux` | `List`, `ListEnds`; its panic, with the `mux` left locked, `ListPanics` |

Four abstractions. Which address `AcquireIp` picks is any that is not active (`TakeIp`)
or none (`NoIp`), which covers pool exhaustion, a reserved address in use and database
errors; `IpPool` has the choice in detail. A scan takes one step: a session that becomes
active while the map is walked is one that the scan does not collect. A list of online
users has been through all sessions when none of their mutexes is held (`ListEnds`),
rather than after it has waited for one at a time; it changes nothing it reads. A scan
that waits for a mutex does not hold `sessMux` in the model. Time is the flag
`stale[t]`, which `Age` sets and `Close` clears.

`CallClose` is separate from `EnterCloseSess` because the code reads `s.CSess`
once for the test against nil and again for the call, both without
`Session.mux`, which `Close` of another thread holds when it sets the field.

### LockManager

`locks` has one record per address, user name, and pair of both. A login `l`
makes its way through its records in the order of the code; `passed[l]` are those
whose check it has passed and whose update is still to come.

| Code | Model |
|---|---|
| `CheckLocked`: the clock, the whitelist | `Begin` |
| `CheckGlobalIPLock`, `CheckGlobalUserLock`, `CheckUserIPLock` | `CheckKey`, each under `mu` for itself |
| status 429 | `End` |
| `CheckUser` or `CheckOtp`, and the clock of `UpdateLoginStatus` | `Verify` |
| `UpdateGlobalIPLock`, `UpdateGlobalUserLock`, `UpdateUserIPLock` | `Update` |
| `CheckLockState`: result, and what it writes | `Barred`, `Checked` |
| `UpdateLockState`; `Unlock` | `Failed`, `Succeeded`; `Unlock` |
| `CleanupExpiredLocks`; `UnlockUser` | `Cleanup`; `UnlockUser` |

A record that is missing and a zero `LockState` have the same effect in every
operation, so a deleted record is `Fresh`. The clock starts at 1, since 0 stands
for Go's zero time; `MaxTime` bounds it, and `MaxCount` the failures on record
when another is reported. `Cleanup` may run at any time rather than every minute.
It reads the clock in the step that holds `mu`; the code reads it just before. An
update runs whether or not the lockout is on and the address is on the whitelist,
as in the code, where only `CheckLocked` asks. A password accepted before the
one-time code is asked for reports a success too (`link_auth.go:131`), so each
request is one `Login`.

### IpPool

| Code | Model |
|---|---|
| table `ip_map` with its unique columns | `rows`; the time since `LastLogin` is `age`, up to one past the lease |
| `ipActive`, `loopCurIp`, `loopFarIp` | `ipActive`, `loopCurIp`, `acq.far` |
| `ipPoolMux` and the call inside | `acq`, one at a time |
| `AcquireIp`: the row of the MAC address; the user's rows | `FindMac`, `FindUser`, then `Reuse` or `Drop` |
| `loopLong`, one address per step | `Loop`, which ends in `AddRow` or `Renew` |
| `loopIp`: second round, takeover | `SecondRound`, `TakeFar` |
| `ReleaseIp` | `Release`, `Touch` |
| `dbdata.Set`, `dbdata.Add` | `Set`, `Add`: no effect if the row is gone or a unique key is taken |
| `_ =` before every write | `Lost`, if `"write"` is in `Fault` |
| `UserIpMapDetail`, `UserIpMapSet`, `UserIpMapDel` | `OpenForm`, `SaveForm`, `NewRow`, `DelRow` |

Reads and writes of rows are separate steps, so the administrator's edits, which
take no lock, fall between them; `EditsInCall = FALSE` confines them to the time
between calls, for the properties that hold only then. A call is short against
the lease, so time passes between calls. An id of the auto-increment column is
drawn from `RowId`, fresh with respect to the table and every copy in use; the
runs have so many ids that one is always fresh. The database returns the user's rows in
some order, and `AcquireIp` looks at the first `Page` of them (30), which may be rows none
of which is usable: hence the choices in `FindUser`.

### Tunnel

One running tunnel, its goroutines `Proc` and whoever else calls
`ConnSession.Close` (`"closer"`). `pc[p]` is the place of a goroutine and `hold[p]` the
payload in its hands.

| Code | Model |
|---|---|
| `PayloadIn`, `PayloadOutCstp`, `PayloadOutDtls` | `queue`, with at most `Cap` payloads each |
| `getPayload`, `putPayload` | `Get`, `Put` |
| `LinkCstp`: frames, DPD, DISCONNECT, a read that fails | `CstpFrame`, `Disconnect`, `CstpFails` |
| `cstpWrite`, `dtlsWrite`; their `select` on `CloseChan` | `CstpWrite`, `DtlsWrite`; `CstpNotices`, `DtlsNotices` |
| `startDtls`, which looks the tunnel up; `NewDtlsConn`, check and store | `FindTunnel`; `Accept`, `StoreDtls` |
| `LinkDtls` | `DtlsFrame`, `DtlsEnds` |
| `tunRead`, `allTapRead` with its ARP answers | `DevPacket`, `DevFails` |
| `tunWrite`, `allTapWrite`, `putPayloadInBefore`; `logAudit` | `DevWrite`, `DevNotices`, `InBefore`; `Audited` |
| `payloadIn`, `payloadOut*`: the `select` of a send | `PayloadIn`, `PayloadOutCstp`, `PayloadOutDtls` |
| `closeOnce`, `close(CloseChan)`; the DTLS session; who waits | `Close`; `CloseDtls`; `CloseReturns` |
| `return` with the deferred calls | `Quit`, `Leave`, `Returned` |

A payload is its type and nothing else; `checkLinkAcl` is in `Group`, and what it rejects
is dropped before the step. A payload that nobody refers to any more is garbage, and since
the pool would make a new one it counts as one of the pool. `payloadOutDtls` watches only
the DTLS session's own `CloseChan`, which is why `CloseDtls` matters to `tunRead`.

### Login

| Code | Model |
|---|---|
| `LinkAuth`: the request; `CheckUser`; the second read of the row | `LinkAuth`; `CheckUser`; `Route` |
| `CheckOtp`, `userOtp`, its cleanup | `CheckOtp`, `used`, `CleanOtp` |
| `SaveAuthSession`, `GetAuthSession`, `DeleteAuthSession` | `SaveAuthSession`, `LinkAuth_otp`, `DeleteAuthSession`, on `store` |
| `CreateSession` | `CreateSession`, which counts `opened` |
| a body that cannot be read | `BadBody` |
| `LinkAuth_otp` after `CheckLocked`: wrong code, right code | `CheckCode` |
| `UserDel` | `DeleteUser` |

A code is its user and the window it belongs to; any other string is `NULL`, wrong for
ever. Passwords are right or wrong by choice, and so is the answer of the lockout. A code
is valid for `Window` units of the clock and remembered for `OtpExpire`, 30 and 60 seconds
in the code.

### Audit

| Code | Model |
|---|---|
| `logAudit`: buffer, key; HTTP and TLS hellos; lookup; set; queue | `Take`; `SetConn`; `Known` or `Unknown`; `SetKey`; `Queue` |
| `byte51Pool`; `BytesToString`, a key that is its buffer | `pool`; `entry[k].buf`, `job[w].buf` |
| `IpAuditMap.Get` and `Set` | `Fresh`, `Store`: two steps, as no lock covers both |
| `LogChan` with its `default` case | `Queue`: the record is dropped when it is full |
| `logAuditBatch`: `outTime`, its channel, `Stop`, `Reset` | `timer`; `TimerFires`, `Collect`, `Timeout`, `Reset` |
| `LogBatch.Write` | `Write` |

The timer is that of the Go version in `go.mod`: a `Reset` leaves a tick that was not
read. `made`, `total` and `gone` are history: how many records of a key are of the
interval that starts at each time, how many records there were, and how many are written
or dropped.

### Cert

| Code | Model |
|---|---|
| the two files; `nameToCertificate` | `certFile`, `keyFile`; `table` |
| `os.WriteFile`, `OpenFile` and `io.Copy` | `OpenCert` or `Make`, `WriteCert`, `OpenKey`, `WriteKey`; an error: `WriteError` |
| `ParseCert`; `PrivateCert` | `Stat`, `ReadCert`, `ReadKey`, `Mismatch`; `Make` and the writes |
| `LoadCertificate`, `buildNameToCertificate` | `Load`, `BuildNameToCertificate` |
| `CustomCert`; `CreatCert`; `ReNewCert`, `RenewCert` | the same names; `RenewCert` reads the certificate, `RenewKey` the key; `NotRenewed` |
| `strings.ToLower` of the name in a hello | `Lower`; the names in `table` keep their spelling |
| `startTls`, `base.Fatal`; a crash, `Restart=on-failure` | `Start`, `Return`; `Crash`, `Start` |

A certificate is its number, its key's number and its names; an entry of `table` is a
certificate and the key it was loaded with. What two writers leave in a
file at once may be a mixture of both, which nothing can load (`Torn`).

### Group

`SetGroup`, `SetPolicy` and their deletion edit the two rows; a connection reads them in
the order of `NewConn`, `SetUserPolicy` and `LinkTunnel`'s headers (`Tell`).
`GroupOk` and `PolicyOk` are the checks, `GroupRow` and `PolicyRow` what is stored of one
form, `GroupRows` and `PolicyRows` of all that may be posted. The loops of the code are
recursive functions of the model: `Keep` is the loop that appends the entries it takes,
`Walk` the one over the rules of `CheckLinkAcl`, with the `Verdict` of the first that
applies. A route has to be a network's own address (`Route`), the network of a rule need not
be (`Net`). Networks and hosts are names with an explicit membership among the strings of a
form (`Word`), ports are numbers, since the ranges are where a rule goes wrong.

## 4. The runs

| Run | Instance | Shows |
|---|---|---|
| `session` | 2 sessions of 2 users, 2 requests, an administrator, `checkSession`, the expiry job, 2 addresses, limits 2 and 1, all faults | `TypeOK`, `PublishedIsOpen`, `IpExclusive`, `SlotAccount`, and the refinement of `Admission`, which has the limits |
| `session_live` | 1 session, 2 requests, an administrator, `checkSession`, no faults | `CallsReturn`, `RequestsReturn`, `DisconnectReleases`, `ListsReturn` |
| `session_leak` | 1 session, the errors of `NewConn` and `LinkTunnel` | `SlotsAreOnline` violated: section 7 |
| `lock_race` | 2 logins of one user and the empty name at one address; maxima 2, 2, 1; clock to 4 | `TypeOK`, `LockIffLimit`, `AttemptsBounded`, `LockKept` |
| `login` | 3 requests of one user with codes, 2 temporary sessions, codes valid for 2 units and remembered for 4, clock to 6, 3 sessions | `TypeOK`, `SessionsNeedCodes`, `TempUsedUp` |
| `pool_lease` | 2 devices, 3 MAC addresses, 2 addresses, lease 1, edits between calls | `ReturnsToOwn`, `ReservedKept`, `TakesEldest`, `RefusesOnlyFull` |
| `pool_race` | 2 sessions of one device, a device without MAC address, a pool of 1 address and one outside it, edits inside calls, all faults | `TypeOK`, `ActiveIsHeld` |
| `tunnel` | a tap, 1 DTLS connection, 2 payloads, channels and audit queue of 1 | `TypeOK`, `Exclusive`, `KindsKept`, `TunnelEnds` |
| `audit` | 2 workers, 1 connection with and without a host name, 3 buffers, batches of 2, 4 records | `TypeOK`, `KeysIntact`, `Conserved`, `RecordsBounded`, `Written` |
| `audit_once` | the same | `RecordedOnce` violated: section 7 |
| `cert` | 2 administrators, the renewal and the start, 2 operations, 2 at a time, 1 crash, 1 failed write | `TypeOK`, `FilesServed`, `FailsOnce`, `DefaultServed` |
| `group` | 1 connection, 2 edits, 2 name servers and a host; forms of every kind the checks tell apart | `TypeOK`, `Stable`, `DnsReachable`, `DefaultRoute`, `FirstMatch` |

**Sessions.** Two requests on one session are enough for one connection to be replaced
by, or race with, another; two sessions make the sweepers and the administrator close
different sessions under the one `sessMux`. The limits are such that requests are
refused; the addresses are as many as the slots, so `NoIp` is reached by its error causes.
`TypeOK` also says that a thread inside `Close` has a connection to close, the nil
dereference that `CloseOld` and `CallClose` must not pass over. `session` includes the
lists that panic (`"sleepers"` in `Fault`), after which the system really may stop, so
that run does not check for deadlock; `session_live` does, without them.

**Lockout.** The maxima let a record lock on the first or the second failure
while the other login is anywhere between its check and its update. Four ticks
are enough for a lock to be set, end, and be set again, and for a count to be
forgotten; the lock times equal or undercut the reset times, as in
`conf/server-sample.toml`. The defaults of `base/config.go` for a user at an address (300
and 10 seconds), which `conf/server.toml` leaves as they are, have it the other way: with
a lock time above the reset time in `LockRace.cfg`, TLC finds `LockKept` violated
(section 7).

**Login.** With three requests two may share a temporary session while a third makes
another. The clock passes through four windows, so that a code is forgotten while
requests that used it are still on their way.

**Pool.** In `pool_lease` the administrator's third MAC address makes rows whose device is
absent, so both addresses may be leased to others at two different ages when a
device asks. One address more or less makes the pool full, half reserved, or
free in every combination. In `pool_race` the only address is always contested
and an administrator may rewrite or delete the row that a call has just read. `Page` is 1:
with one row looked at, a user may have a usable row that is passed over, or one that is
found, so every behaviour of a longer page is among those of the runs.

**Tunnels.** A tap does all that a tun does and answers ARP requests besides. Channels
of one place are full as soon as one payload waits, which is the case that blocks, and
with the second payload a goroutine waits for room. That a writer is blocked on the
network while its channel is full and a reader waits for it takes three payloads and
does not occur here: the safety properties are proved for any number, `TunnelEnds` is
checked for two. One DTLS connection at a time is what the client has; that its session
may be stored after `Close` has looked for one does not need two.

**Audit.** Two workers look up one key at once; the third buffer is the one that the map
keeps. Batches of two are filled, or written by the timer half full, with a channel of
one that overflows.

**Certificates.** Two operations that overlap, or that follow each other with the start
or a crash in between, in files that do not exist yet or hold an older pair. One set of
names contains the other, so that an entry of an older certificate stays, and one name is
spelt with a capital, so that hellos for it do not find its entry.

**Groups.** Two edits, so that both rows change between two reads of a connection, or one
is deleted and set again; what is stored at first is any row that a form gives.

Deadlock is checked except where a system may have nothing left to do: tunnels that have
ended, groups and certificates that nobody may edit any more, and `session` as said.

Symmetry is used for safety only (and in no run with a liveness property): over
requests, addresses and the two users with their sessions in `session`, logins,
administrators, row ids, and the two sessions of one device in `pool_race`. No constant
or property tells them apart. Mutants of `PROJECT.json` run under the same instances.

## 5. Fairness

Go schedules every runnable goroutine, so each step of a request or a call that
waits for nothing is weakly fair. `sync.RWMutex` and `sync.Mutex` hand the lock
over after a bounded wait (starvation mode), so a step that waits for a mutex is
strongly fair. Nothing is assumed of clients, administrators or time: no one needs to
log in, disconnect, kick or expire.

- `Session`: `SetupLink` is fair because the device commands return (strongly, as it waits
  for `Session.mux`); that a connection
  ends at all is not assumed, only that one which has been asked to close does. The list
  of online users waits for mutexes, so `ListEnds` is strongly fair.
- `Tunnel`: a goroutine's step is weakly fair. A Go channel serves those who wait for it in
  turn, so the sends of `LinkCstp`, which on a tap waits for `PayloadIn` beside the answers
  to ARP requests from the device's reader, are strongly fair. A
  `select` chooses among its ready cases at random, so a writer that always has payloads
  sees a closed `CloseChan` some time: `Notices` is strongly fair. Each goroutine ends once,
  so one condition (`Ends`) stands for all that end one. A
  write ends, or fails once the connection is closed or TCP gives the client up, and a
  client whose TLS connection is gone gives up DTLS, which pion's timeout reports.
- `Audit`: the timer fires and the collector runs (weak); its `select` does not pass over a
  tick for ever (`Timeout`, strong). Workers owe nothing.

## 6. The proofs

### Session

`SessionProofs` proves, for every value of the constants that satisfies
`SessionAssumption` (finitely many requests, limits that are natural numbers,
names that differ):

| Theorem | States |
|---|---|
| `TypeCorrect` | `Spec => []TypeOK` |
| `AddressesExclusive` | `Spec => []IpExclusive` |
| `SlotsCounted`, `LimitsHold` | `Spec => []SlotAccount`, `Spec => []Limits` |
| `PublishedOpen` | `Spec => []PublishedIsOpen` |
| `Implements` | `Spec => ImplementsAdmission` |

`TypeOK` is not inductive: that an address put into `ip` belongs to the pool when it is
freed, and that the session of a request is a token, depends on where the request is.
`ControlInv` states this. `StepKinds` then reduces the actions to the few kinds of step
that touch slots, addresses and connections (take or return a slot, take or return an
address, publish, mark closed, forget, restart, none of these), so each later invariant
has one case per kind instead of one per action; a list of online users, which touches
locks only, is none of these. `SlotStep` counts the holders of slots with the theorems
on finite sets. For the refinement, `AdmissionStep` maps each kind of step to `Admit`,
`Lease`, `ReturnIp`, `ReturnSlot`, `Restart` or a stutter.

### LockManager

`LockManagerProofs` proves, for any logins, users, addresses and settings:

| Theorem | States |
|---|---|
| `TypeCorrect` | `Spec => []TypeOK` |
| `LocksMatchCounts` | `Spec => []LockIffLimit`, if `WellConfigured` |
| `FailuresBounded` | `Spec => []AttemptsBounded`, if `WellConfigured` |
| `LocksKept` | `Spec => LockKept`, if `WellConfigured` |

`WellConfigured` says that no lock outlasts the reset time of its kind or the expiration
of records, as the sample configuration has it. The built-in defaults do not: there a
count is reset under a lock that still stands, and the lock is lost (section 7). The
hard part is a login that reads the clock, waits, and then updates a record which others
have updated with later clocks. `ClockInv` bounds the clock of a login by `now`;
`RecordStep` reduces every action to what it does to one record; `FlightInv` says that
the count of a locked record, with the logins that have passed its check and may still
add to it, stays within the bound of `AttemptsBounded`; `BInv` joins it to the
invariants above. The count of logins in flight uses the theorems on finite sets.

### IpPool

| Theorem | States |
|---|---|
| `TypeCorrect` | `Spec => []TypeOK`, with the unique keys of the table |
| `ActiveHeld` | `Spec => []ActiveIsHeld` |
| `ReservationsKept` | `Spec => ReservedKept`, if `~EditsInCall` |
| `OwnReturned` | `Spec => ReturnsToOwn`, if `~EditsInCall` |
| `EldestTaken` | `Spec => TakesEldest`, if `~EditsInCall` and no read fails |
| `RefusedWhenFull` | `Spec => RefusesOnlyFull`, under the same assumptions |

The first two hold with any edits and faults, because they do not depend on the
table: `CallInv` carries the fact that matters, that an address on its way to a
client, whether in a copy of a row, as `loopFarIp`, or as the index of a round, is
in the pool and not active. The others do depend on it, and an edit inside a call breaks
them:

- `SnapInv`: what a call has read still holds of the table.
- `OwnInv`: a call that reuses a row of its device has the address of each of its rows,
  and one that has gone on to the rounds has found none of them free. It needs no
  database that works, since `AcquireIp` gives up on an error of its first query.
- `ScanInv`: `PassedOver`, that each free address the rounds have passed is reserved, or
  was used no less recently than the one kept in `loopFarIp`. `Passed` is where a round
  starts in the middle, goes to the end, and a second one begins again: at the end of the
  second round it is every free address, which is `TakesEldest`. A read that fails in a
  round passes an address unseen, hence the assumption.

`CallBegins`, `CallGoesOn`, `FindKinds`, `LoopKinds` and `GrantKind` reduce the actions to
what they do to a call, and `PassOne` is one turn of a round.

### Tunnel

| Theorem | States |
|---|---|
| `TypeCorrect` | `Spec => []TypeOK`, the channels' capacity included |
| `AlwaysExclusive` | `Spec => []Exclusive` |
| `KindsAlwaysKept` | `Spec => []KindsKept` |

`TInv` is `Mem /\ Ctl /\ Net`. `Mem` has types, kinds and `Exclusive` of payloads;
`Ctl` says which goroutine may hold what where, so that a step that sends or returns a
payload has one; `Net` is the rest. The lemmas `GetKeeps`, `SendKeeps`, `ReceiveKeeps`,
`ForgetKeeps`, `JobKeeps` treat the few ways a payload moves, each once, and the actions
cite them. `RangeAppend` and `RangeTail` are the facts about queues without repetition.

### Login

| Theorem | States |
|---|---|
| `TypeCorrect` | `Spec => []TypeOK` |
| `TempUsed` | `Spec => TempUsedUp` |
| `SessionsNeedCodesHolds` | `Spec => []SessionsNeedCodes` |

The last rests on `OtpAssumption`, that a code is remembered no shorter than it is valid.
`CodeInv` turns it into an invariant: a code that was accepted and could still be right is
in `used`, so that the next one that is right is another one (`RightIsNew`). `NeedInv` adds
the inequality of the property, and `EnoughKept`, `EnoughMoved` and `EnoughBoth` are the
steps that leave both sides alone, move a request, or raise both by one.

### Audit

| Theorem | States |
|---|---|
| `TypeCorrect`, `TimerStaysReady` | `Spec => []TypeOK`, `Spec => []TimerReady` |
| `KeysStayIntact` | `Spec => []KeysIntact` |
| `RecordsConserved` | `Spec => []Conserved` |
| `RecordsStayBounded` | `Spec => []RecordsBounded` |

`AInv` strengthens `KeysIntact` by `Buffers`: a buffer is in the pool, with one worker, or
in the map. It also bounds the times a worker may have read. `CountedStep` then follows
each record from its worker to the end.

`RecordsStayBounded` takes a key and an interval that starts at `t`. As long as the time of
the key in the map is before `t` the interval is open: any worker may find the key missing
and record it. A record closes it; a worker whose packet is from before `t` (`Old`) opens
it again when it stores its own time over the newer one. A worker does this once while it is
old, and then has recorded nothing in the interval. `Within` is the inequality that comes
of it, for the records made, the old workers, and those about to record (`Young`), and is
inductive: each of the `n` workers lets at most `n`, then `n - 1` and so on be recorded, so
`n(n + 1) / 2` in all. `Recorded`, `OldDone`, `Closed` and `NotStarted` are its steps,
`Ladder` and `BoundOfWithin` the arithmetic. Nothing less is true: with two workers TLC
finds three records of a key in an interval.

### Cert

| Theorem | States |
|---|---|
| `TypeCorrect` | `Spec => []TypeOK` |
| `AlwaysServed` | `Spec => []DefaultServed` |
| `FilesAreServed` | `Spec => []FilesServed` |
| `StartsFailOnce` | `Spec => []FailsOnce` |

`CInv` says that whatever is in `table` was loaded as a pair and that a process about to
load has one; it needs nothing of the files, which is why crashes and writers that
overlap do no harm. An entry is put in by the one load that has both its parts (`Paired`),
so an answer of `GetCertificateBySNI` is a certificate and its key whichever branch it comes
from; only for names in lower case does the branch of the newest certificate come first. The
other two do depend on the files: `SInv` says that as long as
nothing is mixed one process runs (`Alone`), at which step the files hold what (`Phase`),
and that a start that failed has left a pair to the next (`Retry`).

### Group

`GroupProofs` proves, for any forms, networks, lists of rules and edits:

| Theorem | States |
|---|---|
| `TypeCorrect` | `Spec => []TypeOK` |
| `RowsStable` | `Spec => []Stable` |
| `DefaultRouteResolves` | `Spec => []DefaultRoute` |
| `NameServersReachable` | `Spec => []DnsReachable` |
| `FirstRuleDecides` | `Spec => []FirstMatch` |

`GInv` says of a stored row that it passes its own check and is stored as it is
(`GoodGroup`, `GoodPolicy`), and of a connection (`Link`) that its group is such a row or
one with a policy's routes in it (`Own`), and that its client was told what it says,
however the rows are edited since. `Routed`, that a row without routes or with `"all"` only
has a name server, is true of both sides of `Override`, so of what it mixes.

`Stable` and `FirstMatch` are about loops over lists of any length. The library's
induction theorems cannot be used (they take an operator as a parameter), but what they
rest on can: `Least`, a set of numbers has a least one. `KeptExists` and `WalkedExists`
show by the least number of turns for which there would be none that the recursive
functions of `Keep` and `Walk` exist; `LoopTurn` and `KeepProperties` that a list that was
cleaned has the entries of the old one that are to be kept, and that to clean it again
changes nothing; `WalkAllowed` that the loop lets a packet pass exactly if some rule
applies and the first that does allows it.

### Only model-checked

The liveness properties (`CallsReturn`, `RequestsReturn`, `DisconnectReleases`,
`ListsReturn`, `TunnelEnds`, `Written`), since liveness under fairness is outside this
prover's reach. Every invariant and every action property of the passing runs is a theorem.
`Limits` of `Session` and `TimerReady` of `Audit` are proved and not run by themselves:
`Admission` contains the first, and the collector's `Written` needs the second. The
assumptions `~EditsInCall`, no read that fails, `WellConfigured` and `OtpAssumption` hold
in the runs that check the same properties (`pool_lease` has no failing write either).

## 7. Findings

Two runs end in a violation, each of a property that a document or the sample
configuration states:

- `SlotsAreOnline` (`session_leak`): `NewConn` returns on a failed group lookup
  (`sessdata/session.go:191`) with its slot and address taken; the error returns
  of `LinkTunnel` leave a published connection open that nobody serves.
- `RecordedOnce` (`audit_once`): the same log is recorded more than once in an interval
  (`handler/payload_access_audit.go:177`), where `doc/question.md:55` says once.
  `RecordsBounded` is what remains true.

Others, met while modelling, that the models reproduce as the code has them and that no
run is kept for:

- With a lock time above the reset time `CheckLockState` stops refusing after the reset
  time (`admin/lockmanager.go:399`), so with the defaults a lock of 300 seconds
  (`lock_time`, `base/config.go:83`) lasts 10. `LockKept` holds only if `WellConfigured`:
  with `LockTime` above `ResetTime` for some kind in `LockRace.cfg` TLC finds it violated.
- The cleanup drops every record that is not locked, so failures are forgotten within a
  minute and not after `*_reset_time` (`admin/lockmanager.go:240`, `base/config.go:82`).
- The rules of an access list end in a denial (`handler/payload.go:129`), where the comment
  of `GroupLinkAcl` (`dbdata/group.go:31`) says that the default is to allow. `FirstMatch`
  and its theorem say nothing of a packet that no rule applies to; that such a packet
  passes, as the comment has it, TLC refutes in the instance of `group`.
- A request past `SToken2Sess` publishes its connection on a session an administrator
  has just deleted (`sessdata/session.go:443`).
- `checkSession` deletes sessions from a list it made earlier, so one that reconnected
  since (`Publish` between `ScanExpired` and `SweepOne`) is deleted while active.
- The list of online users with sleeping ones (`sessdata/online.go:54`) builds an empty
  `ConnSession` for a session that has none and panics at `dSess.Load().(*DtlsSession)`
  before it unlocks `Session.mux`. The next list waits for that mutex with `sessMux`
  held. With `"sleepers"` added to `Fault` of `SessionLive.cfg` TLC finds the
  liveness properties violated.
- The takeover of the eldest lease writes a row without an id, which changes none: the
  device has its address but no row (`sessdata/ip_pool.go:238`).
- A call that writes back all columns of the row it read undoes a reservation saved in
  between (`dbdata/ip_map.go:21`).
- A user deleted between the password check and the second read of the row gets a
  session without a one-time code (`handler/link_auth.go:123`); `SessionsNeedCodes`
  leaves that user out.
- A route list with `"all"` twice counts as no default route (`dbdata/group.go:249`), so it
  is stored without a name server, and its client is told no route; `DefaultRoute` leaves
  such a list out.
- `buildNameToCertificate` stores a certificate's names as they are spelt, and
  `GetCertificateBySNI` looks for lower case (`dbdata/cert.go:351`, `:394`, `:400`): a name
  with capitals is never found, and a hello for it gets an older certificate whose wildcard
  matches, or the default. `DefaultServed` promises such a name a certificate with its key and
  no more.
- Interface names of macvtap devices are an address modulo the size of the range less one
  (`handler/link_vtap.go:52`): the first and the last address share one.
- `doArpShow` copies an address of 4 bytes into one of 16 (`pkg/arpdis/lookup.go:55`),
  whose text is then not that of the address, so the table never finds what it stored.

## 8. Not modelled

Database and network I/O as such, packet contents, the crypto libraries, RADIUS and LDAP
servers, ACME, the web console, configuration parsing and logging. Beyond these:

- the ARP table, for the reason given last in section 7: a model of its expiry would
  describe a table that answers nothing;
- the statistics, the rate meters and the activity log, which compute or write values that
  no other part reads;
- the listener of DTLS and its resumption, calls into a library;
- setting up devices, a list of `ip` commands, which `Session` takes as one step that
  may fail;
- `AllowLan` of a group or policy, a header that nothing else depends on;
- editing users and settings, one row at a time with no step that depends on an earlier
  one; the deletion of a user, which does matter to a login, is in `Login`.

`PROJECT.json` gives the reason for each component.

## 9. What could come next

1. `AcquireIp` as an implementation of the open choice of `TakeIp`: a refinement of
   `IpPool` to the part of `Session` that holds addresses.
2. `Login` and `LockManager` in one module, for what a lock promises a user with
   one-time codes.
3. `Tunnel` inside `Session`, so that a connection ends by the steps of its goroutines
   rather than by `IoClose`.
