------------------------------- MODULE IpPool -------------------------------
(***************************************************************************)
(* The address pool of sessdata/ip_pool.go and the table ip_map behind it. *)
(* A row binds an address to the MAC address of a client; it survives a    *)
(* restart, the set of active addresses does not.  AcquireIp and ReleaseIp *)
(* hold ipPoolMux for their whole length, but read and write rows one at a *)
(* time, while the administrator edits the table without that lock         *)
(* (admin/api_ip_map.go).                                                  *)
(*                                                                         *)
(* Addresses are integers.  A row has its age, the time since LastLogin,   *)
(* counted up to one more than the lease.  Row ids stand for the table's   *)
(* auto-increment: an id is fresh if no row has it and nobody holds a copy *)
(* of one.  A call of AcquireIp or ReleaseIp is short against the lease.   *)
(***************************************************************************)
EXTENDS Integers, FiniteSets

CONSTANTS
  Client,       \* sessions that connect and disconnect
  MacOf,        \* Session.MacAddr
  UniqueOf,     \* Session.UniqueMac: whether the client sent a MAC address
  UserOf,       \* Session.Username
  Mac,
  User,         \* user names, perhaps the empty one
  Ip,           \* addresses a row may name
  Lo, Hi,       \* IpLongMin and IpLongMax
  Lease,        \* base.Cfg.IpLease
  RowId,
  Page,         \* how many of a user's rows AcquireIp looks at (30 in the code)
  EditsInCall,  \* whether the administrator's edits fall into running calls too
  Fault,        \* which of the database's "read" and "write" may fail
  NULL

Pool == Lo..Hi

VARIABLES
  rows,      \* the table
  ipActive,
  loopCurIp,
  conn,      \* the address of a client's connection
  acq,       \* the call that holds ipPoolMux
  form       \* the row in the administrator's edit form

vars == <<rows, ipActive, loopCurIp, conn, acq, form>>

Age == 0..(Lease + 1)
Row == [id : RowId, ip : Ip, mac : Mac, uniq : BOOLEAN, user : User,
        keep : BOOLEAN, age : Age]

(***************************************************************************)
(* acq: "find" looks for the rows of the client; "reuse" writes one back;  *)
(* "drop" deletes it; "first" and "second" are the two rounds of loopIp,   *)
(* from loopCurIp up and from the start to loopCurIp; "renew" and "add"    *)
(* end a round by writing a row.  "touch" is ReleaseIp.  row is the copy a *)
(* call has read, far is loopFarIp.                                        *)
(***************************************************************************)
Phase == {"find", "reuse", "drop", "first", "second", "renew", "add", "touch"}
Call  == [client : Client, phase : Phase, i : Nat, row : Row \cup {NULL}, far : Row \cup {NULL}]

ASSUME PoolAssumption ==
  /\ MacOf \in [Client -> Mac] /\ UniqueOf \in [Client -> BOOLEAN] /\ UserOf \in [Client -> User]
  /\ Lo \in Nat /\ Hi \in Nat /\ Lo <= Hi /\ Pool \subseteq Ip /\ Ip \subseteq Nat
  /\ Lease \in Nat /\ Page \in Nat \ {0}
  /\ EditsInCall \in BOOLEAN /\ Fault \subseteq {"read", "write"}
  /\ NULL \notin Ip \cup Row \cup Call

-----------------------------------------------------------------------------
(* The table; ip_addr, mac_addr and the id are unique keys.                *)

RowsOfMac(m) == {r \in rows : r.mac = m}
RowsAt(a)    == {r \in rows : r.ip = a}

Conflicts(r) == {s \in rows : s.id # r.id /\ (s.ip = r.ip \/ s.mac = r.mac)}

\* Mutated: the table has no unique keys.
SetAnyKey(r) ==
  rows' = IF \E s \in rows : s.id = r.id THEN {s \in rows : s.id # r.id} \cup {r} ELSE rows

\* Set: by id, all columns; no effect if the row is gone or a key is taken.
Set(r) ==
  rows' = IF Conflicts(r) = {} /\ \E s \in rows : s.id = r.id
          THEN {s \in rows : s.id # r.id} \cup {r} ELSE rows

Held == {c.id : c \in {form} \ {NULL}}
        \cup (IF acq = NULL THEN {} ELSE {c.id : c \in {acq.row, acq.far} \ {NULL}})

\* Add: under a fresh id; no effect if a key is taken.
Add(a, m, q, u, k, g) ==
  IF RowsAt(a) \cup RowsOfMac(m) # {} THEN rows' = rows
  ELSE \E d \in RowId \ ({r.id : r \in rows} \cup Held) :
         rows' = rows \cup {[id |-> d, ip |-> a, mac |-> m, uniq |-> q, user |-> u, keep |-> k, age |-> g]}

\* The code drops the error of every write.
Lost == "write" \in Fault /\ UNCHANGED rows

\* A copy of row r, rewritten for client c that logs in now.
For(c, r) == [r EXCEPT !.mac = MacOf[c], !.uniq = UniqueOf[c], !.user = UserOf[c], !.age = 0]

-----------------------------------------------------------------------------
\* The first start; later ones keep the table (Restart).
Init ==
  /\ rows = {}
  /\ ipActive = {} /\ loopCurIp = Lo
  /\ conn = [c \in Client |-> NULL]
  /\ acq = NULL /\ form = NULL

Aged(r) == [r EXCEPT !.age = IF @ <= Lease THEN @ + 1 ELSE @]

Tick ==
  /\ acq = NULL
  /\ rows' = {Aged(r) : r \in rows}
  /\ form' = IF form = NULL THEN NULL ELSE Aged(form)
  /\ UNCHANGED <<ipActive, loopCurIp, conn, acq>>

Restart ==
  /\ ipActive' = {} /\ loopCurIp' = Lo
  /\ conn' = [c \in Client |-> NULL]
  /\ acq' = NULL
  /\ UNCHANGED <<rows, form>>

-----------------------------------------------------------------------------
(* AcquireIp, loopIp and loopLong.                                         *)

Acquire(c) ==
  /\ acq = NULL /\ conn[c] = NULL
  /\ acq' = [client |-> c, phase |-> "find", i |-> 0, row |-> NULL, far |-> NULL]
  /\ UNCHANGED <<rows, ipActive, loopCurIp, conn, form>>

At(p) == acq # NULL /\ acq.phase = p

Goto(p) == acq' = [acq EXCEPT !.phase = p] /\ UNCHANGED <<rows, ipActive, loopCurIp, conn, form>>

WriteNext(p, r) == /\ acq' = [acq EXCEPT !.phase = p, !.row = r]
                   /\ UNCHANGED <<rows, ipActive, loopCurIp, conn, form>>

FirstRound == /\ acq' = [acq EXCEPT !.phase = "first", !.i = loopCurIp, !.row = NULL]
              /\ UNCHANGED <<ipActive, loopCurIp, conn, form>>

\* The address becomes active and the call returns it ...
Grant(a) ==
  /\ ipActive' = ipActive \cup {a}
  /\ conn' = [conn EXCEPT ![acq.client] = a]
  /\ acq' = NULL

\* ... or it returns nil.
Refuse == acq' = NULL /\ UNCHANGED <<rows, ipActive, conn, form>>

ReadFails == "read" \in Fault

\* Mutated: the address of the row may be in use.
FindMacInUse ==
  /\ At("find") /\ UniqueOf[acq.client]
  /\ LET mine == RowsOfMac(MacOf[acq.client]) IN
     \/ mine = {} /\ FirstRound /\ UNCHANGED rows
     \/ \E r \in mine : r.ip \in Pool /\ WriteNext("reuse", For(acq.client, r))
     \/ \E r \in mine : /\ r.ip \notin Pool
                        /\ IF r.keep THEN Refuse /\ UNCHANGED loopCurIp ELSE Goto("drop")
     \/ ReadFails /\ Refuse /\ UNCHANGED loopCurIp

\* Mutated: the row counts only while the lease runs, and is left in place.
FindMacLeased ==
  /\ At("find") /\ UniqueOf[acq.client]
  /\ LET mine == RowsOfMac(MacOf[acq.client]) IN
     \/ mine = {} /\ FirstRound /\ UNCHANGED rows
     \/ \E r \in mine : /\ r.ip \notin ipActive /\ r.ip \in Pool
                        /\ IF r.age <= Lease THEN WriteNext("reuse", For(acq.client, r))
                                            ELSE FirstRound /\ UNCHANGED rows
     \/ \E r \in mine : /\ r.ip \in ipActive \/ r.ip \notin Pool
                        /\ IF r.keep THEN Refuse /\ UNCHANGED loopCurIp ELSE Goto("drop")
     \/ ReadFails /\ Refuse /\ UNCHANGED loopCurIp

\* A client with a MAC address of its own: the row of that address.
FindMac ==
  /\ At("find") /\ UniqueOf[acq.client]
  /\ LET mine == RowsOfMac(MacOf[acq.client]) IN
     \/ mine = {} /\ FirstRound /\ UNCHANGED rows
     \/ \E r \in mine : /\ r.ip \notin ipActive /\ r.ip \in Pool
                        /\ WriteNext("reuse", For(acq.client, r))
     \/ \E r \in mine : /\ r.ip \in ipActive \/ r.ip \notin Pool
                        /\ IF r.keep THEN Refuse /\ UNCHANGED loopCurIp ELSE Goto("drop")
     \/ ReadFails /\ Refuse /\ UNCHANGED loopCurIp

\* Another client: the first usable row of the user's earlier connections, in the
\* order of the database.  Only one page of them is looked at; it may be full of
\* rows that are not usable.
FindUser ==
  /\ At("find") /\ ~UniqueOf[acq.client]
  /\ LET mine   == {r \in rows : r.user = UserOf[acq.client]}
         usable == {r \in mine : r.ip \notin ipActive /\ ~r.keep /\ ~r.uniq /\ r.ip \in Pool} IN
     \/ /\ usable = {} \/ Cardinality(mine \ usable) >= Page
        /\ FirstRound /\ UNCHANGED rows
     \/ \E r \in usable : WriteNext("reuse", For(acq.client, r))
     \/ ReadFails /\ Refuse /\ UNCHANGED loopCurIp

Reuse ==
  /\ At("reuse")
  /\ Set(acq.row) \/ Lost
  /\ Grant(acq.row.ip)
  /\ UNCHANGED <<loopCurIp, form>>

\* The row of a MAC address whose address is in use is deleted.
Drop ==
  /\ At("drop")
  /\ rows' = rows \ RowsOfMac(MacOf[acq.client]) \/ Lost
  /\ FirstRound

RoundEnd == IF acq.phase = "first" THEN Hi ELSE loopCurIp

\* Mutated: a reserved address is not passed over.
LoopTakesReserved ==
  LET i == acq.i
      skip == acq' = [acq EXCEPT !.i = i + 1] IN
  /\ At("first") \/ At("second")
  /\ i <= RoundEnd
  /\ \/ i \in ipActive /\ skip
     \/ /\ i \notin ipActive
        /\ \/ RowsAt(i) = {} /\ acq' = [acq EXCEPT !.phase = "add"]
           \/ \E r \in RowsAt(i) :
                \/ r.age > Lease /\ acq' = [acq EXCEPT !.phase = "renew", !.row = For(acq.client, r)]
                \/ /\ r.age <= Lease
                   /\ acq' = [acq EXCEPT !.i = i + 1,
                                !.far = IF @ = NULL \/ r.age > @.age THEN r ELSE @]
           \/ ReadFails /\ acq' = [acq EXCEPT !.i = RoundEnd + 1]
  /\ UNCHANGED <<rows, ipActive, loopCurIp, conn, form>>

\* Mutated: the address used last is kept in mind.
LoopTakesLatest ==
  LET i == acq.i
      skip == acq' = [acq EXCEPT !.i = i + 1] IN
  /\ At("first") \/ At("second")
  /\ i <= RoundEnd
  /\ \/ i \in ipActive /\ skip
     \/ /\ i \notin ipActive
        /\ \/ RowsAt(i) = {} /\ acq' = [acq EXCEPT !.phase = "add"]
           \/ \E r \in RowsAt(i) :
                \/ r.keep /\ skip
                \/ ~r.keep /\ r.age > Lease /\ acq' = [acq EXCEPT !.phase = "renew", !.row = For(acq.client, r)]
                \/ /\ ~r.keep /\ r.age <= Lease
                   /\ acq' = [acq EXCEPT !.i = i + 1,
                                !.far = IF @ = NULL \/ r.age < @.age THEN r ELSE @]
           \/ ReadFails /\ acq' = [acq EXCEPT !.i = RoundEnd + 1]
  /\ UNCHANGED <<rows, ipActive, loopCurIp, conn, form>>

\* loopLong takes the next address: free, leased out long ago, or kept in mind if
\* it is the one unused for longest.
Loop ==
  LET i == acq.i
      skip == acq' = [acq EXCEPT !.i = i + 1] IN
  /\ At("first") \/ At("second")
  /\ i <= RoundEnd
  /\ \/ i \in ipActive /\ skip
     \/ /\ i \notin ipActive
        /\ \/ RowsAt(i) = {} /\ acq' = [acq EXCEPT !.phase = "add"]
           \/ \E r \in RowsAt(i) :
                \/ r.keep /\ skip
                \/ ~r.keep /\ r.age > Lease /\ acq' = [acq EXCEPT !.phase = "renew", !.row = For(acq.client, r)]
                \/ /\ ~r.keep /\ r.age <= Lease
                   /\ acq' = [acq EXCEPT !.i = i + 1,
                                !.far = IF @ = NULL \/ r.age > @.age THEN r ELSE @]
           \/ ReadFails /\ acq' = [acq EXCEPT !.i = RoundEnd + 1]
  /\ UNCHANGED <<rows, ipActive, loopCurIp, conn, form>>

AddRow ==
  /\ At("add")
  /\ LET c == acq.client IN Add(acq.i, MacOf[c], UniqueOf[c], UserOf[c], FALSE, 0) \/ Lost
  /\ loopCurIp' = acq.i
  /\ Grant(acq.i)
  /\ UNCHANGED form

Renew ==
  /\ At("renew")
  /\ Set(acq.row) \/ Lost
  /\ loopCurIp' = acq.i
  /\ Grant(acq.i)
  /\ UNCHANGED form

\* Mutated: the second round starts where the first did.
SecondFromHere ==
  /\ At("first") /\ acq.i > Hi
  /\ acq' = [acq EXCEPT !.phase = "second", !.i = loopCurIp]
  /\ UNCHANGED <<rows, ipActive, loopCurIp, conn, form>>

SecondRound ==
  /\ At("first") /\ acq.i > Hi
  /\ acq' = [acq EXCEPT !.phase = "second", !.i = Lo]
  /\ UNCHANGED <<rows, ipActive, loopCurIp, conn, form>>

\* After both rounds the address unused for longest is taken.  The row it writes
\* has no id, so no row changes.
TakeFar ==
  /\ At("second") /\ acq.i > loopCurIp
  /\ loopCurIp' = Lo
  /\ IF acq.far # NULL THEN Grant(acq.far.ip) /\ UNCHANGED <<rows, form>> ELSE Refuse

-----------------------------------------------------------------------------
(* ReleaseIp.                                                              *)

Release(c) ==
  /\ acq = NULL /\ conn[c] # NULL
  /\ ipActive' = ipActive \ {conn[c]}
  /\ conn' = [conn EXCEPT ![c] = NULL]
  /\ \/ RowsAt(conn[c]) = {} /\ UNCHANGED acq
     \/ \E r \in RowsAt(conn[c]) :
          acq' = [client |-> c, phase |-> "touch", i |-> 0, row |-> [r EXCEPT !.age = 0], far |-> NULL]
     \/ ReadFails /\ UNCHANGED acq
  /\ UNCHANGED <<rows, loopCurIp, form>>

Touch ==
  /\ At("touch")
  /\ Set(acq.row) \/ Lost
  /\ acq' = NULL
  /\ UNCHANGED <<ipActive, loopCurIp, conn, form>>

-----------------------------------------------------------------------------
(* UserIpMapDetail, UserIpMapSet and UserIpMapDel.                         *)

MayEdit == acq = NULL \/ EditsInCall

OpenForm(r) ==
  /\ form = NULL
  /\ form' = r
  /\ UNCHANGED <<rows, ipActive, loopCurIp, conn, acq>>

\* The form is saved as it is, with the fields the administrator changed.
SaveForm(a, m, u, k) ==
  /\ form # NULL /\ MayEdit
  /\ Set([form EXCEPT !.ip = a, !.mac = m, !.user = u, !.keep = k])
  /\ form' = NULL
  /\ UNCHANGED <<ipActive, loopCurIp, conn, acq>>

\* A new row has no LastLogin.
NewRow(a, m, u, k) ==
  /\ form = NULL /\ MayEdit
  /\ Add(a, m, FALSE, u, k, Lease + 1)
  /\ UNCHANGED <<ipActive, loopCurIp, conn, acq, form>>

DelRow(r) ==
  /\ MayEdit
  /\ rows' = rows \ {r}
  /\ UNCHANGED <<ipActive, loopCurIp, conn, acq, form>>

AdminEdit == \/ \E r \in rows : DelRow(r)
             \/ \E a \in Ip, m \in Mac, u \in User, k \in BOOLEAN :
                  SaveForm(a, m, u, k) \/ NewRow(a, m, u, k)

-----------------------------------------------------------------------------
Next ==
  \/ Tick \/ Restart
  \/ \E c \in Client : Acquire(c) \/ Release(c)
  \/ FindMac \/ FindUser \/ Reuse \/ Drop
  \/ Loop \/ AddRow \/ Renew \/ SecondRound \/ TakeFar
  \/ Touch
  \/ \E r \in rows : OpenForm(r)
  \/ AdminEdit

Spec == Init /\ [][Next]_vars
-----------------------------------------------------------------------------
(* Properties.                                                             *)

\* Types, and the unique keys of the table.
TypeOK ==
  /\ rows \subseteq Row
  /\ \A r, s \in rows : r = s \/ (r.id # s.id /\ r.ip # s.ip /\ r.mac # s.mac)
  /\ ipActive \subseteq Pool /\ loopCurIp \in Pool
  /\ conn \in [Client -> Pool \cup {NULL}]
  /\ acq \in Call \cup {NULL}
  /\ form \in Row \cup {NULL}

\* The active addresses are those of the connections, no two of which share one,
\* however the administrator edits the table and whichever writes to it fail.
ActiveIsHeld ==
  /\ ipActive = {conn[c] : c \in Client} \ {NULL}
  /\ \A c, d \in Client : conn[c] # NULL /\ conn[c] = conn[d] => c = d

\* Client c gets an address in this step.
Granted(c) == conn[c] = NULL /\ conn'[c] # NULL

\* An address reserved for a MAC address goes to no client with another, whether
\* its own row, the user's rows, a round or the takeover leads there.
ReservedKept ==
  [][\A c \in Client : Granted(c) =>
       \A r \in RowsAt(conn'[c]) : r.keep => r.mac = MacOf[c]]_vars

\* An address whose lease runs is taken from another MAC address only if every
\* other address of the pool is active, reserved, or was used no less recently;
\* only the user's own address without a MAC is taken at once.
TakesEldest ==
  [][\A c \in Client : Granted(c) =>
       \A r \in RowsAt(conn'[c]) :
         r.mac # MacOf[c] /\ r.user # UserOf[c] /\ r.age <= Lease =>
           \A a \in Pool \ ipActive : \E s \in RowsAt(a) : s.keep \/ s.age <= r.age]_vars

\* A device that comes back gets the address of its row, reserved or not, with the
\* lease running or over, unless the address is active or the pool has been moved
\* away from it.
ReturnsToOwn ==
  [][\A c \in Client : Granted(c) /\ UniqueOf[c] =>
       \A r \in RowsOfMac(MacOf[c]) : r.ip \in Pool \ ipActive => conn'[c] = r.ip]_vars

\* A client is turned away only if every address is active or reserved, or its
\* own reserved address cannot be had.
RefusesOnlyFull ==
  [][(FindMac \/ TakeFar) /\ acq' = NULL /\ conn' = conn =>
       \/ \A a \in Pool : a \in ipActive \/ \E r \in RowsAt(a) : r.keep
       \/ \E r \in RowsOfMac(MacOf[acq.client]) : r.keep]_vars
=============================================================================
