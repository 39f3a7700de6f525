---------------------------- MODULE IpPoolProofs ----------------------------
(***************************************************************************)
(* Theorems about IpPool for any clients, addresses and leases, proved     *)
(* with TLAPS.  What a call has read and carries with it is bounded by     *)
(* CallInv: the address a running call is about to hand out is in the pool *)
(* and not active.  SnapInv adds, for an administrator who edits between   *)
(* calls only, that the copies of a call still match the table.            *)
(***************************************************************************)
EXTENDS IpPool, TLAPS

\* No two rows share an id, an address or a MAC address.
Keyed == \A r, s \in rows : r = s \/ (r.id # s.id /\ r.ip # s.ip /\ r.mac # s.mac)

\* What a running call carries.
CallInv ==
  acq # NULL =>
    /\ acq.phase # "touch" => conn[acq.client] = NULL
    /\ acq.phase \in {"reuse", "renew", "touch"} => acq.row \in Row
    /\ acq.phase = "reuse" => acq.row.ip \in Pool \ ipActive
    /\ acq.phase \in {"first", "second", "add", "renew"} => acq.i >= Lo
    /\ acq.phase \in {"add", "renew"} => acq.i \in Pool \ ipActive
    /\ acq.far # NULL => acq.far.ip \in Pool \ ipActive

HInv == TypeOK /\ CallInv /\ ActiveIsHeld

-----------------------------------------------------------------------------
(* The table.                                                              *)

\* Set keeps the rows well typed and their keys unique: it takes no key of
\* another row.
LEMMA SetKeeps ==
  ASSUME TypeOK, NEW r \in Row, Set(r)
  PROVE  rows' \subseteq Row /\ Keyed'
<1>1. rows \subseteq Row /\ Keyed
  BY DEF TypeOK, Keyed
<1>2. CASE rows' = rows
  BY <1>1, <1>2 DEF Keyed
<1>3. CASE Conflicts(r) = {} /\ rows' = {s \in rows : s.id # r.id} \cup {r}
  <2>1. \A s \in rows : s.id # r.id => s.ip # r.ip /\ s.mac # r.mac
    BY <1>3 DEF Conflicts
  <2>2. rows' \subseteq Row
    BY <1>1, <1>3
  <2> QED
    BY <1>1, <1>3, <2>1, <2>2 DEF Keyed
<1> QED
  BY <1>2, <1>3 DEF Set

\* Add keeps them too: the id is fresh, and the address and the MAC address are
\* not in the table.
LEMMA AddKeeps ==
  ASSUME TypeOK, NEW n \in Row, n.id \notin {r.id : r \in rows},
         RowsAt(n.ip) \cup RowsOfMac(n.mac) = {}, rows' = rows \cup {n}
  PROVE  rows' \subseteq Row /\ Keyed'
<1>1. rows \subseteq Row /\ Keyed
  BY DEF TypeOK, Keyed
<1>2. \A s \in rows : s.id # n.id /\ s.ip # n.ip /\ s.mac # n.mac
  BY DEF RowsAt, RowsOfMac
<1> QED
  BY <1>1, <1>2 DEF Keyed

\* The copy a call writes back is a row.
LEMMA ForType ==
  ASSUME PoolAssumption, NEW c \in Client, NEW r \in Row
  PROVE  For(c, r) \in Row /\ For(c, r).ip = r.ip
<1>1. MacOf[c] \in Mac /\ UniqueOf[c] \in BOOLEAN /\ UserOf[c] \in User /\ 0 \in Age
  BY DEF PoolAssumption, Age
<1> DEFINE m == MacOf[c]  q == UniqueOf[c]  u == UserOf[c]
           n == [r EXCEPT !.mac = m, !.uniq = q, !.user = u, !.age = 0]
<1>2. n \in Row /\ n.ip = r.ip
  <2> HIDE DEF m, q, u
  <2>1. m \in Mac /\ q \in BOOLEAN /\ u \in User /\ 0 \in Age
    BY <1>1 DEF m, q, u
  <2> QED BY <2>1 DEF Row
<1> QED
  BY <1>2 DEF For

LEMMA AgedType ==
  ASSUME PoolAssumption, NEW r \in Row
  PROVE  /\ Aged(r) \in Row /\ Aged(r).id = r.id /\ Aged(r).ip = r.ip
         /\ Aged(r).mac = r.mac /\ Aged(r).keep = r.keep
BY DEF Aged, Row, Age, PoolAssumption

-----------------------------------------------------------------------------
(* TypeOK, CallInv and ActiveIsHeld.                                       *)

LEMMA HInit ==
  ASSUME PoolAssumption, Init PROVE HInv
BY DEF PoolAssumption, Init, HInv, TypeOK, CallInv, ActiveIsHeld, Pool

\* What HInv says of the types.
LEMMA HTypes ==
  ASSUME PoolAssumption, HInv
  PROVE  /\ rows \subseteq Row /\ Keyed /\ ipActive \subseteq Pool /\ loopCurIp \in Pool
         /\ conn \in [Client -> Pool \cup {NULL}]
         /\ acq # NULL => acq \in Call /\ acq.client \in Client
         /\ form \in Row \cup {NULL}
         /\ Lo \in Nat /\ Hi \in Nat /\ Lo <= Hi /\ Pool \subseteq Ip /\ Pool \subseteq Nat
         /\ \A r \in Row : r.ip \in Ip /\ r.mac \in Mac
BY DEF PoolAssumption, HInv, TypeOK, Keyed, Call, Row, Pool

\* Only a step that changes the pool or a connection can touch ActiveIsHeld.
LEMMA HStill ==
  ASSUME HInv, UNCHANGED <<ipActive, conn>> PROVE ActiveIsHeld'
BY DEF HInv, ActiveIsHeld

\* The table changes and nothing else.
LEMMA EditKeeps ==
  ASSUME HInv, rows' \subseteq Row, Keyed', UNCHANGED <<ipActive, loopCurIp, conn, acq>>,
         form' \in Row \cup {NULL}
  PROVE  HInv'
BY HStill DEF HInv, TypeOK, Keyed, CallInv

\* A call hands out an address that is not active and ends.
LEMMA GrantKeeps ==
  ASSUME PoolAssumption, HInv, acq # NULL, acq.phase # "touch",
         NEW a \in Pool \ ipActive, Grant(a),
         rows' \subseteq Row, Keyed', loopCurIp' \in Pool, form' = form
  PROVE  HInv'
<1>1. /\ acq.client \in Client /\ conn[acq.client] = NULL
      /\ conn \in [Client -> Pool \cup {NULL}] /\ ipActive \subseteq Pool
  BY HTypes DEF HInv, CallInv
<1>2. /\ ipActive' = ipActive \cup {a} /\ acq' = NULL
      /\ conn' = [conn EXCEPT ![acq.client] = a]
  BY DEF Grant
<1>3. a # NULL /\ \A c \in Client : conn[c] # a
  <2>1. a # NULL
    BY HTypes DEF PoolAssumption
  <2> QED
    BY <2>1 DEF HInv, ActiveIsHeld
<1>4. ipActive' = {conn'[c] : c \in Client} \ {NULL}
  BY <1>1, <1>2, <1>3 DEF HInv, ActiveIsHeld
<1>5. \A c, d \in Client : conn'[c] # NULL /\ conn'[c] = conn'[d] => c = d
  BY <1>1, <1>2, <1>3 DEF HInv, ActiveIsHeld
<1> QED
  BY <1>1, <1>2, <1>4, <1>5 DEF ActiveIsHeld, HInv, TypeOK, Keyed, CallInv

\* A call that returns nil.
LEMMA RefuseKeeps ==
  ASSUME PoolAssumption, HInv, Refuse, loopCurIp' \in Pool PROVE HInv'
BY HTypes, HStill DEF Refuse, HInv, TypeOK, Keyed, CallInv

\* A call that goes on.
LEMMA GoesOn ==
  ASSUME HInv, acq # NULL, acq.phase # "touch",
         acq' \in Call, acq'.client = acq.client, acq'.phase # "touch",
         acq'.phase \in {"reuse", "renew"} => acq'.row \in Row,
         acq'.phase = "reuse" => acq'.row.ip \in Pool \ ipActive,
         acq'.phase \in {"first", "second", "add", "renew"} => acq'.i >= Lo,
         acq'.phase \in {"add", "renew"} => acq'.i \in Pool \ ipActive,
         acq'.far # NULL => acq'.far.ip \in Pool \ ipActive,
         rows' \subseteq Row, Keyed', UNCHANGED <<ipActive, loopCurIp, conn, form>>
  PROVE  HInv'
<1>1. conn[acq.client] = NULL
  BY DEF HInv, CallInv
<1>2. TypeOK' /\ ActiveIsHeld'
  BY HStill DEF HInv, TypeOK, Keyed
<1>3. CallInv'
  BY <1>1 DEF CallInv
<1> QED
  BY <1>2, <1>3 DEF HInv

LEMMA FirstRoundKeeps ==
  ASSUME PoolAssumption, HInv, acq # NULL, acq.phase # "touch", FirstRound,
         rows' \subseteq Row, Keyed'
  PROVE  HInv'
<1>1. /\ acq' \in Call /\ acq'.client = acq.client /\ acq'.phase = "first"
      /\ acq'.i = loopCurIp /\ acq'.far = acq.far
  BY HTypes DEF FirstRound, Call, Phase
<1>2. acq.far # NULL => acq.far.ip \in Pool \ ipActive
  BY DEF HInv, CallInv
<1>3. loopCurIp >= Lo
  BY HTypes DEF Pool
<1> QED
  BY <1>1, <1>2, <1>3, GoesOn DEF FirstRound

\* A copy that a call is about to write back to an address it can have.
LEMMA ReuseNext ==
  ASSUME PoolAssumption, HInv, acq # NULL, acq.phase = "find",
         NEW r \in rows, r.ip \in Pool \ ipActive, WriteNext("reuse", For(acq.client, r))
  PROVE  HInv'
<1>1. acq \in Call /\ acq.client \in Client /\ r \in Row
  BY HTypes
<1>2. For(acq.client, r) \in Row /\ For(acq.client, r).ip = r.ip
  BY <1>1, ForType
<1> HIDE DEF For
<1>3. /\ acq' = [acq EXCEPT !.phase = "reuse", !.row = For(acq.client, r)]
      /\ UNCHANGED <<rows, ipActive, loopCurIp, conn, form>>
  BY DEF WriteNext
<1>4. /\ acq' \in Call /\ acq'.client = acq.client /\ acq'.phase = "reuse"
      /\ acq'.row = For(acq.client, r) /\ acq'.far = acq.far
  BY <1>1, <1>2, <1>3 DEF Call, Phase
<1>5. rows' \subseteq Row /\ Keyed'
  BY <1>3, HTypes DEF Keyed
<1>6. acq.far # NULL => acq.far.ip \in Pool \ ipActive
  BY DEF HInv, CallInv
<1> QED
  BY <1>2, <1>3, <1>4, <1>5, <1>6, GoesOn

LEMMA FindKeeps ==
  ASSUME PoolAssumption, HInv, FindMac \/ FindUser PROVE HInv'
<1>1. acq # NULL /\ acq.phase = "find" /\ acq \in Call /\ rows \subseteq Row /\ Keyed
  BY HTypes DEF FindMac, FindUser, At
<1>2. CASE FirstRound /\ UNCHANGED rows
  BY <1>1, <1>2, FirstRoundKeeps DEF Keyed
<1>3. CASE Refuse /\ UNCHANGED loopCurIp
  BY <1>3, HTypes, RefuseKeeps
<1>4. ASSUME NEW r \in rows, r.ip \in Pool \ ipActive, WriteNext("reuse", For(acq.client, r))
      PROVE  HInv'
  BY <1>1, <1>4, ReuseNext
<1>5. CASE Goto("drop")
  <2>1. /\ acq' \in Call /\ acq'.client = acq.client /\ acq'.phase = "drop"
        /\ acq'.far = acq.far
        /\ UNCHANGED <<rows, ipActive, loopCurIp, conn, form>>
    BY <1>1, <1>5 DEF Goto, Call, Phase
  <2>2. acq.far # NULL => acq.far.ip \in Pool \ ipActive
    BY <1>1 DEF HInv, CallInv
  <2> QED
    BY <1>1, <2>1, <2>2, GoesOn DEF Keyed
<1>6. CASE FindMac
  BY <1>2, <1>3, <1>4, <1>5, <1>6 DEF FindMac, RowsOfMac
<1>7. CASE FindUser
  BY <1>2, <1>3, <1>4, <1>7 DEF FindUser
<1> QED
  BY <1>6, <1>7

\* A call that hands out the address of the copy it writes back.
LEMMA ReuseKeeps ==
  ASSUME PoolAssumption, HInv, Reuse PROVE HInv'
<1>1. /\ acq # NULL /\ acq.phase = "reuse"
      /\ acq.row \in Row /\ acq.row.ip \in Pool \ ipActive
  BY DEF Reuse, At, HInv, CallInv
<1>2. rows' \subseteq Row /\ Keyed'
  BY <1>1, HTypes, SetKeeps DEF Reuse, Lost, HInv, Keyed
<1> QED
  BY <1>1, <1>2, HTypes, GrantKeeps DEF Reuse

LEMMA DropKeeps ==
  ASSUME PoolAssumption, HInv, Drop PROVE HInv'
<1>1. rows' \subseteq Row /\ Keyed'
  BY HTypes DEF Drop, Lost, Keyed
<1> QED
  BY <1>1, FirstRoundKeeps DEF Drop, At

LEMMA LoopKeeps ==
  ASSUME PoolAssumption, HInv, Loop PROVE HInv'
<1>1. /\ acq # NULL /\ acq \in Call /\ acq.client \in Client /\ acq.phase \in {"first", "second"}
      /\ acq.i \in Nat /\ acq.i >= Lo /\ acq.i <= RoundEnd
      /\ acq.far # NULL => acq.far.ip \in Pool \ ipActive
  BY HTypes DEF Loop, At, HInv, CallInv, Call
<1>2. RoundEnd \in Nat /\ RoundEnd <= Hi /\ RoundEnd >= Lo /\ acq.i \in Pool
  BY <1>1, HTypes DEF RoundEnd, Pool
<1>3. rows' \subseteq Row /\ Keyed' /\ UNCHANGED <<rows, ipActive, loopCurIp, conn, form>>
  BY HTypes DEF Loop, Keyed
\* The next address, or none after an error.
<1>4. ASSUME NEW j \in {acq.i + 1, RoundEnd + 1}, acq' = [acq EXCEPT !.i = j] PROVE HInv'
  <2>1. /\ acq' \in Call /\ acq'.client = acq.client /\ acq'.phase = acq.phase
        /\ acq'.i = j /\ j >= Lo /\ acq'.far = acq.far
    BY <1>1, <1>2, <1>4, HTypes DEF Call
  <2> QED
    BY <1>1, <1>3, <2>1, GoesOn
<1>5. ASSUME acq.i \notin ipActive, acq' = [acq EXCEPT !.phase = "add"] PROVE HInv'
  <2>1. /\ acq' \in Call /\ acq'.client = acq.client /\ acq'.phase = "add"
        /\ acq'.i = acq.i /\ acq'.far = acq.far
    BY <1>1, <1>5 DEF Call, Phase
  <2> QED
    BY <1>1, <1>2, <1>3, <1>5, <2>1, GoesOn
<1>6. ASSUME NEW r \in RowsAt(acq.i), acq.i \notin ipActive,
             acq' = [acq EXCEPT !.phase = "renew", !.row = For(acq.client, r)]
      PROVE  HInv'
  <2>1. For(acq.client, r) \in Row
    BY <1>1, HTypes, ForType DEF RowsAt
  <2>2. /\ acq' \in Call /\ acq'.client = acq.client /\ acq'.phase = "renew"
        /\ acq'.i = acq.i /\ acq'.row \in Row /\ acq'.far = acq.far
    BY <1>1, <1>6, <2>1 DEF Call, Phase
  <2> QED
    BY <1>1, <1>2, <1>3, <1>6, <2>2, GoesOn
<1>7. ASSUME NEW r \in RowsAt(acq.i), acq.i \notin ipActive, NEW f \in {acq.far, r},
             acq' = [acq EXCEPT !.i = acq.i + 1, !.far = f]
      PROVE  HInv'
  <2>1. r \in Row /\ r.ip = acq.i
    BY HTypes DEF RowsAt
  <2>2. f # NULL => f.ip \in Pool \ ipActive
    BY <1>1, <1>2, <1>7, <2>1
  <2>3. f \in Row \cup {NULL}
    BY <1>1, <1>7, <2>1 DEF Call
  <2>4. acq.i + 1 \in Nat /\ acq.i + 1 >= Lo
    BY <1>1, HTypes
  <2>5. /\ acq' \in Call /\ acq'.client = acq.client /\ acq'.phase = acq.phase
        /\ acq'.i = acq.i + 1 /\ acq'.far = f
    BY <1>1, <1>7, <2>3, <2>4 DEF Call
  <2> QED
    BY <1>1, <1>3, <2>2, <2>4, <2>5, GoesOn
<1>8. \/ acq' = [acq EXCEPT !.i = acq.i + 1]
      \/ acq' = [acq EXCEPT !.i = RoundEnd + 1]
      \/ acq.i \notin ipActive /\ acq' = [acq EXCEPT !.phase = "add"]
      \/ \E r \in RowsAt(acq.i) :
           /\ acq.i \notin ipActive
           /\ \/ acq' = [acq EXCEPT !.phase = "renew", !.row = For(acq.client, r)]
              \/ \E f \in {acq.far, r} : acq' = [acq EXCEPT !.i = acq.i + 1, !.far = f]
  BY DEF Loop
<1> QED
  BY <1>4, <1>5, <1>6, <1>7, <1>8

LEMMA RoundEnds ==
  ASSUME PoolAssumption, HInv, AddRow \/ Renew PROVE HInv'
<1>1. /\ acq # NULL /\ acq.phase \in {"add", "renew"} /\ acq.client \in Client
      /\ acq.i \in Pool \ ipActive
      /\ acq.phase = "renew" => acq.row \in Row
  BY HTypes DEF AddRow, Renew, At, HInv, CallInv
<1>2. CASE AddRow
  <2>1. rows' \subseteq Row /\ Keyed'
    <3>1. CASE UNCHANGED rows
      BY <3>1, HTypes DEF Keyed
    <3>2. CASE /\ Add(acq.i, MacOf[acq.client], UniqueOf[acq.client], UserOf[acq.client], FALSE, 0)
               /\ rows' # rows
      <4>1. /\ MacOf[acq.client] \in Mac /\ UniqueOf[acq.client] \in BOOLEAN
            /\ UserOf[acq.client] \in User /\ FALSE \in BOOLEAN /\ 0 \in Age
        BY <1>1 DEF PoolAssumption, Age
      <4>2. acq.i \in Ip /\ TypeOK
        BY <1>1, HTypes DEF HInv
      <4>3. PICK d \in RowId \ {r.id : r \in rows} :
              rows' = rows \cup {[id |-> d, ip |-> acq.i, mac |-> MacOf[acq.client],
                                  uniq |-> UniqueOf[acq.client], user |-> UserOf[acq.client],
                                  keep |-> FALSE, age |-> 0]}
        BY <3>2 DEF Add
      <4> DEFINE n == [id |-> d, ip |-> acq.i, mac |-> MacOf[acq.client],
                       uniq |-> UniqueOf[acq.client], user |-> UserOf[acq.client],
                       keep |-> FALSE, age |-> 0]
      <4>4. /\ n \in Row /\ n.id \notin {r.id : r \in rows}
            /\ n.ip = acq.i /\ n.mac = MacOf[acq.client]
        BY <4>1, <4>2, <4>3 DEF Row
      <4>5. RowsAt(acq.i) \cup RowsOfMac(MacOf[acq.client]) = {}
        BY <3>2 DEF Add
      <4>6. rows' = rows \cup {n}
        BY <4>3
      <4> HIDE DEF n
      <4> QED
        BY <4>2, <4>4, <4>5, <4>6, AddKeeps
    <3> QED
      BY <1>2, <3>1, <3>2 DEF AddRow, Lost
  <2> QED
    BY <1>1, <1>2, <2>1, GrantKeeps DEF AddRow
<1>3. CASE Renew
  <2>1. acq.row \in Row
    BY <1>1, <1>3 DEF Renew, At
  <2>2. rows' \subseteq Row /\ Keyed'
    BY <1>3, <2>1, HTypes, SetKeeps DEF Renew, Lost, HInv, Keyed
  <2> QED
    BY <1>1, <1>3, <2>2, GrantKeeps DEF Renew
<1> QED
  BY <1>2, <1>3

LEMMA SecondKeeps ==
  ASSUME PoolAssumption, HInv, SecondRound \/ TakeFar PROVE HInv'
<1>1. /\ acq # NULL /\ acq \in Call /\ acq.phase \in {"first", "second"}
      /\ acq.far # NULL => acq.far.ip \in Pool \ ipActive
  BY HTypes DEF SecondRound, TakeFar, At, HInv, CallInv
<1>2. CASE SecondRound
  <2>1. /\ acq' \in Call /\ acq'.client = acq.client /\ acq'.phase = "second"
        /\ acq'.i = Lo /\ acq'.far = acq.far
    BY <1>1, <1>2, HTypes DEF SecondRound, Call, Phase
  <2>2. Lo >= Lo
    BY HTypes
  <2>3. rows' \subseteq Row /\ Keyed' /\ UNCHANGED <<ipActive, loopCurIp, conn, form>>
    BY <1>2, HTypes DEF SecondRound, Keyed
  <2> QED
    BY <1>1, <2>1, <2>2, <2>3, GoesOn
<1>3. CASE TakeFar
  <2>1. loopCurIp' \in Pool
    BY <1>3, HTypes DEF TakeFar, Pool
  <2>2. CASE Refuse
    BY <2>1, <2>2, RefuseKeeps
  <2>3. CASE acq.far # NULL /\ Grant(acq.far.ip) /\ UNCHANGED <<rows, form>>
    BY <1>1, <2>1, <2>3, HTypes, GrantKeeps DEF Keyed
  <2> QED
    BY <1>3, <2>2, <2>3 DEF TakeFar
<1> QED
  BY <1>2, <1>3

LEMMA ReleaseKeeps ==
  ASSUME PoolAssumption, HInv, NEW c \in Client, Release(c) PROVE HInv'
<1>1. conn' \in [Client -> Pool \cup {NULL}] /\ ipActive' \subseteq Pool
  BY HTypes DEF Release
<1>2. ActiveIsHeld'
  BY HTypes DEF Release, HInv, ActiveIsHeld
<1>3. acq' = NULL \/ (acq' \in Call /\ acq'.phase = "touch" /\ acq'.row \in Row /\ acq'.far = NULL)
  <2>1. CASE acq' = acq
    BY <2>1 DEF Release
  <2>2. ASSUME NEW r \in RowsAt(conn[c]),
               acq' = [client |-> c, phase |-> "touch", i |-> 0, row |-> [r EXCEPT !.age = 0], far |-> NULL]
        PROVE  acq' \in Call /\ acq'.phase = "touch" /\ acq'.row \in Row /\ acq'.far = NULL
    <3>1. r \in Row
      BY HTypes DEF RowsAt
    <3>2. [r EXCEPT !.age = 0] \in Row
      BY <3>1 DEF Row, Age, PoolAssumption
    <3> QED
      BY <2>2, <3>2 DEF Call, Phase
  <2> QED
    BY <2>1, <2>2 DEF Release
<1>4. rows' \subseteq Row /\ Keyed' /\ UNCHANGED <<loopCurIp, form>>
  BY HTypes DEF Release, Keyed
<1>5. CallInv'
  BY <1>3 DEF CallInv
<1> QED
  BY <1>1, <1>2, <1>3, <1>4, <1>5, HTypes DEF HInv, TypeOK, Keyed

LEMMA TouchKeeps ==
  ASSUME PoolAssumption, HInv, Touch PROVE HInv'
<1>1. acq.row \in Row
  BY DEF Touch, At, HInv, CallInv
<1>2. rows' \subseteq Row /\ Keyed'
  BY <1>1, HTypes, SetKeeps DEF Touch, Lost, HInv, Keyed
<1> QED
  BY <1>2, HTypes, HStill DEF Touch, HInv, TypeOK, Keyed, CallInv

LEMMA AdminKeeps ==
  ASSUME PoolAssumption, HInv, AdminEdit \/ \E r \in rows : OpenForm(r) PROVE HInv'
<1>1. ASSUME NEW r \in rows, OpenForm(r) PROVE HInv'
  BY <1>1, HTypes, EditKeeps DEF OpenForm, Keyed
<1>2. ASSUME NEW r \in rows, DelRow(r) PROVE HInv'
  BY <1>2, HTypes, EditKeeps DEF DelRow, Keyed
<1>3. ASSUME NEW a \in Ip, NEW m \in Mac, NEW u \in User, NEW k \in BOOLEAN,
             SaveForm(a, m, u, k)
      PROVE HInv'
  <2>1. [form EXCEPT !.ip = a, !.mac = m, !.user = u, !.keep = k] \in Row
    BY <1>3, HTypes DEF SaveForm, Row
  <2>2. rows' \subseteq Row /\ Keyed'
    BY <1>3, <2>1, SetKeeps DEF SaveForm, HInv
  <2> QED
    BY <1>3, <2>2, EditKeeps DEF SaveForm
<1>4. ASSUME NEW a \in Ip, NEW m \in Mac, NEW u \in User, NEW k \in BOOLEAN,
             NewRow(a, m, u, k)
      PROVE HInv'
  <2>1. Lease + 1 \in Age /\ FALSE \in BOOLEAN
    BY DEF Age, PoolAssumption
  <2>2. Add(a, m, FALSE, u, k, Lease + 1) /\ TypeOK
    BY <1>4 DEF NewRow, HInv
  <2>3. rows' \subseteq Row /\ Keyed'
    <3>1. CASE rows' = rows
      BY <3>1, HTypes DEF Keyed
    <3>2. CASE rows' # rows
      <4>1. PICK d \in RowId \ {r.id : r \in rows} :
              rows' = rows \cup {[id |-> d, ip |-> a, mac |-> m, uniq |-> FALSE, user |-> u,
                                  keep |-> k, age |-> Lease + 1]}
        BY <2>2, <3>2 DEF Add
      <4> DEFINE n == [id |-> d, ip |-> a, mac |-> m, uniq |-> FALSE, user |-> u,
                       keep |-> k, age |-> Lease + 1]
      <4>2. n \in Row /\ n.id \notin {r.id : r \in rows} /\ n.ip = a /\ n.mac = m
        BY <1>4, <2>1, <4>1 DEF Row
      <4>3. RowsAt(a) \cup RowsOfMac(m) = {}
        BY <2>2, <3>2 DEF Add
      <4>4. rows' = rows \cup {n}
        BY <4>1
      <4> HIDE DEF n
      <4> QED
        BY <2>2, <4>2, <4>3, <4>4, AddKeeps
    <3> QED
      BY <3>1, <3>2
  <2> QED
    BY <1>4, <2>3, HTypes, EditKeeps DEF NewRow
<1> QED
  BY <1>1, <1>2, <1>3, <1>4 DEF AdminEdit

LEMMA HStep ==
  ASSUME PoolAssumption, HInv, [Next]_vars PROVE HInv'
<1>1. CASE Tick
  <2>1. rows' \subseteq Row /\ form' \in Row \cup {NULL}
    BY <1>1, HTypes, AgedType DEF Tick
  <2>2. Keyed'
    BY <1>1, HTypes, AgedType DEF Tick, Keyed
  <2> QED
    BY <1>1, <2>1, <2>2, EditKeeps DEF Tick
<1>2. CASE Restart
  <2>1. ActiveIsHeld'
    BY <1>2 DEF Restart, ActiveIsHeld
  <2> QED
    BY <1>2, <2>1, HTypes DEF Restart, HInv, TypeOK, Keyed, CallInv, Pool
<1>3. ASSUME NEW c \in Client, Acquire(c) PROVE HInv'
  <2>1. acq' \in Call
    BY <1>3 DEF Acquire, Call, Phase
  <2> QED
    BY <1>3, <2>1, HTypes, HStill DEF Acquire, HInv, TypeOK, Keyed, CallInv
<1>4. CASE UNCHANGED vars
  BY <1>4, HTypes, EditKeeps DEF vars, Keyed
<1> QED
  BY <1>1, <1>2, <1>3, <1>4, FindKeeps, ReuseKeeps, DropKeeps, LoopKeeps, RoundEnds, SecondKeeps,
     ReleaseKeeps, TouchKeeps, AdminKeeps DEF Next

-----------------------------------------------------------------------------
(* What a call has read still holds of the table when it hands the address *)
(* out, if the administrator edits between calls only.                     *)

SnapInv ==
  acq # NULL =>
    /\ acq.phase \in {"find", "reuse", "drop"} => acq.far = NULL
    /\ acq.phase = "reuse" => \A r \in RowsAt(acq.row.ip) : r.keep => r.mac = MacOf[acq.client]
    /\ acq.phase \in {"add", "renew"} => \A r \in RowsAt(acq.i) : ~r.keep
    /\ acq.far # NULL => \A r \in RowsAt(acq.far.ip) : ~r.keep

\* A reused row is the client's own or not reserved.
LEMMA SnapFind ==
  ASSUME PoolAssumption, HInv, SnapInv, FindMac \/ FindUser PROVE SnapInv'
<1>1. /\ acq # NULL /\ acq \in Call /\ acq.client \in Client /\ acq.phase = "find" /\ acq.far = NULL
      /\ rows \subseteq Row /\ Keyed
  BY HTypes DEF FindMac, FindUser, At, SnapInv
<1>2. CASE FirstRound
  <2>1. acq'.phase = "first" /\ acq'.far = NULL
    BY <1>1, <1>2 DEF FirstRound, Call
  <2> QED
    BY <2>1 DEF SnapInv
<1>3. CASE Refuse
  BY <1>3 DEF Refuse, SnapInv
<1>4. CASE Goto("drop")
  <2>1. acq'.phase = "drop" /\ acq'.far = NULL
    BY <1>1, <1>4 DEF Goto, Call
  <2> QED
    BY <2>1 DEF SnapInv
<1>5. ASSUME NEW r \in rows, r.keep => r.mac = MacOf[acq.client], WriteNext("reuse", For(acq.client, r))
      PROVE  SnapInv'
  <2>1. For(acq.client, r).ip = r.ip
    BY <1>1, ForType
  <2>2. /\ acq'.phase = "reuse" /\ acq'.client = acq.client /\ acq'.far = NULL
        /\ acq'.row.ip = r.ip /\ rows' = rows
    BY <1>1, <1>5, <2>1 DEF WriteNext, Call
  <2>3. \A s \in rows : s.ip = r.ip => s = r
    BY <1>1, <1>5 DEF Keyed
  <2> QED
    BY <1>5, <2>2, <2>3 DEF SnapInv, RowsAt
<1>6. CASE FindMac
  BY <1>2, <1>3, <1>4, <1>5, <1>6 DEF FindMac, RowsOfMac
<1>7. CASE FindUser
  BY <1>2, <1>3, <1>5, <1>7 DEF FindUser
<1> QED
  BY <1>6, <1>7

\* A round stops at an address without a reservation.
LEMMA SnapLoop ==
  ASSUME PoolAssumption, HInv, SnapInv, Loop PROVE SnapInv'
<1>1. /\ acq # NULL /\ acq \in Call /\ acq.phase \in {"first", "second"}
      /\ rows \subseteq Row /\ Keyed /\ rows' = rows
      /\ acq.far # NULL => \A r \in RowsAt(acq.far.ip) : ~r.keep
  BY HTypes DEF Loop, At, SnapInv
<1>2. ASSUME NEW r \in RowsAt(acq.i) PROVE RowsAt(acq.i) = {r} /\ r.ip = acq.i
  BY <1>1, <1>2 DEF RowsAt, Keyed
<1>3. ASSUME acq'.phase = acq.phase, acq'.far = acq.far PROVE SnapInv'
  BY <1>1, <1>3 DEF SnapInv, RowsAt
<1>4. ASSUME acq' = [acq EXCEPT !.phase = "add"], RowsAt(acq.i) = {} PROVE SnapInv'
  <2>1. acq'.phase = "add" /\ acq'.i = acq.i /\ acq'.far = acq.far
    BY <1>1, <1>4 DEF Call
  <2> QED
    BY <1>1, <1>4, <2>1 DEF SnapInv, RowsAt
<1>5. ASSUME NEW r \in RowsAt(acq.i), ~r.keep,
             acq' = [acq EXCEPT !.phase = "renew", !.row = For(acq.client, r)]
      PROVE  SnapInv'
  <2>1. acq'.phase = "renew" /\ acq'.i = acq.i /\ acq'.far = acq.far
    BY <1>1, <1>5 DEF Call
  <2>2. \A s \in RowsAt(acq.i) : ~s.keep
    BY <1>2, <1>5
  <2> QED
    BY <1>1, <2>1, <2>2 DEF SnapInv, RowsAt
<1>6. ASSUME NEW r \in RowsAt(acq.i), ~r.keep, NEW f \in {acq.far, r},
             acq' = [acq EXCEPT !.i = acq.i + 1, !.far = f]
      PROVE  SnapInv'
  <2>1. acq'.phase = acq.phase /\ acq'.far = f
    BY <1>1, <1>6 DEF Call
  <2>2. f # NULL => \A s \in RowsAt(f.ip) : ~s.keep
    BY <1>1, <1>2, <1>6
  <2> QED
    BY <1>1, <2>1, <2>2 DEF SnapInv, RowsAt
<1>7. ASSUME NEW j, acq' = [acq EXCEPT !.i = j] PROVE SnapInv'
  BY <1>1, <1>3, <1>7 DEF Call
<1>8. \/ acq' = [acq EXCEPT !.i = acq.i + 1]
      \/ acq' = [acq EXCEPT !.i = RoundEnd + 1]
      \/ RowsAt(acq.i) = {} /\ acq' = [acq EXCEPT !.phase = "add"]
      \/ \E r \in RowsAt(acq.i) :
           /\ ~r.keep
           /\ \/ acq' = [acq EXCEPT !.phase = "renew", !.row = For(acq.client, r)]
              \/ \E f \in {acq.far, r} : acq' = [acq EXCEPT !.i = acq.i + 1, !.far = f]
  BY DEF Loop
<1> QED
  BY <1>4, <1>5, <1>6, <1>7, <1>8

LEMMA SnapStep ==
  ASSUME PoolAssumption, ~EditsInCall, HInv, SnapInv, [Next]_vars PROVE SnapInv'
<1>1. CASE acq' = NULL
  BY <1>1 DEF SnapInv
<1>2. CASE UNCHANGED <<rows, acq>>
  BY <1>2 DEF SnapInv, RowsAt
<1>3. ASSUME NEW c \in Client, Acquire(c) PROVE SnapInv'
  BY <1>3 DEF Acquire, SnapInv
<1>4. ASSUME NEW c \in Client, Release(c) PROVE SnapInv'
  <2>1. acq' = NULL \/ (acq'.phase = "touch" /\ acq'.far = NULL)
    BY <1>4 DEF Release
  <2> QED
    BY <2>1 DEF SnapInv
<1>5. CASE Drop
  <2>1. acq # NULL /\ acq \in Call /\ acq.far = NULL
    BY <1>5, HTypes DEF Drop, At, SnapInv
  <2>2. acq'.phase = "first" /\ acq'.far = NULL
    BY <1>5, <2>1 DEF Drop, FirstRound, Call
  <2> QED
    BY <2>2 DEF SnapInv
<1>6. CASE SecondRound
  <2>1. acq # NULL /\ acq \in Call /\ rows' = rows
    BY <1>6, HTypes DEF SecondRound, At
  <2>2. acq'.phase = "second" /\ acq'.far = acq.far
    BY <1>6, <2>1 DEF SecondRound, Call
  <2> QED
    BY <2>1, <2>2 DEF SnapInv, RowsAt
<1>7. ASSUME Tick \/ Restart \/ Reuse \/ AddRow \/ Renew \/ TakeFar \/ Touch PROVE acq' = NULL
  BY <1>7 DEF Tick, Restart, Reuse, AddRow, Renew, TakeFar, Touch, Grant, Refuse
<1>8. ASSUME AdminEdit PROVE acq' = NULL
  BY <1>8 DEF AdminEdit, DelRow, SaveForm, NewRow, MayEdit
<1>9. ASSUME UNCHANGED vars \/ \E r \in rows : OpenForm(r) PROVE UNCHANGED <<rows, acq>>
  BY <1>9 DEF OpenForm, vars
<1> QED
  BY <1>1, <1>2, <1>3, <1>4, <1>5, <1>6, <1>7, <1>8, <1>9, SnapFind, SnapLoop DEF Next

\* The address of a client that gets one in this step is that of the row it
\* reuses, of the round, or of the takeover.
LEMMA GrantKind ==
  ASSUME PoolAssumption, HInv, Next, NEW c \in Client, Granted(c)
  PROVE  /\ acq # NULL /\ c = acq.client
         /\ \/ acq.phase = "reuse" /\ conn'[c] = acq.row.ip
            \/ acq.phase \in {"add", "renew"} /\ conn'[c] = acq.i
            \/ /\ acq.phase = "second" /\ acq.i > loopCurIp
               /\ acq.far # NULL /\ conn'[c] = acq.far.ip
<1>1. /\ conn \in [Client -> Pool \cup {NULL}]
      /\ acq # NULL => acq \in Call /\ acq.client \in Client
  BY HTypes
<1>2. conn'[c] # conn[c] /\ conn'[c] # NULL
  BY DEF Granted
<1>3. ASSUME NEW a, Grant(a), acq # NULL PROVE c = acq.client /\ conn'[c] = a
  BY <1>1, <1>2, <1>3 DEF Grant
<1>4. CASE Reuse
  BY <1>3, <1>4 DEF Reuse, At
<1>5. CASE AddRow \/ Renew
  BY <1>3, <1>5 DEF AddRow, Renew, At
<1>6. CASE TakeFar
  <2>1. acq.far # NULL /\ Grant(acq.far.ip)
    BY <1>2, <1>6 DEF TakeFar, Refuse
  <2> QED
    BY <1>3, <1>6, <2>1 DEF TakeFar, At
<1>7. ASSUME \/ Tick \/ (\E d \in Client : Acquire(d)) \/ FindMac \/ FindUser \/ Drop \/ Loop \/ SecondRound
             \/ Touch \/ (\E r \in rows : OpenForm(r)) \/ AdminEdit
      PROVE  FALSE
  <2>1. conn' = conn
    BY <1>7 DEF Tick, Acquire, FindMac, FindUser, FirstRound, WriteNext, Refuse, Goto, Drop, Loop,
       SecondRound, Touch, OpenForm, AdminEdit, DelRow, SaveForm, NewRow
  <2> QED
    BY <1>2, <2>1
<1>8. ASSUME Restart \/ \E d \in Client : Release(d) PROVE FALSE
  BY <1>1, <1>2, <1>8 DEF Restart, Release
<1> QED
  BY <1>4, <1>5, <1>6, <1>7, <1>8 DEF Next

\* That address is not reserved for another.
LEMMA GrantStep ==
  ASSUME PoolAssumption, HInv, SnapInv, Next, NEW c \in Client, Granted(c)
  PROVE  \A r \in RowsAt(conn'[c]) : r.keep => r.mac = MacOf[c]
BY GrantKind DEF SnapInv

-----------------------------------------------------------------------------
(* What a call has seen on its way: its client's own row, and the          *)
(* addresses that its rounds have passed.                                  *)

\* A call that is past its look at the own row cannot have that row's address.
OwnInv ==
  acq # NULL /\ UniqueOf[acq.client] =>
    /\ acq.phase = "reuse" => \A r \in RowsOfMac(MacOf[acq.client]) : r.ip = acq.row.ip
    /\ acq.phase \in {"drop", "first", "second", "renew", "add"} =>
         \A r \in RowsOfMac(MacOf[acq.client]) : r.ip \notin Pool \ ipActive

\* The addresses that the rounds have passed and that are not active.
Passed ==
  {a \in Pool \ ipActive : IF acq.phase = "first" THEN loopCurIp <= a /\ a < acq.i
                                                  ELSE loopCurIp <= a \/ a < acq.i}

\* Each of them is reserved or was used no less recently than the one kept in mind.
PassedOver ==
  \A a \in Passed : \E s \in RowsAt(a) : s.keep \/ (acq.far # NULL /\ s.age <= acq.far.age)

ScanInv ==
  acq # NULL =>
    /\ acq.far # NULL => acq.far \in rows
    /\ acq.phase = "reuse" =>
         \A r \in RowsAt(acq.row.ip) : r.mac = MacOf[acq.client] \/ r.user = UserOf[acq.client]
    /\ acq.phase = "renew" => \A r \in RowsAt(acq.i) : r.age > Lease
    /\ acq.phase = "add" => RowsAt(acq.i) = {}
    /\ acq.phase \in {"first", "second"} => PassedOver

\* A call begins with nothing in mind.
LEMMA CallBegins ==
  ASSUME PoolAssumption, HInv, [Next]_vars, acq = NULL, acq' # NULL
  PROVE  acq'.phase \in {"find", "touch"} /\ acq'.far = NULL
<1>1. ASSUME NEW c \in Client, Acquire(c) \/ Release(c)
      PROVE  acq'.phase \in {"find", "touch"} /\ acq'.far = NULL
  BY <1>1 DEF Acquire, Release
<1>2. ASSUME FindMac \/ FindUser \/ Reuse \/ Drop \/ Loop \/ AddRow \/ Renew \/ SecondRound \/ TakeFar \/ Touch
      PROVE  FALSE
  BY <1>2 DEF FindMac, FindUser, Reuse, Drop, Loop, AddRow, Renew, SecondRound, TakeFar, Touch, At
<1>3. ASSUME \/ Tick \/ Restart \/ (\E r \in rows : OpenForm(r)) \/ AdminEdit \/ UNCHANGED vars
      PROVE  FALSE
  BY <1>3 DEF Tick, Restart, OpenForm, AdminEdit, DelRow, SaveForm, NewRow, vars
<1> QED
  BY <1>1, <1>2, <1>3 DEF Next

\* While it goes on nothing else touches the pool or the table.
LEMMA CallGoesOn ==
  ASSUME PoolAssumption, ~EditsInCall, HInv, [Next]_vars, acq # NULL, acq' # NULL
  PROVE  /\ UNCHANGED <<ipActive, loopCurIp>> /\ acq'.client = acq.client
         /\ \/ UNCHANGED <<rows, acq>>
            \/ (FindMac \/ FindUser \/ Loop \/ SecondRound) /\ rows' = rows
            \/ Drop
<1>1. acq \in Call
  BY HTypes
<1>2. ASSUME FindMac \/ FindUser \/ Loop \/ SecondRound
      PROVE  UNCHANGED <<ipActive, loopCurIp, rows>> /\ acq'.client = acq.client
  BY <1>1, <1>2 DEF FindMac, FindUser, Loop, SecondRound, FirstRound, WriteNext, Goto, Refuse, Call
<1>3. ASSUME Drop PROVE UNCHANGED <<ipActive, loopCurIp>> /\ acq'.client = acq.client
  BY <1>1, <1>3 DEF Drop, FirstRound, Call
<1>4. ASSUME UNCHANGED vars \/ \E r \in rows : OpenForm(r)
      PROVE  UNCHANGED <<ipActive, loopCurIp, rows, acq>>
  BY <1>4 DEF OpenForm, vars
<1>5. ASSUME Reuse \/ AddRow \/ Renew \/ TakeFar \/ Touch \/ Restart PROVE FALSE
  BY <1>5 DEF Reuse, AddRow, Renew, TakeFar, Touch, Restart, Grant, Refuse
<1>6. ASSUME Tick \/ (\E c \in Client : Acquire(c) \/ Release(c)) \/ AdminEdit PROVE FALSE
  BY <1>6 DEF Tick, Acquire, Release, AdminEdit, DelRow, SaveForm, NewRow, MayEdit
<1> QED
  BY <1>2, <1>3, <1>4, <1>5, <1>6 DEF Next

\* What a look at the rows of the client leads to.
LEMMA FindKinds ==
  ASSUME PoolAssumption, HInv, FindMac \/ FindUser, acq' # NULL
  PROVE  /\ acq # NULL /\ acq.phase = "find" /\ rows' = rows /\ acq'.far = acq.far
         /\ \/ acq'.phase = "first" /\ acq'.i = loopCurIp
               /\ (UniqueOf[acq.client] => RowsOfMac(MacOf[acq.client]) = {})
            \/ \E r \in rows : /\ acq'.phase = "reuse" /\ acq'.row.ip = r.ip
                               /\ r.mac = MacOf[acq.client] \/ r.user = UserOf[acq.client]
                               /\ UniqueOf[acq.client] => r.mac = MacOf[acq.client]
            \/ /\ acq'.phase = "drop"
               /\ \E r \in RowsOfMac(MacOf[acq.client]) : r.ip \notin Pool \ ipActive
<1>1. /\ acq # NULL /\ acq \in Call /\ acq.client \in Client /\ acq.phase = "find" /\ rows \subseteq Row
  BY HTypes DEF FindMac, FindUser, At
<1>2. ~Refuse
  BY DEF Refuse
<1>3. ASSUME FirstRound PROVE acq'.phase = "first" /\ acq'.i = loopCurIp /\ acq'.far = acq.far
  BY <1>1, <1>3 DEF FirstRound, Call
<1>4. ASSUME Goto("drop") PROVE acq'.phase = "drop" /\ acq'.far = acq.far /\ rows' = rows
  BY <1>1, <1>4 DEF Goto, Call
<1>5. ASSUME NEW r \in rows, WriteNext("reuse", For(acq.client, r))
      PROVE  acq'.phase = "reuse" /\ acq'.row.ip = r.ip /\ acq'.far = acq.far /\ rows' = rows
  <2>1. For(acq.client, r).ip = r.ip
    BY <1>1, ForType
  <2> QED
    BY <1>1, <1>5, <2>1 DEF WriteNext, Call
<1>6. CASE FindMac
  <2>1. UniqueOf[acq.client] /\ RowsOfMac(MacOf[acq.client]) \subseteq rows
    BY <1>6 DEF FindMac, RowsOfMac
  <2>2. \/ RowsOfMac(MacOf[acq.client]) = {} /\ FirstRound /\ rows' = rows
        \/ \E r \in RowsOfMac(MacOf[acq.client]) : WriteNext("reuse", For(acq.client, r))
        \/ \E r \in RowsOfMac(MacOf[acq.client]) : r.ip \notin Pool \ ipActive /\ Goto("drop")
    BY <1>2, <1>6, Zenon DEF FindMac
  <2>3. CASE RowsOfMac(MacOf[acq.client]) = {} /\ FirstRound /\ rows' = rows
    BY <1>1, <1>3, <2>3
  <2>4. CASE \E r \in RowsOfMac(MacOf[acq.client]) : WriteNext("reuse", For(acq.client, r))
    <3>1. PICK r \in RowsOfMac(MacOf[acq.client]) : WriteNext("reuse", For(acq.client, r))
      BY <2>4
    <3>2. r \in rows /\ r.mac = MacOf[acq.client]
      BY DEF RowsOfMac
    <3> QED
      BY <1>1, <1>5, <3>1, <3>2
  <2>5. CASE \E r \in RowsOfMac(MacOf[acq.client]) : r.ip \notin Pool \ ipActive /\ Goto("drop")
    BY <1>1, <1>4, <2>5
  <2> QED
    BY <2>2, <2>3, <2>4, <2>5
<1>7. CASE FindUser
  <2>1. ~UniqueOf[acq.client]
    BY <1>7 DEF FindUser
  <2>2. \/ FirstRound /\ rows' = rows
        \/ \E r \in rows : r.user = UserOf[acq.client] /\ WriteNext("reuse", For(acq.client, r))
    BY <1>2, <1>7 DEF FindUser
  <2>3. CASE FirstRound /\ rows' = rows
    BY <1>1, <1>3, <2>1, <2>3
  <2>4. CASE \E r \in rows : r.user = UserOf[acq.client] /\ WriteNext("reuse", For(acq.client, r))
    BY <1>1, <1>5, <2>1, <2>4
  <2> QED
    BY <2>2, <2>3, <2>4
<1> QED
  BY <1>6, <1>7

\* What one address of a round leads to.
LEMMA LoopKinds ==
  ASSUME PoolAssumption, HInv, Loop
  PROVE  /\ acq # NULL /\ acq \in Call /\ acq.phase \in {"first", "second"} /\ acq.i <= RoundEnd
         /\ \/ /\ acq'.phase = acq.phase /\ acq'.i = acq.i + 1 /\ acq'.far = acq.far
               /\ acq.i \in ipActive \/ \E r \in RowsAt(acq.i) : r.keep
            \/ /\ acq'.phase = acq.phase /\ acq'.i = acq.i + 1
               /\ \E r \in RowsAt(acq.i) :
                    acq'.far = IF acq.far = NULL \/ r.age > acq.far.age THEN r ELSE acq.far
            \/ acq'.phase = "add" /\ acq'.i = acq.i /\ acq'.far = acq.far /\ RowsAt(acq.i) = {}
            \/ /\ acq'.phase = "renew" /\ acq'.i = acq.i /\ acq'.far = acq.far
               /\ \E r \in RowsAt(acq.i) : r.age > Lease
            \/ ReadFails /\ acq'.phase = acq.phase /\ acq'.far = acq.far
<1>1. acq # NULL /\ acq \in Call /\ acq.phase \in {"first", "second"} /\ acq.i <= RoundEnd
  BY HTypes DEF Loop, At
<1>2. ASSUME NEW j, NEW f, acq' = [acq EXCEPT !.i = j, !.far = f]
      PROVE  acq'.phase = acq.phase /\ acq'.i = j /\ acq'.far = f
  BY <1>1, <1>2 DEF Call
<1>3. ASSUME NEW j, acq' = [acq EXCEPT !.i = j]
      PROVE  acq'.phase = acq.phase /\ acq'.i = j /\ acq'.far = acq.far
  BY <1>1, <1>3 DEF Call
<1>4. ASSUME NEW p, acq' = [acq EXCEPT !.phase = p]
      PROVE  acq'.phase = p /\ acq'.i = acq.i /\ acq'.far = acq.far
  BY <1>1, <1>4 DEF Call
<1>5. ASSUME NEW p, NEW r, acq' = [acq EXCEPT !.phase = p, !.row = r]
      PROVE  acq'.phase = p /\ acq'.i = acq.i /\ acq'.far = acq.far
  BY <1>1, <1>5 DEF Call
<1>6. \/ acq' = [acq EXCEPT !.i = acq.i + 1] /\ (acq.i \in ipActive \/ \E r \in RowsAt(acq.i) : r.keep)
      \/ \E r \in RowsAt(acq.i) :
           acq' = [acq EXCEPT !.i = acq.i + 1,
                              !.far = IF acq.far = NULL \/ r.age > acq.far.age THEN r ELSE acq.far]
      \/ acq' = [acq EXCEPT !.phase = "add"] /\ RowsAt(acq.i) = {}
      \/ \E r \in RowsAt(acq.i) :
           r.age > Lease /\ acq' = [acq EXCEPT !.phase = "renew", !.row = For(acq.client, r)]
      \/ ReadFails /\ acq' = [acq EXCEPT !.i = RoundEnd + 1]
  BY <1>1 DEF Loop
<1> QED
  BY <1>1, <1>2, <1>3, <1>4, <1>5, <1>6

LEMMA OwnStep ==
  ASSUME PoolAssumption, ~EditsInCall, HInv, OwnInv, [Next]_vars PROVE OwnInv'
<1>1. CASE acq = NULL
  BY <1>1, CallBegins DEF OwnInv
<1>2. CASE acq' = NULL
  BY <1>2 DEF OwnInv
<1>3. CASE acq # NULL /\ acq' # NULL
  <2>1. UNCHANGED <<ipActive, loopCurIp>> /\ acq'.client = acq.client /\ acq \in Call
    BY <1>3, CallGoesOn, HTypes
  <2> SUFFICES ASSUME UniqueOf[acq.client] PROVE OwnInv'
    BY <2>1 DEF OwnInv
  <2> DEFINE mine == RowsOfMac(MacOf[acq.client])
  <2>2. \A r, s \in mine : r = s
    BY HTypes DEF RowsOfMac, Keyed
  <2>3. RowsOfMac(MacOf[acq.client])' \subseteq mine \/ ~(rows' \subseteq rows)
    BY <2>1 DEF RowsOfMac
  <2>4. CASE UNCHANGED <<rows, acq>>
    BY <2>1, <2>4 DEF OwnInv, RowsOfMac
  <2>5. CASE (FindMac \/ FindUser) /\ rows' = rows
    <3>1. RowsOfMac(MacOf[acq.client])' = mine
      BY <2>1, <2>5 DEF RowsOfMac
    <3>2. \/ acq'.phase = "first" /\ mine = {}
          \/ acq'.phase = "reuse" /\ \A r \in mine : r.ip = acq'.row.ip
          \/ acq'.phase = "drop" /\ \A r \in mine : r.ip \notin Pool \ ipActive
      BY <1>3, <2>2, <2>5, FindKinds DEF RowsOfMac
    <3> QED
      BY <2>1, <3>1, <3>2 DEF OwnInv, Pool
  <2>6. ASSUME \A r \in mine : r.ip \notin Pool \ ipActive, rows' \subseteq rows, acq'.phase # "reuse"
        PROVE  OwnInv'
    BY <2>1, <2>3, <2>6 DEF OwnInv, Pool
  <2>7. CASE Loop /\ rows' = rows
    BY <2>6, <2>7, LoopKinds DEF OwnInv
  <2>8. CASE SecondRound /\ rows' = rows
    <3>1. acq.phase = "first" /\ acq'.phase = "second"
      BY <2>1, <2>8 DEF SecondRound, At, Call
    <3> QED
      BY <1>3, <2>6, <2>8, <3>1 DEF OwnInv
  <2>9. CASE Drop
    <3>1. acq.phase = "drop" /\ acq'.phase = "first" /\ rows' \subseteq rows
      BY <2>1, <2>9 DEF Drop, Lost, At, FirstRound, Call
    <3> QED
      BY <1>3, <2>6, <3>1 DEF OwnInv
  <2> QED
    BY <1>3, <2>4, <2>5, <2>7, <2>8, <2>9, CallGoesOn
<1> QED
  BY <1>1, <1>2, <1>3

\* A round that passes an address compares it with the one kept in mind.
LEMMA PassOne ==
  ASSUME PoolAssumption, HInv, ScanInv, acq # NULL, acq \in Call,
         acq.phase \in {"first", "second"}, NEW p, p = acq.phase, acq'.phase = p,
         acq'.i = acq.i + 1, UNCHANGED <<rows, ipActive, loopCurIp>>, acq' # NULL,
         \/ acq'.far = acq.far /\ (acq.i \in ipActive \/ \E r \in RowsAt(acq.i) : r.keep)
         \/ \E r \in RowsAt(acq.i) :
              acq'.far = IF acq.far = NULL \/ r.age > acq.far.age THEN r ELSE acq.far
  PROVE  PassedOver' /\ (acq'.far # NULL => acq'.far \in rows')
<1>1. /\ acq.i \in Nat /\ loopCurIp \in Nat /\ Pool \subseteq Nat /\ rows \subseteq Row
      /\ \A a : RowsAt(a)' = RowsAt(a) /\ RowsAt(a) \subseteq rows
  BY HTypes DEF Call, RowsAt
<1>2. PassedOver /\ (acq.far # NULL => acq.far \in rows)
  BY DEF ScanInv
<1>3. \A r \in Row : r.age \in Int /\ r # NULL
  BY DEF PoolAssumption, Row, Age
<1>4. Passed' \subseteq Passed \cup ({acq.i} \ ipActive)
  BY <1>1 DEF Passed, Pool
<1>5. CASE acq'.far = acq.far /\ (acq.i \in ipActive \/ \E r \in RowsAt(acq.i) : r.keep)
  BY <1>1, <1>2, <1>4, <1>5 DEF PassedOver
<1>6. ASSUME NEW r \in RowsAt(acq.i),
             acq'.far = IF acq.far = NULL \/ r.age > acq.far.age THEN r ELSE acq.far
      PROVE  PassedOver' /\ (acq'.far # NULL => acq'.far \in rows')
  <2>1. r \in rows /\ r.age \in Int /\ (acq.far # NULL => acq.far.age \in Int)
    BY <1>1, <1>2, <1>3
  <2>2. acq'.far # NULL /\ acq'.far \in rows /\ r.age <= acq'.far.age
        /\ (acq.far # NULL => acq.far.age <= acq'.far.age)
    BY <1>1, <1>2, <1>3, <1>6, <2>1
  <2>3. \A a \in Passed : \E s \in RowsAt(a) : s.keep \/ s.age <= acq'.far.age
    <3> SUFFICES ASSUME NEW a \in Passed PROVE \E s \in RowsAt(a) : s.keep \/ s.age <= acq'.far.age
      OBVIOUS
    <3>1. PICK s \in RowsAt(a) : s.keep \/ (acq.far # NULL /\ s.age <= acq.far.age)
      BY <1>2 DEF PassedOver
    <3>2. s.age \in Int /\ acq'.far.age \in Int
      BY <1>1, <1>3, <2>2
    <3> QED
      BY <2>1, <2>2, <3>1, <3>2
  <2>4. \A a \in Passed' : \E s \in RowsAt(a) : s.keep \/ s.age <= acq'.far.age
    BY <1>4, <1>6, <2>2, <2>3
  <2> QED
    BY <1>1, <2>2, <2>4 DEF PassedOver
<1> QED
  BY <1>5, <1>6

LEMMA ScanLoop ==
  ASSUME PoolAssumption, ~ReadFails, HInv, ScanInv, Loop,
         UNCHANGED <<rows, ipActive, loopCurIp>>, acq' # NULL, acq'.client = acq.client
  PROVE  ScanInv'
<1>1. /\ acq # NULL /\ acq \in Call /\ acq.phase \in {"first", "second"}
      /\ rows \subseteq Row /\ Keyed /\ \A a : RowsAt(a)' = RowsAt(a)
      /\ acq.far # NULL => acq.far \in rows
  BY LoopKinds, HTypes DEF RowsAt, ScanInv
<1>2. CASE acq'.phase = "add" /\ acq'.i = acq.i /\ acq'.far = acq.far /\ RowsAt(acq.i) = {}
  BY <1>1, <1>2 DEF ScanInv
<1>3. CASE /\ acq'.phase = "renew" /\ acq'.i = acq.i /\ acq'.far = acq.far
           /\ \E r \in RowsAt(acq.i) : r.age > Lease
  <2>1. \A r \in RowsAt(acq.i) : r.age > Lease
    BY <1>1, <1>3 DEF RowsAt, Keyed
  <2> QED
    BY <1>1, <1>3, <2>1 DEF ScanInv
<1>4. ASSUME acq'.phase = acq.phase, PassedOver', acq'.far # NULL => acq'.far \in rows' PROVE ScanInv'
  BY <1>1, <1>4 DEF ScanInv
<1>5. CASE /\ acq'.phase = acq.phase /\ acq'.i = acq.i + 1
           /\ \/ acq'.far = acq.far /\ (acq.i \in ipActive \/ \E r \in RowsAt(acq.i) : r.keep)
              \/ \E r \in RowsAt(acq.i) :
                   acq'.far = IF acq.far = NULL \/ r.age > acq.far.age THEN r ELSE acq.far
  BY <1>1, <1>4, <1>5, PassOne
<1> QED
  BY <1>2, <1>3, <1>5, LoopKinds

LEMMA ScanStep ==
  ASSUME PoolAssumption, ~EditsInCall, ~ReadFails, HInv, SnapInv, ScanInv, [Next]_vars
  PROVE  ScanInv'
<1>1. CASE acq = NULL
  BY <1>1, CallBegins DEF ScanInv
<1>2. CASE acq' = NULL
  BY <1>2 DEF ScanInv
<1>3. CASE acq # NULL /\ acq' # NULL
  <2>1. /\ UNCHANGED <<ipActive, loopCurIp>> /\ acq'.client = acq.client /\ acq \in Call
        /\ rows \subseteq Row /\ Keyed /\ loopCurIp \in Nat
    BY <1>3, CallGoesOn, HTypes
  <2>2. CASE UNCHANGED <<rows, acq>>
    BY <2>1, <2>2 DEF ScanInv, PassedOver, Passed, RowsAt, Pool
  <2>3. ASSUME acq'.phase = "first", acq'.i = loopCurIp, acq'.far = NULL PROVE ScanInv'
    <3>1. Passed' = {}
      BY <2>1, <2>3, HTypes DEF Passed, Pool
    <3> QED
      BY <2>3, <3>1 DEF ScanInv, PassedOver
  <2>4. CASE (FindMac \/ FindUser) /\ rows' = rows
    <3>1. acq'.far = NULL /\ acq.phase = "find"
      BY <1>3, <2>4, FindKinds DEF SnapInv
    <3>2. CASE acq'.phase = "first" /\ acq'.i = loopCurIp
      BY <2>3, <3>1, <3>2
    <3>3. CASE acq'.phase = "drop"
      BY <3>1, <3>3 DEF ScanInv
    <3>4. ASSUME NEW r \in rows, acq'.phase = "reuse", acq'.row.ip = r.ip,
                 r.mac = MacOf[acq.client] \/ r.user = UserOf[acq.client]
          PROVE  ScanInv'
      <4>1. \A s \in rows : s.ip = r.ip => s = r
        BY <2>1 DEF Keyed
      <4> QED
        BY <2>1, <2>4, <3>1, <3>4, <4>1 DEF ScanInv, RowsAt
    <3> QED
      BY <1>3, <2>4, <3>2, <3>3, <3>4, FindKinds
  <2>5. CASE Loop /\ rows' = rows
    BY <1>3, <2>1, <2>5, ScanLoop
  <2>6. CASE SecondRound /\ rows' = rows
    <3>1. /\ acq.phase = "first" /\ acq.i > Hi /\ acq'.phase = "second" /\ acq'.i = Lo
          /\ acq'.far = acq.far
      BY <2>1, <2>6 DEF SecondRound, At, Call
    <3>2. Passed' \subseteq Passed
      BY <2>1, <3>1, HTypes DEF Passed, Pool, Call
    <3>3. PassedOver'
      BY <1>3, <2>6, <3>1, <3>2 DEF ScanInv, PassedOver, RowsAt
    <3> QED
      BY <1>3, <2>6, <3>1, <3>3 DEF ScanInv
  <2>7. CASE Drop
    <3>1. acq.phase = "drop" /\ acq'.phase = "first" /\ acq'.i = loopCurIp /\ acq'.far = acq.far
      BY <2>1, <2>7 DEF Drop, At, FirstRound, Call
    <3> QED
      BY <1>3, <2>3, <3>1 DEF SnapInv
  <2> QED
    BY <1>3, <2>2, <2>4, <2>5, <2>6, <2>7, CallGoesOn
<1> QED
  BY <1>1, <1>2, <1>3

\* The second round ends with each address passed that is not active.
LEMMA AllPassed ==
  ASSUME PoolAssumption, HInv, acq # NULL, acq.phase = "second", acq.i > loopCurIp
  PROVE  Passed = Pool \ ipActive
<1>1. acq \in Call /\ loopCurIp \in Pool /\ Pool \subseteq Nat
  BY HTypes, Zenon
<1>2. acq.i \in Nat
  BY <1>1 DEF Call
<1>3. \A a \in Pool : loopCurIp <= a \/ a < acq.i
  BY <1>1, <1>2
<1>4. Passed = {a \in Pool \ ipActive : loopCurIp <= a \/ a < acq.i}
  BY DEF Passed
<1> QED
  BY <1>3, <1>4

LEMMA OwnGranted ==
  ASSUME PoolAssumption, HInv, OwnInv, Next, NEW c \in Client, Granted(c), UniqueOf[c],
         NEW r \in RowsOfMac(MacOf[c]), r.ip \in Pool \ ipActive
  PROVE  conn'[c] = r.ip
BY GrantKind DEF OwnInv

LEMMA EldestGranted ==
  ASSUME PoolAssumption, HInv, ScanInv, Next, NEW c \in Client, Granted(c),
         NEW r \in RowsAt(conn'[c]), r.mac # MacOf[c], r.user # UserOf[c], r.age <= Lease,
         NEW a \in Pool \ ipActive
  PROVE  \E s \in RowsAt(a) : s.keep \/ s.age <= r.age
<1>1. acq # NULL /\ c = acq.client /\ rows \subseteq Row /\ Keyed /\ Lease \in Nat
  BY GrantKind, HTypes DEF PoolAssumption
<1>2. r \in rows /\ r.age \in Int
  BY <1>1 DEF RowsAt, Row, Age
<1>3. ~(acq.phase = "reuse" /\ conn'[c] = acq.row.ip)
  BY <1>1 DEF ScanInv
<1>4. ~(acq.phase \in {"add", "renew"} /\ conn'[c] = acq.i)
  BY <1>1, <1>2 DEF ScanInv
<1>5. /\ acq.phase = "second" /\ acq.i > loopCurIp
      /\ acq.far # NULL /\ conn'[c] = acq.far.ip
  BY <1>3, <1>4, GrantKind
<1>6. acq.far = r
  BY <1>1, <1>2, <1>5 DEF ScanInv, Keyed, RowsAt
<1>7. a \in Passed /\ PassedOver
  BY <1>1, <1>5, AllPassed DEF ScanInv
<1> QED
  BY <1>6, <1>7 DEF PassedOver

LEMMA FullRefused ==
  ASSUME PoolAssumption, ~ReadFails, HInv, ScanInv, FindMac \/ TakeFar, acq' = NULL, conn' = conn
  PROVE  \/ \A a \in Pool : a \in ipActive \/ \E r \in RowsAt(a) : r.keep
         \/ \E r \in RowsOfMac(MacOf[acq.client]) : r.keep
<1>1. CASE FindMac
  <2>1. acq # NULL /\ acq \in Call
    BY <1>1, HTypes DEF FindMac, At
  <2>2. ~FirstRound /\ ~Goto("drop")
    <3>1. /\ [acq EXCEPT !.phase = "drop"] \in Call
          /\ [acq EXCEPT !.phase = "first", !.i = loopCurIp, !.row = NULL] \in Call
      BY <2>1, HTypes DEF Call, Phase
    <3> QED
      BY <3>1 DEF FirstRound, Goto, PoolAssumption
  <2>3. \A r \in rows : ~WriteNext("reuse", For(acq.client, r))
    <3> SUFFICES ASSUME NEW r \in rows PROVE ~WriteNext("reuse", For(acq.client, r))
      OBVIOUS
    <3> DEFINE n == For(acq.client, r)
    <3>1. n \in Row
      BY <2>1, HTypes, ForType
    <3> HIDE DEF n
    <3>2. [acq EXCEPT !.phase = "reuse", !.row = n] \in Call
      BY <2>1, <3>1 DEF Call, Phase
    <3>3. ~WriteNext("reuse", n)
      BY <3>2 DEF WriteNext, PoolAssumption
    <3> QED
      BY <3>3 DEF n
  <2> QED
    BY <1>1, <2>2, <2>3 DEF FindMac, RowsOfMac
<1>2. CASE TakeFar
  <2>1. acq # NULL /\ acq.phase = "second" /\ acq.i > loopCurIp
    BY <1>2 DEF TakeFar, At
  <2>2. acq.far = NULL
    <3> SUFFICES ASSUME acq.far # NULL PROVE FALSE
      OBVIOUS
    <3>1. conn' = [conn EXCEPT ![acq.client] = acq.far.ip]
      BY <1>2 DEF TakeFar, Grant
    <3>2. conn[acq.client] = NULL /\ acq.client \in Client /\ conn \in [Client -> Pool \cup {NULL}]
      BY <2>1, HTypes DEF HInv, CallInv
    <3>3. acq.far.ip # NULL
      BY <2>1 DEF HInv, CallInv, PoolAssumption
    <3> QED
      BY <3>1, <3>2, <3>3
  <2>3. \A a \in Pool \ ipActive : \E s \in RowsAt(a) : s.keep
    BY <2>1, <2>2, AllPassed DEF ScanInv, PassedOver
  <2> QED
    BY <2>3
<1> QED
  BY <1>1, <1>2

-----------------------------------------------------------------------------
\* The variables of IpPool keep their types, and no two rows ever share an id,
\* an address or a MAC address, whatever is edited and whichever writes fail.
THEOREM TypeCorrect == Spec => []TypeOK
<1>1. Init => HInv
  BY PoolAssumption, HInit
<1>2. HInv /\ [Next]_vars => HInv'
  BY PoolAssumption, HStep
<1>3. HInv => TypeOK
  BY DEF HInv
<1> QED
  BY <1>1, <1>2, <1>3, PTL DEF Spec

\* The active addresses are those of the connections, no two of which ever
\* share one.
THEOREM ActiveHeld == Spec => []ActiveIsHeld
<1>1. Init => HInv
  BY PoolAssumption, HInit
<1>2. HInv /\ [Next]_vars => HInv'
  BY PoolAssumption, HStep
<1>3. HInv => ActiveIsHeld
  BY DEF HInv
<1> QED
  BY <1>1, <1>2, <1>3, PTL DEF Spec

\* If the administrator edits between calls only, no address reserved for a MAC
\* address is given to a client with another.
THEOREM ReservationsKept ==
  ASSUME ~EditsInCall
  PROVE  Spec => ReservedKept
<1>1. Init => HInv /\ SnapInv
  BY PoolAssumption, HInit DEF Init, SnapInv
<1>2. HInv /\ SnapInv /\ [Next]_vars => HInv' /\ SnapInv'
  BY PoolAssumption, HStep, SnapStep
<1>3. HInv /\ SnapInv /\ [Next]_vars =>
        [\A c \in Client : Granted(c) =>
           \A r \in RowsAt(conn'[c]) : r.keep => r.mac = MacOf[c]]_vars
  BY PoolAssumption, GrantStep
<1> QED
  BY <1>1, <1>2, <1>3, PTL DEF Spec, ReservedKept

\* If the administrator edits between calls only, a device that comes back gets the
\* address of its row unless that is active or no longer of the pool, whichever reads
\* and writes fail (getIpMap's first branch in AcquireIp).
THEOREM OwnReturned ==
  ASSUME ~EditsInCall
  PROVE  Spec => ReturnsToOwn
<1>1. Init => HInv /\ OwnInv
  BY PoolAssumption, HInit DEF Init, OwnInv
<1>2. HInv /\ OwnInv /\ [Next]_vars => HInv' /\ OwnInv'
  BY PoolAssumption, HStep, OwnStep
<1>3. HInv /\ OwnInv /\ [Next]_vars =>
        [\A c \in Client : Granted(c) /\ UniqueOf[c] =>
           \A r \in RowsOfMac(MacOf[c]) : r.ip \in Pool \ ipActive => conn'[c] = r.ip]_vars
  BY PoolAssumption, OwnGranted
<1> QED
  BY <1>1, <1>2, <1>3, PTL DEF Spec, ReturnsToOwn

\* If also no read fails, an address whose lease runs is taken from another only when
\* no address of the pool was unused for longer (loopLong's loopFarIp).
THEOREM EldestTaken ==
  ASSUME ~EditsInCall, "read" \notin Fault
  PROVE  Spec => TakesEldest
<1>1. Init => HInv /\ SnapInv /\ ScanInv
  BY PoolAssumption, HInit DEF Init, SnapInv, ScanInv
<1>2. HInv /\ SnapInv /\ ScanInv /\ [Next]_vars => HInv' /\ SnapInv' /\ ScanInv'
  BY PoolAssumption, HStep, SnapStep, ScanStep DEF ReadFails
<1>3. HInv /\ ScanInv /\ [Next]_vars =>
        [\A c \in Client : Granted(c) =>
           \A r \in RowsAt(conn'[c]) :
             r.mac # MacOf[c] /\ r.user # UserOf[c] /\ r.age <= Lease =>
               \A a \in Pool \ ipActive : \E s \in RowsAt(a) : s.keep \/ s.age <= r.age]_vars
  BY PoolAssumption, EldestGranted
<1> QED
  BY <1>1, <1>2, <1>3, PTL DEF Spec, TakesEldest

\* And a client is turned away only when the pool is full or its own reserved address
\* cannot be had.
THEOREM RefusedWhenFull ==
  ASSUME ~EditsInCall, "read" \notin Fault
  PROVE  Spec => RefusesOnlyFull
<1>1. Init => HInv /\ SnapInv /\ ScanInv
  BY PoolAssumption, HInit DEF Init, SnapInv, ScanInv
<1>2. HInv /\ SnapInv /\ ScanInv /\ [Next]_vars => HInv' /\ SnapInv' /\ ScanInv'
  BY PoolAssumption, HStep, SnapStep, ScanStep DEF ReadFails
<1>3. HInv /\ ScanInv /\ [Next]_vars =>
        [(FindMac \/ TakeFar) /\ acq' = NULL /\ conn' = conn =>
           \/ \A a \in Pool : a \in ipActive \/ \E r \in RowsAt(a) : r.keep
           \/ \E r \in RowsOfMac(MacOf[acq.client]) : r.keep]_vars
  BY PoolAssumption, FullRefused DEF ReadFails
<1> QED
  BY <1>1, <1>2, <1>3, PTL DEF Spec, RefusesOnlyFull
=============================================================================
