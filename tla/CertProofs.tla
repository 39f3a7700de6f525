----------------------------- MODULE CertProofs -----------------------------
(***************************************************************************)
(* Proofs about Cert: types, and the certificate a TLS hello is answered   *)
(* with, for any number of processes, names, operations, crashes and       *)
(* faults.                                                                 *)
(***************************************************************************)
EXTENDS Cert, Functions, FiniteSetTheorems, TLAPS

-----------------------------------------------------------------------------
(* A new number can always be found.                                       *)

LEMMA ImageFinite ==
  ASSUME NEW S, IsFiniteSet(S), NEW f
  PROVE  IsFiniteSet({f[x] : x \in S})
<1> DEFINE T == {f[x] : x \in S}  g == [x \in S |-> f[x]]
<1>1. g \in Surjection(S, T)
  BY DEF Surjection
<1>2. QED BY <1>1, FS_Surjection, Zenon

LEMMA PairFinite ==
  ASSUME NEW x, NEW y
  PROVE  IsFiniteSet({x, y})
<1>1. IsFiniteSet({x})
  BY FS_Singleton
<1>2. IsFiniteSet({x} \cup {y})
  BY <1>1, FS_AddElement
<1>3. {x} \cup {y} = {x, y}
  OBVIOUS
<1>4. QED BY <1>2, <1>3

LEMMA ProcFinite == IsFiniteSet(Proc) /\ IsFiniteSet(Name \cup {"default"})
<1>1. IsFiniteSet(Proc)
  BY CertAssumption, PairFinite, FS_Union DEF Proc
<1>2. IsFiniteSet(Name)
  BY CertAssumption, PairFinite, FS_Union DEF Name
<1>3. QED BY <1>1, <1>2, FS_AddElement

\* Below one more than their number there is a number that is not used.
LEMMA FreeNumber ==
  ASSUME NEW used, IsFiniteSet(used)
  PROVE  \E n \in 1 .. Cardinality(used) + 1 : n \notin used
<1>1. Cardinality(used) \in Nat
  BY FS_CardinalityType
<1>2. Cardinality(1 .. Cardinality(used) + 1) = Cardinality(used) + 1
  BY <1>1, FS_Interval
<1>3. CASE 1 .. Cardinality(used) + 1 \subseteq used
  BY <1>1, <1>2, <1>3, FS_Subset
<1>4. QED BY <1>3

LEMMA TripleFinite ==
  ASSUME NEW x, NEW y, NEW z
  PROVE  IsFiniteSet({x, y, z})
<1>1. IsFiniteSet({x, y} \cup {z})
  BY PairFinite, FS_AddElement
<1>2. {x, y} \cup {z} = {x, y, z}
  OBVIOUS
<1>3. QED BY <1>1, <1>2

LEMMA UnusedType == ASSUME TypeOK PROVE Unused \in Nat \ {0}
<1> DEFINE ts == {table[n] : n \in DOMAIN table}
           hs == {hand[p] : p \in Proc}
           cs == ts \cup hs \cup {[cert |-> certFile, key |-> keyFile]}
           u  == UNION {{c.cert.serial, c.cert.key, c.key} : c \in cs}
<1>1. IsFiniteSet(ts)
  <2>1. IsFiniteSet(DOMAIN table)
    BY ProcFinite DEF TypeOK
  <2>2. QED BY <2>1, ImageFinite, Zenon
<1>2. IsFiniteSet(hs)
  BY ProcFinite, ImageFinite, Zenon
<1>3. IsFiniteSet(cs)
  <2> HIDE DEF ts, hs
  <2>1. IsFiniteSet(ts \cup hs)
    BY <1>1, <1>2, FS_Union
  <2>2. QED BY <2>1, FS_AddElement
<1>4. IsFiniteSet(u)
  <2> DEFINE f == [c \in cs |-> {c.cert.serial, c.cert.key, c.key}]
  <2>1. IsFiniteSet({f[c] : c \in cs})
    <3> HIDE DEF f, cs
    <3>1. QED BY <1>3, ImageFinite, Zenon
  <2>2. {f[c] : c \in cs} = {{c.cert.serial, c.cert.key, c.key} : c \in cs}
    OBVIOUS
  <2>3. ASSUME NEW T \in {{c.cert.serial, c.cert.key, c.key} : c \in cs} PROVE IsFiniteSet(T)
    <3> HIDE DEF f, cs
    <3>1. PICK c \in cs : T = {c.cert.serial, c.cert.key, c.key}
      OBVIOUS
    <3>2. IsFiniteSet({c.cert.serial, c.cert.key, c.key})
      BY TripleFinite, Zenon
    <3>3. QED BY <3>1, <3>2
  <2>4. QED BY <2>1, <2>2, <2>3, FS_UNION
<1>5. \E n \in 1 .. Cardinality(u) + 1 : n \notin u
  BY <1>4, FreeNumber, Zenon
<1>6. Unused = CHOOSE n \in 1 .. Cardinality(u) + 1 : n \notin u
  BY DEF Unused
<1>7. Unused \in 1 .. Cardinality(u) + 1
  BY <1>5, <1>6
<1>8. QED BY <1>4, <1>7, FS_CardinalityType

-----------------------------------------------------------------------------
(* Certificates that can be used.                                          *)

Hands == [cert : Cert, key : Int]

\* What is loaded is a certificate and its key.
Paired(t) ==
  /\ t \in [Name \cup {"default"} -> Hands]
  /\ \A n \in DOMAIN t : t[n] = NoHand \/ Matches(t[n].cert, t[n].key)

\* A certificate is loaded, and each of its names, as it is spelt, has it.
Served ==
  /\ table["default"] # NoHand
  /\ \A n \in table["default"].cert.names : table[n] = table["default"]

CInv ==
  /\ TypeOK
  /\ Paired(table)
  /\ \A p \in Proc : at[p] = "load" => Matches(hand[p].cert, hand[p].key)
  /\ up = "up" => Served

Steps  == {"idle", "stat", "make", "openCert", "writeCert", "openKey", "writeKey",
           "readCert", "readKey", "load", "renew", "renewKey"}

Funcs  == {"", "save", "missing", "mismatch", "check", "parse"}

\* What is left of CInv when the table and the program's state do not change.
Rest ==
  /\ certFile \in Cert /\ keyFile \in Int
  /\ hand \in [Proc -> Hands]

LEMMA NameType == "default" \notin Name /\ Names \subseteq SUBSET Name /\ Local \in Name
BY CertAssumption DEF Name

LEMMA RestOf == ASSUME CInv PROVE Rest
BY Zenon DEF CInv, TypeOK, Rest, Hands

LEMMA PairedType ==
  ASSUME NEW t, Paired(t)
  PROVE  /\ t \in [Name \cup {"default"} -> [cert : Cert, key : Int]]
         /\ \A n \in DOMAIN t : t[n].cert # Torn
BY DEF Paired, Hands, NoHand, NoCert, Torn, Matches

\* A step of a process that runs, goes to a step of its own or ends, and leaves the
\* table alone.
LEMMA StepKeeps ==
  ASSUME CInv, Rest', NEW p \in Proc, NEW step \in Steps, NEW func \in Funcs, Go(p, step, func),
         up # "down", up' = up, table' = table,
         {ops', crashes', faults', fails'} \subseteq Nat, mixed' \in BOOLEAN,
         \A q \in Proc \ {p} : hand'[q] = hand[q],
         step = "load" => Matches(hand'[p].cert, hand'[p].key)
  PROVE  CInv'
<1>1. at' \in [Proc -> Steps] /\ why' \in [Proc -> Funcs]
  BY DEF Go, CInv, TypeOK, Steps, Funcs
<1>2. /\ Paired(table') /\ table' \in [Name \cup {"default"} -> [cert : Cert, key : Int]]
      /\ \A n \in DOMAIN table' : table'[n].cert # Torn
  BY PairedType DEF CInv
<1>3. up' \in {"down", "starting", "up"} /\ up' # "down"
  BY DEF CInv, TypeOK
<1>4. TypeOK'
  BY <1>1, <1>2, <1>3, Zenon DEF Rest, TypeOK, Steps, Funcs, Hands
<1>5. \A q \in Proc : at'[q] = "load" => Matches(hand'[q].cert, hand'[q].key)
  BY DEF Go, CInv, TypeOK
<1>6. up' = "up" => Served'
  BY DEF CInv, Served
<1>7. QED BY <1>2, <1>4, <1>5, <1>6 DEF CInv

LEMMA NothingType == NoCert \in Cert /\ Torn \in Cert /\ NoHand \in Hands
<1>1. NoCert \in Cert /\ Torn \in Cert
  BY DEF NoCert, Torn, Cert
<1>2. NoHand = [cert |-> NoCert, key |-> 0]
  BY DEF NoHand
<1>3. QED BY <1>1, <1>2 DEF Hands

\* A process has something else in its hand.
LEMMA HandSet ==
  ASSUME CInv, NEW p \in Proc, NEW h \in Hands, hand' = [hand EXCEPT ![p] = h]
  PROVE  /\ hand' \in [Proc -> Hands]
         /\ hand'[p] = h /\ \A q \in Proc \ {p} : hand'[q] = hand[q]
<1>1. hand \in [Proc -> Hands]
  BY Zenon DEF CInv, TypeOK, Hands
<1>2. QED BY <1>1

LEMMA EmptyType == Paired(Empty)
BY NothingType DEF Empty, Paired

\* The end of the program.
LEMMA DiesKeeps ==
  ASSUME CInv, Dies, UNCHANGED files, table' \in {table, Empty},
         {ops', crashes', faults', fails'} \subseteq Nat, mixed' \in BOOLEAN
  PROVE  CInv'
<1>1. at' \in [Proc -> Steps] /\ why' \in [Proc -> Funcs] /\ up' = "down" /\ \A p \in Proc : at'[p] = "idle"
  BY DEF Dies, Steps, Funcs
<1>2. /\ Paired(table') /\ table' \in [Name \cup {"default"} -> [cert : Cert, key : Int]]
      /\ \A n \in DOMAIN table' : table'[n].cert # Torn
  BY EmptyType, PairedType DEF CInv
<1>3. hand' \in [Proc -> [cert : Cert, key : Int]]
  BY NothingType DEF Dies, Hands
<1>4. certFile' \in Cert /\ keyFile' \in Int
  BY DEF files, CInv, TypeOK
<1>5. TypeOK'
  BY <1>1, <1>2, <1>3, <1>4, Zenon DEF TypeOK, Steps, Funcs
<1>6. QED BY <1>1, <1>2, <1>5 DEF CInv

\* An operation that ends.
LEMMA FailsKeeps == ASSUME CInv, NEW p \in Proc, at[p] # "idle", Fails(p), UNCHANGED files PROVE CInv'
<1>0. /\ ops \in Nat /\ crashes \in Nat /\ faults \in Nat /\ fails \in Nat /\ mixed \in BOOLEAN
      /\ up # "down"
  BY Zenon DEF CInv, TypeOK
<1>1. CASE p = "main"
  <2>1. Dies /\ table' = Empty /\ fails' = (IF mixed THEN 0 ELSE IF fails < 2 THEN fails + 1 ELSE 2)
        /\ UNCHANGED <<ops, crashes, faults, mixed>>
    BY <1>1, Zenon DEF Fails, Return
  <2>2. fails' \in Nat
    BY <1>0, <2>1
  <2>3. QED BY <1>0, <2>1, <2>2, DiesKeeps
<1>2. CASE p # "main"
  <2>1. /\ Go(p, "idle", "") /\ hand' = [hand EXCEPT ![p] = NoHand]
        /\ UNCHANGED <<up, table, ops, crashes, faults, mixed, fails>>
    BY <1>2 DEF Fails, Return
  <2>2. Rest' /\ \A q \in Proc \ {p} : hand'[q] = hand[q]
    BY <2>1, RestOf, HandSet, NothingType DEF Rest, files, Hands
  <2>3. QED BY <1>0, <2>1, <2>2, StepKeeps DEF Steps, Funcs
<1>3. QED BY <1>1, <1>2

\* A step that writes the files or the process's own hand.
LEMMA MemoryKeeps ==
  ASSUME CInv, Rest', NEW p \in Proc, at[p] # "idle", NEW step \in Steps, NEW func \in Funcs,
         Go(p, step, func), UNCHANGED <<table, outer>>,
         \A q \in Proc \ {p} : hand'[q] = hand[q],
         step = "load" => Matches(hand'[p].cert, hand'[p].key)
  PROVE  CInv'
<1>1. up # "down" /\ {ops, crashes, faults, fails} \subseteq Nat /\ mixed \in BOOLEAN
  BY Zenon DEF CInv, TypeOK
<1>2. UNCHANGED <<up, ops, crashes, faults, mixed, fails>>
  BY DEF outer
<1>3. {ops', crashes', faults', fails'} \subseteq Nat /\ mixed' \in BOOLEAN
  BY <1>1, <1>2
<1>4. QED BY <1>1, <1>2, <1>3, StepKeeps

\* A file is truncated or written.
LEMMA FilesSet ==
  ASSUME CInv, NEW c \in Cert, NEW k \in Int, certFile' = c, keyFile' = k, hand' = hand
  PROVE  Rest' /\ \A q \in Proc : hand'[q] = hand[q]
BY RestOf DEF Rest

LEMMA FileTypes ==
  ASSUME CInv
  PROVE  /\ certFile \in Cert /\ keyFile \in Int
         /\ \A p \in Proc : hand[p].cert \in Cert /\ hand[p].key \in Int
BY RestOf DEF Rest, Hands

LEMMA WhyType == ASSUME CInv, NEW p \in Proc PROVE why[p] \in Funcs
BY Zenon DEF CInv, TypeOK, Funcs

LEMMA NewType ==
  ASSUME CInv, NEW names \in SUBSET Name, NEW key \in {-1, Unused}
  PROVE  New(names, key) \in Hands
<1>1. Unused \in Nat \ {0}
  BY UnusedType DEF CInv
<1>2. QED BY <1>1 DEF New, Hands, Cert

\* Whoever loads a certificate makes it the one that is served.
LEMMA LoadKeeps ==
  ASSUME CInv, NEW p \in Proc, at[p] = "load", BuildNameToCertificate(hand[p]),
         NEW step \in Steps, step # "load", NEW func \in Funcs, Go(p, step, func), UNCHANGED files,
         hand' = [hand EXCEPT ![p] = NoHand], up' \in {up, "up"}, fails' \in Nat,
         UNCHANGED <<ops, crashes, faults, mixed>>
  PROVE  CInv'
<1> DEFINE c == hand[p]
<1>1. c \in Hands /\ Matches(c.cert, c.key) /\ c # NoHand /\ c.cert.names \subseteq Name
  <2>1. c \in Hands /\ Matches(c.cert, c.key)
    BY RestOf DEF CInv, Rest
  <2>2. QED BY <2>1 DEF Hands, Cert, Matches, NoHand, NoCert
<1>2. /\ Paired(table)
      /\ at \in [Proc -> Steps] /\ why \in [Proc -> Funcs] /\ up # "down" /\ up \in {"starting", "up"}
      /\ {ops, crashes, faults, fails} \subseteq Nat /\ mixed \in BOOLEAN
  BY Zenon DEF CInv, TypeOK, Steps, Funcs
<1>3. /\ Paired(table') /\ table' \in [Name \cup {"default"} -> [cert : Cert, key : Int]]
      /\ \A n \in DOMAIN table' : table'[n].cert # Torn
  <2>1. Paired(table')
    BY <1>1, <1>2 DEF BuildNameToCertificate, Paired
  <2>2. QED BY <2>1, PairedType
<1>4. Served'
  BY <1>1, <1>2 DEF BuildNameToCertificate, Served, Paired
<1>5. /\ hand' \in [Proc -> Hands]
      /\ \A q \in Proc \ {p} : hand'[q] = hand[q]
  BY HandSet, NothingType
<1>6. at' \in [Proc -> Steps] /\ why' \in [Proc -> Funcs] /\ up' \in {"starting", "up"}
  BY <1>2 DEF Go
<1>7. certFile' \in Cert /\ keyFile' \in Int
  BY FileTypes DEF files
<1>8. {ops', crashes', faults', fails'} \subseteq Nat /\ mixed' \in BOOLEAN
  BY <1>2
<1>9. TypeOK'
  <2>1. up' \in {"down", "starting", "up"} /\ up' # "down"
    BY <1>6
  <2>2. QED BY <1>3, <1>5, <1>6, <1>7, <1>8, <2>1, Zenon DEF TypeOK, Steps, Funcs, Hands
<1>10. \A q \in Proc : at'[q] = "load" => Matches(hand'[q].cert, hand'[q].key)
  BY <1>2, <1>5 DEF Go, CInv
<1>11. QED BY <1>3, <1>4, <1>9, <1>10 DEF CInv

LEMMA RunStep == ASSUME CInv, NEW p \in Proc, Run(p) PROVE CInv'
<1> USE DEF Steps, Funcs
<1>a. at[p] # "idle" /\ why[p] \in Funcs
  BY WhyType DEF Run, Stat, Make, OpenCert, WriteCert, OpenKey, WriteKey, ReadCert, ReadKey, Load
<1>b. hand[p] \in Hands
  BY Zenon DEF CInv, TypeOK, Hands
<1>1. CASE Stat(p)
  <2>1. Rest' /\ \A q \in Proc : hand'[q] = hand[q]
    BY <1>1, RestOf DEF Stat, Rest, files
  <2>2. CASE certFile = NoCert \/ keyFile = 0
    BY <1>a, <1>1, <2>1, <2>2, MemoryKeeps DEF Stat
  <2>3. CASE ~(certFile = NoCert \/ keyFile = 0)
    BY <1>a, <1>1, <2>1, <2>3, MemoryKeeps DEF Stat, On
  <2>4. QED BY <2>2, <2>3
<1>2. CASE Make(p)
  <2> DEFINE h == New({Local}, Unused)
  <2>1. h \in Hands /\ hand' = [hand EXCEPT ![p] = h]
    BY <1>2, NewType, NameType DEF Make, New
  <2>2. /\ hand' \in [Proc -> Hands]
        /\ \A q \in Proc \ {p} : hand'[q] = hand[q]
    BY <2>1, HandSet
  <2>3. Rest'
    BY <1>2, <2>2, NothingType, FileTypes DEF Make, Rest, Hands
  <2>4. QED BY <1>a, <1>2, <2>2, <2>3, MemoryKeeps DEF Make, On
<1>3. CASE OpenCert(p)
  <2>1. Rest' /\ \A q \in Proc : hand'[q] = hand[q]
    BY <1>3, FilesSet, FileTypes, NothingType DEF OpenCert
  <2>2. QED BY <1>a, <1>3, <2>1, MemoryKeeps DEF OpenCert, On
<1>4. CASE WriteCert(p)
  <2>1. Rest' /\ \A q \in Proc : hand'[q] = hand[q]
    BY <1>4, FilesSet, FileTypes, NothingType DEF WriteCert
  <2>2. QED BY <1>a, <1>4, <2>1, MemoryKeeps DEF WriteCert, On
<1>5. CASE OpenKey(p)
  <2>1. Rest' /\ \A q \in Proc : hand'[q] = hand[q]
    BY <1>5, FilesSet, FileTypes DEF OpenKey
  <2>2. QED BY <1>a, <1>5, <2>1, MemoryKeeps DEF OpenKey, On
<1>6. CASE WriteKey(p)
  <2>1. keyFile' \in Int /\ hand' = [hand EXCEPT ![p] = NoHand] /\ certFile' = certFile
    BY <1>6, FileTypes DEF WriteKey, Written
  <2>2. Rest' /\ \A q \in Proc \ {p} : hand'[q] = hand[q]
    BY <2>1, HandSet, NothingType, FileTypes DEF Rest, Hands
  <2>3. CASE why[p] = "save"
    BY <1>a, <1>6, <2>2, <2>3, MemoryKeeps DEF WriteKey, Written
  <2>4. CASE why[p] # "save"
    BY <1>a, <1>6, <2>2, <2>4, MemoryKeeps DEF WriteKey, Written, On
  <2>5. QED BY <2>3, <2>4
<1>7. CASE ReadCert(p)
  <2> DEFINE h == [cert |-> certFile, key |-> 0]
  <2>1. h \in Hands /\ hand' = [hand EXCEPT ![p] = h]
    BY <1>7, FileTypes DEF ReadCert, Hands
  <2>2. Rest' /\ \A q \in Proc \ {p} : hand'[q] = hand[q]
    BY <1>7, <2>1, HandSet, FileTypes DEF ReadCert, files, Rest, Hands
  <2>3. QED BY <1>a, <1>7, <2>2, MemoryKeeps DEF ReadCert, On
<1>8. CASE ReadKey(p)
  <2>1. CASE Matches(hand[p].cert, keyFile)
    <3> DEFINE h == [hand[p] EXCEPT !.key = keyFile]
    <3>1. h \in Hands /\ h.cert = hand[p].cert /\ h.key = keyFile
      BY <1>b, FileTypes DEF Hands
    <3>2. hand' = [hand EXCEPT ![p] = h] /\ UNCHANGED files
      BY <1>8, <2>1 DEF ReadKey
    <3>3. /\ Rest' /\ \A q \in Proc \ {p} : hand'[q] = hand[q]
          /\ Matches(hand'[p].cert, hand'[p].key)
      BY <2>1, <3>1, <3>2, HandSet, FileTypes DEF files, Rest, Hands, Matches
    <3>4. CASE why[p] = "check"
      BY <1>a, <1>8, <2>1, <3>3, <3>4, MemoryKeeps DEF ReadKey, On
    <3>5. CASE why[p] # "check"
      BY <1>a, <1>8, <2>1, <3>3, <3>5, MemoryKeeps DEF ReadKey, On
    <3>6. QED BY <3>4, <3>5
  <2>2. CASE ~Matches(hand[p].cert, keyFile)
    <3>1. Mismatch(p) /\ UNCHANGED files
      BY <1>8, <2>2 DEF ReadKey
    <3>2. CASE why[p] \in {"check", "parse"}
      <4>1. /\ Go(p, "make", "mismatch") /\ hand' = [hand EXCEPT ![p] = NoHand]
            /\ UNCHANGED <<table, outer>>
        BY <3>1, <3>2 DEF Mismatch
      <4>2. Rest' /\ \A q \in Proc \ {p} : hand'[q] = hand[q]
        BY <3>1, <4>1, HandSet, NothingType, FileTypes DEF files, Rest, Hands
      <4>3. QED BY <1>a, <4>1, <4>2, MemoryKeeps
    <3>3. CASE why[p] \notin {"check", "parse"}
      BY <1>a, <3>1, <3>3, FailsKeeps DEF Mismatch
    <3>4. QED BY <3>2, <3>3
  <2>3. QED BY <2>1, <2>2
<1>9. CASE Load(p)
  <2>1. CASE p = "main" /\ why[p] = "mismatch"
    BY <1>a, <1>9, <2>1, FailsKeeps DEF Load
  <2>2. CASE ~(p = "main" /\ why[p] = "mismatch")
    <3>1. BuildNameToCertificate(hand[p]) /\ UNCHANGED files /\ at[p] = "load"
      BY <1>9, <2>2 DEF Load
    <3>2. fails \in Nat
      BY Zenon DEF CInv, TypeOK
    <3>3. CASE why[p] = "missing"
      <4>1. /\ Go(p, "readCert", IF p = "cron" THEN "check" ELSE "parse")
            /\ hand' = [hand EXCEPT ![p] = NoHand] /\ UNCHANGED <<up, fails, ops, crashes, faults, mixed>>
        BY <1>9, <2>2, <3>3 DEF Load, outer
      <4>2. QED BY <3>1, <3>2, <4>1, LoadKeeps
    <3>4. CASE why[p] # "missing"
      <4>1. Return(p, TRUE)
        BY <1>9, <2>2, <3>4 DEF Load
      <4>2. /\ Go(p, "idle", "") /\ hand' = [hand EXCEPT ![p] = NoHand]
            /\ up' \in {up, "up"} /\ fails' \in Nat /\ UNCHANGED <<ops, crashes, faults, mixed>>
        <5>1. CASE p = "main"
          <6>1. /\ Go(p, "idle", "") /\ hand' = [hand EXCEPT ![p] = NoHand]
                /\ up' = "up" /\ fails' = 0 /\ UNCHANGED <<ops, crashes, faults, mixed>>
            BY <4>1, <5>1, Zenon DEF Return
          <6>2. QED BY <6>1
        <5>2. CASE p # "main"
          BY <3>2, <4>1, <5>2 DEF Return
        <5>3. QED BY <5>1, <5>2
      <4>3. QED BY <3>1, <4>2, LoadKeeps
    <3>5. QED BY <3>3, <3>4
  <2>3. QED BY <2>1, <2>2
<1>10. QED BY <1>1, <1>2, <1>3, <1>4, <1>5, <1>6, <1>7, <1>8, <1>9 DEF Run

LEMMA CInvInit == Init => CInv
<1> SUFFICES ASSUME Init PROVE CInv
  OBVIOUS
<1>1. certFile \in Cert /\ keyFile \in Int
  <2>1. PICK n \in {0, 1} :
          /\ certFile = IF n = 0 THEN NoCert ELSE [serial |-> 1, key |-> 1, names |-> {Wild}]
          /\ keyFile = n
    BY DEF Init
  <2>2. [serial |-> 1, key |-> 1, names |-> {Wild}] \in Cert
    BY DEF Cert, Name
  <2>3. certFile \in {NoCert, [serial |-> 1, key |-> 1, names |-> {Wild}]} /\ keyFile \in Int
    BY <2>1
  <2>4. QED BY <2>2, <2>3, NothingType
<1>2. /\ Paired(table) /\ table \in [Name \cup {"default"} -> [cert : Cert, key : Int]]
      /\ \A n \in DOMAIN table : table[n].cert # Torn
  BY EmptyType, PairedType DEF Init
<1>3. at \in [Proc -> Steps] /\ why \in [Proc -> Funcs] /\ \A p \in Proc : at[p] = "idle"
  BY DEF Init, Steps, Funcs
<1>4. hand \in [Proc -> Hands]
  BY NothingType DEF Init
<1>a. mixed \in BOOLEAN
  BY Zenon DEF Init
<1>b. ops = 0 /\ crashes = 0 /\ faults = 0 /\ fails = 0 /\ up = "down"
  BY Zenon DEF Init
<1>5. {ops, crashes, faults, fails} \subseteq Nat /\ mixed \in BOOLEAN /\ up = "down"
  BY <1>a, <1>b
<1>6. TypeOK
  BY <1>1, <1>2, <1>3, <1>4, <1>5, Zenon DEF TypeOK, Steps, Funcs, Hands
<1>7. QED BY <1>2, <1>3, <1>5, <1>6 DEF CInv

\* Init, an upload, a request and the schedule begin an operation.
LEMMA BeginsKeeps ==
  ASSUME CInv, NEW p \in Proc, Begins(p), Rest', table' = table,
         NEW step \in Steps, step # "load", NEW func \in Funcs, Go(p, step, func),
         \A q \in Proc \ {p} : hand'[q] = hand[q]
  PROVE  CInv'
<1>1. ops \in Nat /\ crashes \in Nat /\ faults \in Nat /\ fails \in Nat /\ mixed \in BOOLEAN
  BY Zenon DEF CInv, TypeOK
<1>2. up # "down" /\ up' = up /\ ops' = ops + 1 /\ UNCHANGED <<crashes, faults, fails>>
  BY DEF Begins
<1>3. mixed' \in BOOLEAN
  BY Zenon DEF Begins
<1>4. {ops', crashes', faults', fails'} \subseteq Nat
  BY <1>1, <1>2
<1>5. QED BY <1>2, <1>3, <1>4, StepKeeps

LEMMA CInvStep == ASSUME CInv, [Next]_vars PROVE CInv'
<1> USE DEF Steps, Funcs
<1>n. ops \in Nat /\ crashes \in Nat /\ faults \in Nat /\ fails \in Nat
  BY Zenon DEF CInv, TypeOK
<1>m. mixed \in BOOLEAN
  BY Zenon DEF CInv, TypeOK
<1>0. at \in [Proc -> Steps] /\ why \in [Proc -> Funcs]
  BY Zenon DEF CInv, TypeOK, Steps, Funcs
<1>1. CASE Start
  <2>1. Rest' /\ at' \in [Proc -> Steps] /\ why' \in [Proc -> Funcs] /\ hand' = hand
    BY <1>0, <1>1, RestOf DEF Start, Go, files, Rest
  <2>2. /\ Paired(table') /\ table' \in [Name \cup {"default"} -> [cert : Cert, key : Int]]
        /\ \A n \in DOMAIN table' : table'[n].cert # Torn
    BY <1>1, PairedType DEF Start, CInv
  <2>3. {ops', crashes', faults', fails'} \subseteq Nat /\ mixed' \in BOOLEAN /\ up' = "starting"
    <3>1. UNCHANGED <<ops, crashes, faults, fails>> /\ mixed' = FALSE /\ up' = "starting"
      BY <1>1 DEF Start
    <3>2. QED BY <1>n, <3>1
  <2>4. TypeOK'
    BY <2>1, <2>2, <2>3, Zenon DEF Rest, TypeOK, Steps, Funcs, Hands
  <2>5. \A p \in Proc : at'[p] # "load"
    BY <1>0, <1>1 DEF Start, Go, CInv, TypeOK
  <2>6. QED BY <2>2, <2>3, <2>4, <2>5 DEF CInv
<1>2. CASE ReNewCert
  <2>1. Rest' /\ hand' = hand
    BY <1>2, RestOf DEF ReNewCert, files, Rest
  <2>2. QED BY <1>2, <2>1, BeginsKeeps DEF ReNewCert, Proc
<1>3. CASE NotRenewed
  BY <1>3, FailsKeeps DEF NotRenewed, Proc
<1>4. CASE RenewCert
  <2> DEFINE h == [cert |-> certFile, key |-> 0]
  <2>1. h \in Hands /\ hand' = [hand EXCEPT !["cron"] = h]
    BY <1>4, FileTypes DEF RenewCert, Hands
  <2>2. Rest' /\ \A q \in Proc \ {"cron"} : hand'[q] = hand[q]
    BY <1>4, <2>1, HandSet, FileTypes DEF RenewCert, files, Rest, Proc
  <2>3. why["cron"] \in Funcs
    BY <1>0 DEF Proc
  <2>4. QED BY <1>4, <2>2, <2>3, MemoryKeeps DEF RenewCert, On, Proc
<1>5. CASE RenewKey
  <2> DEFINE c == [serial |-> Unused, key |-> keyFile, names |-> hand["cron"].cert.names]
             h == [cert |-> c, key |-> keyFile]
  <2>1. Unused \in Nat \ {0}
    BY UnusedType DEF CInv
  <2>2. hand["cron"].cert \in Cert /\ keyFile \in Int
    BY FileTypes DEF Proc
  <2>3. c \in Cert
    BY <2>1, <2>2 DEF Cert
  <2> HIDE DEF c
  <2>4. h \in Hands
    BY <2>2, <2>3 DEF Hands
  <2>5. hand' = [hand EXCEPT !["cron"] = h]
    BY <1>5 DEF RenewKey, c
  <2>6. Rest' /\ \A q \in Proc \ {"cron"} : hand'[q] = hand[q]
    BY <1>5, <2>4, <2>5, HandSet, FileTypes DEF RenewKey, files, Rest, Proc
  <2>7. QED BY <1>5, <2>6, MemoryKeeps DEF RenewKey, Proc
<1>6. CASE Crash
  <2>1. /\ Dies /\ table' = Empty /\ UNCHANGED files
        /\ {ops', crashes', faults', fails'} \subseteq Nat /\ mixed' \in BOOLEAN
    <3>1. mixed' \in BOOLEAN
      BY <1>m, <1>6, Zenon DEF Crash
    <3>2. Dies /\ table' = Empty /\ UNCHANGED files
      BY <1>6 DEF Crash
    <3>3. crashes' = crashes + 1 /\ fails' = 0 /\ UNCHANGED <<ops, faults>>
      BY <1>6 DEF Crash
    <3>4. {ops', crashes', faults', fails'} \subseteq Nat
      BY <1>n, <3>3
    <3>5. QED BY <3>1, <3>2, <3>4
  <2>2. QED BY <2>1, DiesKeeps
<1>7. ASSUME NEW p \in Admin, CustomCert(p) PROVE CInv'
  <2>1. PICK names \in Names, key \in {-1, Unused} : hand' = [hand EXCEPT ![p] = New(names, key)]
    BY <1>7 DEF CustomCert
  <2>2. Rest' /\ \A q \in Proc \ {p} : hand'[q] = hand[q]
    <3> DEFINE h == New(names, key)
    <3>1. h \in Hands /\ p \in Proc
      BY NewType, NameType DEF Proc
    <3>2. hand' = [hand EXCEPT ![p] = h]
      BY <2>1
    <3> HIDE DEF h
    <3>3. /\ hand' \in [Proc -> Hands]
          /\ \A q \in Proc \ {p} : hand'[q] = hand[q]
      BY <3>1, <3>2, HandSet
    <3>4. certFile' = Torn /\ keyFile' = keyFile
      BY <1>7 DEF CustomCert
    <3>5. certFile' \in Cert /\ keyFile' \in Int
      BY <3>4, FileTypes, NothingType
    <3>6. QED BY <3>3, <3>5 DEF Rest, Hands
  <2>3. QED BY <1>7, <2>2, BeginsKeeps DEF CustomCert, Proc
<1>8. ASSUME NEW p \in Admin, CreatCert(p) PROVE CInv'
  <2>1. PICK names \in Names : hand' = [hand EXCEPT ![p] = New(names, Unused)]
    BY <1>8 DEF CreatCert, GetCert
  <2>2. Rest' /\ \A q \in Proc \ {p} : hand'[q] = hand[q]
    BY <1>8, <2>1, NewType, NameType, HandSet, FileTypes DEF CreatCert, files, Rest, Hands, Proc
  <2>3. QED BY <1>8, <2>2, BeginsKeeps DEF CreatCert, Proc
<1>9. ASSUME NEW p \in Proc, Run(p) PROVE CInv'
  BY <1>9, RunStep
<1>10. ASSUME NEW p \in Proc, WriteError(p) PROVE CInv'
  <2>1. /\ at[p] \in {"writeCert", "writeKey"} /\ UNCHANGED <<files, table, up, ops, crashes, fails>>
        /\ {ops', crashes', faults', fails'} \subseteq Nat /\ mixed' \in BOOLEAN
    <3>1. mixed' \in BOOLEAN
      BY <1>10, Zenon DEF WriteError
    <3>2. at[p] \in {"writeCert", "writeKey"} /\ UNCHANGED <<files, table, up, ops, crashes, fails>>
      BY <1>10 DEF WriteError
    <3>3. faults' = faults + 1
      BY <1>10 DEF WriteError
    <3>4. {ops', crashes', faults', fails'} \subseteq Nat
      BY <1>n, <3>2, <3>3
    <3>5. QED BY <3>1, <3>2, <3>4
  <2>2. up # "down"
    BY <2>1 DEF CInv, TypeOK
  <2>3. hand' = hand \/ hand' = [hand EXCEPT ![p] = NoHand]
    BY <1>10 DEF WriteError, Written
  <2>4. Rest' /\ \A q \in Proc \ {p} : hand'[q] = hand[q]
    BY <2>1, <2>3, HandSet, NothingType, RestOf DEF files, Rest, Hands
  <2>5. \E step \in Steps \ {"load"}, func \in Funcs : Go(p, step, func)
    BY <1>0, <1>10 DEF WriteError, Written, On
  <2>6. PICK step \in Steps \ {"load"}, func \in Funcs : Go(p, step, func)
    BY <2>5
  <2>7. /\ up' = up /\ table' = table /\ mixed' \in BOOLEAN
        /\ {ops', crashes', faults', fails'} \subseteq Nat
    BY <2>1, Zenon
  <2>8. step \in Steps /\ (step = "load" => Matches(hand'[p].cert, hand'[p].key))
    OBVIOUS
  <2> HIDE DEF Steps, Funcs
  <2>9. QED BY <2>2, <2>4, <2>6, <2>7, <2>8, StepKeeps, Zenon
<1>11. CASE UNCHANGED vars
  BY <1>11 DEF vars, CInv, TypeOK, Served
<1>12. QED
  BY <1>1, <1>2, <1>3, <1>4, <1>6, <1>7, <1>8, <1>9, <1>10, <1>11, <1>5 DEF Next

\* The files, the table and the processes keep their types, and nothing unusable is
\* loaded (dbdata/cert.go).
THEOREM TypeCorrect == Spec => []TypeOK
<1>1. CInv /\ [Next]_vars => CInv'
  BY CInvStep
<1>2. CInv => TypeOK
  BY DEF CInv
<1>3. QED BY CInvInit, <1>1, <1>2, PTL DEF Spec

\* Once the program is up every hello is answered with a certificate and its own key,
\* and a lower-case name of the newest certificate with that one (GetCertificateBySNI),
\* however uploads, requests, renewals, crashes and failing writes mix the two files.
THEOREM AlwaysServed == Spec => []DefaultServed
<1>1. CInv /\ [Next]_vars => CInv'
  BY CInvStep
<1>2. ASSUME CInv, up = "up" PROVE DefaultServed
  <2>1. /\ table["default"] # NoHand
        /\ \A n \in table["default"].cert.names : table[n] = table["default"]
    BY <1>2 DEF CInv, Served
  <2>2. ASSUME NEW n \in Name
        PROVE  Matches(GetCertificateBySNI(n).cert, GetCertificateBySNI(n).key)
    <3>1. Lower[n] \in Name /\ {Lower[n], Wild, "default"} \subseteq DOMAIN table
      BY <1>2, LowerAssumption DEF CInv, Paired, Name
    <3>2. \A m \in DOMAIN table : table[m] # NoHand => Matches(table[m].cert, table[m].key)
      BY <1>2 DEF CInv, Paired
    <3>3. QED BY <2>1, <3>1, <3>2 DEF GetCertificateBySNI
  <2>3. ASSUME NEW n \in table["default"].cert.names, Lower[n] = n
        PROVE  GetCertificateBySNI(n) = table["default"]
    BY <2>1, <2>3 DEF GetCertificateBySNI
  <2>4. QED BY <2>2, <2>3 DEF DefaultServed
<1>3. CInv => DefaultServed
  BY <1>2 DEF DefaultServed
<1>4. QED BY CInvInit, <1>1, <1>3, PTL DEF Spec

-----------------------------------------------------------------------------
(* Files of operations that do not overlap.                                *)

Synced == table["default"] = [cert |-> certFile, key |-> keyFile] /\ Matches(certFile, keyFile)

\* What holds of the files where the only process is.  One that writes a pair of its own
\* making, or has found one, keeps it; a check leaves alone what is served.
Phase(p) ==
  /\ why[p] \in {"missing", "mismatch"} =>
       /\ at[p] \in {"writeCert", "openKey", "writeKey"} => Matches(hand[p].cert, hand[p].key)
       /\ at[p] = "writeCert" => certFile = Torn
       /\ at[p] \in {"openKey", "writeKey"} => certFile = hand[p].cert
       /\ at[p] = "writeKey" => keyFile = -1
       /\ at[p] \in {"readCert", "readKey"} => Matches(certFile, keyFile)
  /\ why[p] = "check" => Synced
  /\ at[p] \in {"readKey", "load"} => hand[p].cert = certFile
  /\ at[p] = "load" => hand[p].key = keyFile /\ Matches(certFile, keyFile)

\* The functions whose steps a process is in.
Func(p) ==
  /\ at[p] \in {"make", "openKey", "writeKey", "openCert", "writeCert"} => why[p] \in {"save", "missing", "mismatch"}
  /\ at[p] = "make" => why[p] # "save"
  /\ at[p] = "openCert" => why[p] = "save"
  /\ at[p] = "stat" => why[p] \in {"check", "parse"}
  /\ at[p] \in {"renew", "renewKey"} => why[p] = "check"
  /\ at[p] \in {"readCert", "readKey", "load"} => why[p] \in {"missing", "mismatch", "check", "parse"}

\* While nothing is mixed one process runs at most.
Alone ==
  /\ \A p, q \in Active : p = q
  /\ Active = {} => Synced
  /\ \A p \in Active : Phase(p)

\* A start that has failed has left a pair, which the next one loads.
Retry ==
  fails = 1 => /\ up # "up"
               /\ up = "down" => Matches(certFile, keyFile)
               /\ up = "starting" /\ ~mixed => why["main"] = "parse" /\ Matches(certFile, keyFile)

SInv ==
  /\ CInv
  /\ \A p \in Proc : Func(p)
  /\ up = "starting" => at["main"] # "idle"
  /\ why["main"] # "save"
  /\ up # "down" /\ ~mixed => Alone
  /\ fails \in {0, 1} /\ Retry

LEMMA MainType == "main" \in Proc /\ "cron" \in Proc /\ "main" # "cron"
      /\ Admin \subseteq Proc /\ "main" \notin Admin
BY CertAssumption DEF Proc

LEMMA AtType == ASSUME CInv PROVE at \in [Proc -> Steps] /\ why \in [Proc -> Funcs]
BY Zenon DEF CInv, TypeOK, Steps, Funcs

\* The only process goes on.
LEMMA AloneKeeps ==
  ASSUME CInv, Alone, NEW p \in Proc, at[p] # "idle", NEW step \in Steps, NEW func \in Funcs,
         Go(p, step, func), step = "idle" => Synced', step # "idle" => Phase(p)'
  PROVE  Alone'
<1>1. at'[p] = step /\ \A q \in Proc \ {p} : at'[q] = at[q] /\ at[q] = "idle"
  BY AtType DEF Go, Alone, Active
<1>2. Active' = IF step = "idle" THEN {} ELSE {p}
  BY <1>1 DEF Active
<1>3. QED BY <1>2 DEF Alone

LEMMA FuncKeeps ==
  ASSUME CInv, \A q \in Proc : Func(q), NEW p \in Proc, NEW step, NEW func, Go(p, step, func), Func(p)'
  PROVE  \A q \in Proc : Func(q)'
<1>1. \A q \in Proc \ {p} : at'[q] = at[q] /\ why'[q] = why[q]
  BY AtType DEF Go
<1>2. QED BY <1>1 DEF Func

\* What a process that runs does to the other parts.  It ends, fails, or goes on.
RunsOn(p) ==
  /\ \E step \in Steps, func \in Funcs : Go(p, step, func)
  /\ Func(p)' /\ (p = "main" => why'["main"] # "save")
  /\ mixed' = mixed
  /\ \/ up' = up /\ fails' = fails /\ (p = "main" => at'["main"] # "idle")
     \/ p = "main" /\ up' = "up" /\ fails' = 0

LEMMA RunsOrFails ==
  ASSUME SInv, NEW p \in Proc, Run(p)
  PROVE  RunsOn(p) \/ (Fails(p) /\ UNCHANGED files)
<1> USE DEF Steps, Funcs, RunsOn
<1>0. Func(p) /\ why[p] \in Funcs /\ (p = "main" => why[p] # "save")
  BY AtType DEF SInv
<1>2. ASSUME NEW step \in Steps, NEW func \in Funcs, Go(p, step, func)
      PROVE  at'[p] = step /\ why'[p] = func
  BY <1>2, AtType DEF Go, SInv
<1>3. CASE Stat(p)
  BY <1>0, <1>2, <1>3 DEF Stat, On, outer, Func
<1>4. CASE Make(p)
  BY <1>0, <1>2, <1>4 DEF Make, On, outer, Func
<1>5. CASE OpenCert(p)
  BY <1>0, <1>2, <1>5 DEF OpenCert, On, outer, Func
<1>6. CASE WriteCert(p)
  BY <1>0, <1>2, <1>6 DEF WriteCert, On, outer, Func
<1>7. CASE OpenKey(p)
  BY <1>0, <1>2, <1>7 DEF OpenKey, On, outer, Func
<1>8. CASE WriteKey(p)
  BY <1>0, <1>2, <1>8 DEF WriteKey, Written, On, outer, Func
<1>9. CASE ReadCert(p)
  BY <1>0, <1>2, <1>9 DEF ReadCert, On, outer, Func
<1>10. CASE ReadKey(p)
  <2>1. CASE Matches(hand[p].cert, keyFile)
    BY <1>0, <1>2, <1>10, <2>1 DEF ReadKey, On, outer, Func
  <2>2. CASE ~Matches(hand[p].cert, keyFile) /\ why[p] \in {"check", "parse"}
    BY <1>0, <1>2, <1>10, <2>2 DEF ReadKey, Mismatch, outer, Func
  <2>3. CASE ~Matches(hand[p].cert, keyFile) /\ why[p] \notin {"check", "parse"}
    BY <1>10, <2>3 DEF ReadKey, Mismatch
  <2>4. QED BY <2>1, <2>2, <2>3
<1>11. CASE Load(p)
  <2>1. CASE p = "main" /\ why[p] = "mismatch"
    BY <1>11, <2>1 DEF Load
  <2>2. CASE ~(p = "main" /\ why[p] = "mismatch") /\ why[p] = "missing"
    BY <1>0, <1>2, <1>11, <2>2 DEF Load, outer, Func
  <2>3. CASE ~(p = "main" /\ why[p] = "mismatch") /\ why[p] # "missing"
    <3>1. Return(p, TRUE)
      BY <1>11, <2>3 DEF Load
    <3>2. QED BY <1>0, <1>2, <3>1 DEF Return, Func
  <2>4. QED BY <2>1, <2>2, <2>3
<1>12. QED
  BY <1>3, <1>4, <1>5, <1>6, <1>7, <1>8, <1>9, <1>10, <1>11 DEF Run

LEMMA DefaultLoaded == ASSUME CInv, NEW c, BuildNameToCertificate(c) PROVE table'["default"] = c
<1>1. "default" \in DOMAIN table
  BY DEF CInv, TypeOK
<1>2. QED BY <1>1 DEF BuildNameToCertificate

\* The steps of a process keep what holds of the files.  Only startTls may fail, and then
\* the files are a pair.
LEMMA RunAlone ==
  ASSUME SInv, Alone, NEW p \in Proc, Run(p)
  PROVE  Alone' \/ (p = "main" /\ Fails(p) /\ UNCHANGED files /\ Matches(certFile, keyFile))
<1> USE DEF Steps, Funcs
<1>0. CInv /\ Func(p) /\ Phase(p) /\ at[p] # "idle" /\ why[p] \in Funcs
  BY AtType DEF SInv, Alone, Active, Run, Stat, Make, OpenCert, WriteCert, OpenKey, WriteKey,
                ReadCert, ReadKey, Load
<1>1. ASSUME NEW step \in Steps, NEW func \in Funcs, Go(p, step, func)
      PROVE  at'[p] = step /\ why'[p] = func
  BY <1>0, <1>1, AtType DEF Go
<1>2. ASSUME NEW h, hand' = [hand EXCEPT ![p] = h]
      PROVE  hand'[p] = h
  BY <1>0, <1>2 DEF CInv, TypeOK
<1>3. CASE Stat(p)
  <2>1. Synced => certFile # NoCert /\ keyFile # 0
    BY DEF Synced, Matches, NoCert
  <2>2. why[p] \in {"check", "parse"} /\ UNCHANGED <<files, table>>
    BY <1>0, <1>3 DEF Stat, Func
  <2>3. CASE certFile = NoCert \/ keyFile = 0
    <3>1. Go(p, "make", "missing")
      BY <1>3, <2>3 DEF Stat
    <3>2. Phase(p)'
      BY <1>1, <3>1 DEF Phase
    <3>3. QED BY <1>0, <3>1, <3>2, AloneKeeps
  <2>4. CASE ~(certFile = NoCert \/ keyFile = 0)
    <3>1. Go(p, "readCert", why[p])
      BY <1>3, <2>4 DEF Stat, On
    <3>2. Phase(p)'
      BY <1>0, <1>1, <2>2, <3>1 DEF Phase, Synced, Matches, files
    <3>3. QED BY <1>0, <3>1, <3>2, AloneKeeps
  <2>5. QED BY <2>3, <2>4
<1>4. CASE Make(p)
  <2> DEFINE h == [cert |-> [serial |-> Unused, key |-> Unused, names |-> {Local}], key |-> Unused]
  <2>1. /\ Go(p, "writeCert", why[p]) /\ certFile' = Torn /\ hand' = [hand EXCEPT ![p] = h]
        /\ why[p] \in {"missing", "mismatch"}
    BY <1>0, <1>4 DEF Make, On, Func
  <2>2. Matches(h.cert, h.key)
    <3>1. Unused \in Nat \ {0}
      BY <1>0, UnusedType DEF CInv
    <3>2. h.cert.key = h.key /\ h.key = Unused
      OBVIOUS
    <3>3. QED BY <3>1, <3>2 DEF Matches
  <2>3. hand'[p] = h
    BY <1>2, <2>1
  <2>4. Phase(p)'
    <3> HIDE DEF h
    <3>1. Matches(hand'[p].cert, hand'[p].key)
      BY <2>2, <2>3
    <3>2. QED BY <1>1, <2>1, <3>1 DEF Phase, Matches
  <2>5. QED BY <1>0, <2>1, <2>4, AloneKeeps
<1>5. CASE OpenCert(p)
  <2>1. Go(p, "writeCert", why[p]) /\ why[p] = "save"
    BY <1>0, <1>5 DEF OpenCert, On, Func
  <2>2. Phase(p)'
    BY <1>1, <2>1 DEF Phase
  <2>3. QED BY <1>0, <2>1, <2>2, AloneKeeps
<1>6. CASE WriteCert(p)
  <2>1. /\ Go(p, "openKey", why[p]) /\ hand' = hand /\ why[p] \in {"save", "missing", "mismatch"}
        /\ at[p] = "writeCert"
        /\ certFile' = hand[p].cert \/ (certFile # Torn /\ certFile' = Torn)
    BY <1>0, <1>6 DEF WriteCert, On, Func
  <2>2. Phase(p)'
    BY <1>0, <1>1, <2>1 DEF Phase, Matches
  <2>3. QED BY <1>0, <2>1, <2>2, AloneKeeps
<1>7. CASE OpenKey(p)
  <2>1. /\ Go(p, "writeKey", why[p]) /\ hand' = hand /\ why[p] \in {"save", "missing", "mismatch"}
        /\ certFile' = certFile /\ keyFile' = -1 /\ at[p] = "openKey"
    BY <1>0, <1>7 DEF OpenKey, On, Func
  <2>2. Phase(p)'
    BY <1>0, <1>1, <2>1 DEF Phase, Matches
  <2>3. QED BY <1>0, <2>1, <2>2, AloneKeeps
<1>8. CASE WriteKey(p)
  <2>1. /\ why[p] \in {"save", "missing", "mismatch"} /\ certFile' = certFile /\ at[p] = "writeKey"
        /\ keyFile' = hand[p].key \/ (keyFile # -1 /\ keyFile' = -1)
    BY <1>0, <1>8 DEF WriteKey, Func
  <2>2. CASE why[p] = "save"
    <3>1. Go(p, "stat", "parse")
      BY <1>8, <2>2 DEF WriteKey, Written
    <3>2. Phase(p)'
      BY <1>1, <3>1 DEF Phase
    <3>3. QED BY <1>0, <3>1, <3>2, AloneKeeps
  <2>3. CASE why[p] # "save"
    <3>1. Go(p, "readCert", why[p])
      BY <1>8, <2>3 DEF WriteKey, Written, On
    <3>2. Matches(certFile', keyFile')
      BY <1>0, <2>1, <2>3 DEF Phase, Matches
    <3>3. Phase(p)'
      BY <1>1, <2>1, <2>3, <3>1, <3>2 DEF Phase, Matches
    <3>4. QED BY <1>0, <3>1, <3>3, AloneKeeps
  <2>4. QED BY <2>2, <2>3
<1>9. CASE ReadCert(p)
  <2>1. /\ Go(p, "readKey", why[p]) /\ hand' = [hand EXCEPT ![p] = [cert |-> certFile, key |-> 0]]
        /\ UNCHANGED <<files, table>> /\ at[p] = "readCert"
    BY <1>9 DEF ReadCert, On
  <2>2. hand'[p].cert = certFile
    BY <1>2, <2>1
  <2>3. Phase(p)'
    BY <1>0, <1>1, <2>1, <2>2 DEF Phase, Synced, Matches, files
  <2>4. QED BY <1>0, <2>1, <2>3, AloneKeeps
<1>10. CASE ReadKey(p)
  <2>1. at[p] = "readKey" /\ UNCHANGED files /\ hand[p].cert = certFile
    BY <1>0, <1>10 DEF ReadKey, Phase
  <2>2. CASE Matches(hand[p].cert, keyFile)
    <3>1. /\ hand' = [hand EXCEPT ![p].key = keyFile] /\ UNCHANGED table
          /\ Go(p, IF why[p] = "check" THEN "renew" ELSE "load", why[p])
      BY <1>10, <2>2 DEF ReadKey, On, outer
    <3>2. hand'[p].cert = hand[p].cert /\ hand'[p].key = keyFile
      BY <1>0, <3>1 DEF CInv, TypeOK
    <3>3. Matches(certFile', keyFile')
      BY <2>1, <2>2 DEF files, Matches
    <3>4. Synced => Synced'
      BY <2>1, <3>1, <3>3 DEF Synced, files, Matches
    <3>5. CASE why[p] = "check"
      <4>1. Phase(p)'
        BY <1>0, <1>1, <3>1, <3>4, <3>5 DEF Phase
      <4>2. QED BY <1>0, <3>1, <3>5, <4>1, AloneKeeps
    <3>6. CASE why[p] # "check"
      <4>1. Go(p, "load", why[p])
        BY <3>1, <3>6
      <4>2. Phase(p)'
        BY <1>0, <1>1, <2>1, <3>2, <3>3, <3>6, <4>1 DEF Phase, files
      <4>3. QED BY <1>0, <4>1, <4>2, AloneKeeps
    <3>7. QED BY <3>5, <3>6
  <2>3. CASE ~Matches(hand[p].cert, keyFile)
    <3>1. why[p] = "parse"
      BY <1>0, <2>1, <2>3 DEF Phase, Func, Synced, Matches
    <3>2. Go(p, "make", "mismatch")
      BY <1>10, <2>3, <3>1 DEF ReadKey, Mismatch
    <3>3. Phase(p)'
      BY <1>1, <3>2 DEF Phase
    <3>4. QED BY <1>0, <3>2, <3>3, AloneKeeps
  <2>4. QED BY <2>2, <2>3
<1>11. CASE Load(p)
  <2>1. /\ UNCHANGED files /\ hand[p].cert = certFile /\ hand[p].key = keyFile
        /\ Matches(certFile, keyFile)
    BY <1>0, <1>11 DEF Load, Phase
  <2>2. CASE p = "main" /\ why[p] = "mismatch"
    BY <1>11, <2>1, <2>2 DEF Load
  <2>3. CASE ~(p = "main" /\ why[p] = "mismatch")
    <3>1. BuildNameToCertificate(hand[p])
      BY <1>11, <2>3 DEF Load
    <3>2. Synced'
      <4>1. table'["default"] = hand[p]
        BY <1>0, <3>1, DefaultLoaded
      <4>2. hand[p] = [cert |-> certFile, key |-> keyFile]
        BY <1>0, <2>1, RestOf DEF Rest, Hands
      <4>3. QED BY <2>1, <4>1, <4>2 DEF Synced, files, Matches
    <3>3. CASE why[p] = "missing"
      <4>1. Go(p, "readCert", IF p = "cron" THEN "check" ELSE "parse")
        BY <1>11, <2>3, <3>3 DEF Load
      <4>2. Phase(p)'
        BY <1>1, <3>2, <4>1 DEF Phase
      <4>3. QED BY <1>0, <4>1, <4>2, AloneKeeps
    <3>4. CASE why[p] # "missing"
      <4>1. Return(p, TRUE)
        BY <1>11, <2>3, <3>4 DEF Load
      <4>2. Go(p, "idle", "")
        BY <4>1 DEF Return
      <4>3. QED BY <1>0, <3>2, <4>2, AloneKeeps
    <3>5. QED BY <3>3, <3>4
  <2>4. QED BY <2>2, <2>3
<1>12. QED
  BY <1>3, <1>4, <1>5, <1>6, <1>7, <1>8, <1>9, <1>10, <1>11 DEF Run

\* A start after one that failed.
LEMMA RetryRuns ==
  ASSUME SInv, NEW p \in Proc, Run(p), RunsOn(p)
  PROVE  fails' \in {0, 1} /\ Retry'
<1>0. fails' \in {0, 1}
  BY DEF SInv, RunsOn
<1>1. ASSUME fails' = 1
      PROVE  /\ up' # "up" /\ up' # "down"
             /\ up' = "starting" /\ ~mixed' => why'["main"] = "parse" /\ Matches(certFile', keyFile')
  <2>1. up' = up /\ fails = 1
    BY <1>1 DEF RunsOn
  <2>2. up # "down" /\ up # "up"
    <3>1. at[p] # "idle"
      BY DEF Run, Stat, Make, OpenCert, WriteCert, OpenKey, WriteKey, ReadCert, ReadKey, Load
    <3>2. up # "down"
      BY <3>1, Zenon DEF SInv, CInv, TypeOK
    <3>3. QED BY <2>1, <3>2 DEF SInv, Retry
  <2>3. ASSUME up = "starting", ~mixed PROVE why'["main"] = "parse" /\ Matches(certFile', keyFile')
    <3>1. Alone /\ at["main"] # "idle" /\ why["main"] = "parse" /\ Matches(certFile, keyFile)
      BY <2>1, <2>3 DEF SInv, Retry
    <3>2. p = "main"
      BY <3>1, MainType DEF Alone, Active, Run, Stat, Make, OpenCert, WriteCert, OpenKey, WriteKey,
                            ReadCert, ReadKey, Load
    <3>3. Func("main") /\ Phase("main") /\ why \in [Proc -> Funcs]
      BY <3>1, MainType, AtType DEF SInv, Alone, Active
    <3>4. certFile # NoCert /\ keyFile # 0
      BY <3>1 DEF Matches, NoCert
    <3>5. CASE Stat("main")
      BY <3>1, <3>3, <3>4, <3>5, MainType DEF Stat, On, Go, files
    <3>6. CASE ReadCert("main")
      BY <3>1, <3>3, <3>6, MainType DEF ReadCert, On, Go, files
    <3>7. CASE ReadKey("main")
      <4>1. Matches(hand["main"].cert, keyFile)
        BY <3>1, <3>3, <3>7 DEF ReadKey, Phase
      <4>2. QED BY <3>1, <3>3, <3>7, <4>1, MainType DEF ReadKey, On, Go, files
    <3>8. CASE Load("main")
      <4>1. Return("main", TRUE)
        BY <3>1, <3>8 DEF Load
      <4>2. fails' = 0
        BY <4>1 DEF Return
      <4>3. QED BY <1>1, <4>2
    <3>9. QED
      BY <3>1, <3>2, <3>3, <3>5, <3>6, <3>7, <3>8
      DEF Run, Func, Make, OpenCert, WriteCert, OpenKey, WriteKey
  <2>4. mixed' = mixed
    BY DEF RunsOn
  <2>5. QED BY <2>1, <2>2, <2>3, <2>4
<1>2. QED BY <1>0, <1>1 DEF Retry

\* A start that fails.
LEMMA RetryFails ==
  ASSUME SInv, Run("main"), Fails("main"), UNCHANGED files
  PROVE  SInv'
<1>1. /\ up' = "down" /\ at' = [q \in Proc |-> "idle"] /\ why' = [q \in Proc |-> ""]
      /\ fails' = (IF mixed THEN 0 ELSE IF fails < 2 THEN fails + 1 ELSE 2)
      /\ mixed' = mixed
  BY Zenon DEF Fails, Return, Dies
<1>a. (mixed => fails' = 0) /\ (~mixed => fails' = (IF fails < 2 THEN fails + 1 ELSE 2))
  BY <1>1, Zenon
<1>2. CInv'
  BY RunStep, MainType DEF SInv
<1>3. \A q \in Proc : Func(q)'
  BY <1>1 DEF Func
<1>4. why'["main"] # "save"
  BY <1>1, MainType
<1>5. fails' \in {0, 1} /\ Retry'
  <2>1. CASE mixed
    <3>1. fails' = 0
      BY <1>a, <2>1
    <3>2. QED BY <3>1 DEF Retry
  <2>2. CASE ~mixed
    <3>1. up # "down" /\ at["main"] # "idle"
      <4>1. at["main"] # "idle"
        BY DEF Run, Stat, Make, OpenCert, WriteCert, OpenKey, WriteKey, ReadCert, ReadKey, Load
      <4>2. QED BY <4>1, MainType, Zenon DEF SInv, CInv, TypeOK
    <3>2. Alone /\ Phase("main") /\ Func("main")
      BY <2>2, <3>1, MainType DEF SInv, Alone, Active
    <3>3. why["main"] \in {"mismatch", "missing"} /\ at["main"] \in {"readKey", "load"}
      <4>1. at'["main"] = "idle" /\ up' # "up"
        BY <1>1, MainType
      <4>2. at["main"] \in {"readKey", "load"}
        <5> DEFINE on == \E step \in Steps \ {"idle"}, func \in Funcs : Go("main", step, func)
        <5>1. ~on
          BY <4>1, MainType, AtType DEF SInv, Go
        <5>2. why["main"] \in Funcs
          BY MainType, AtType DEF SInv
        <5>3. ~Stat("main") /\ ~Make("main") /\ ~OpenCert("main") /\ ~WriteCert("main")
          BY <5>1, <5>2 DEF Stat, Make, OpenCert, WriteCert, On, Steps, Funcs
        <5>4. ~OpenKey("main") /\ ~WriteKey("main") /\ ~ReadCert("main")
          BY <5>1, <5>2 DEF OpenKey, WriteKey, Written, ReadCert, On, Steps, Funcs
        <5>5. ReadKey("main") \/ Load("main")
          BY <5>3, <5>4 DEF Run
        <5>6. QED BY <5>5 DEF ReadKey, Load
      <4>3. CASE at["main"] = "readKey" /\ why["main"] \in {"check", "parse"}
        <5>1. ReadKey("main")
          BY <4>3 DEF Run, Stat, Make, OpenCert, WriteCert, OpenKey, WriteKey, ReadCert, Load
        <5>2. at'["main"] # "idle"
          BY <4>3, <5>1, MainType, AtType DEF SInv, ReadKey, Mismatch, On, Go
        <5>3. QED BY <4>1, <5>2
      <4>4. CASE at["main"] = "load" /\ why["main"] \in {"check", "parse"}
        <5>1. Load("main")
          BY <4>4 DEF Run, Stat, Make, OpenCert, WriteCert, OpenKey, WriteKey, ReadCert, ReadKey
        <5>2. Return("main", TRUE)
          BY <4>4, <5>1 DEF Load
        <5>3. up' = "up"
          BY <5>2 DEF Return
        <5>4. QED BY <4>1, <5>3
      <4>5. QED BY <3>2, <4>2, <4>3, <4>4 DEF Func
    <3>4. Matches(certFile, keyFile)
      BY <3>2, <3>3 DEF Phase
    <3>5. fails = 0
      <4>1. CASE fails = 1
        <5>1. up = "starting"
          BY <3>1, <4>1, Zenon DEF SInv, Retry, CInv, TypeOK
        <5>2. QED BY <2>2, <3>3, <4>1, <5>1 DEF SInv, Retry
      <4>2. QED BY <4>1 DEF SInv
    <3>6. Matches(certFile', keyFile')
      BY <3>4 DEF files, Matches
    <3>7. fails' = 1 /\ up' = "down"
      <4>1. fails' = (IF fails < 2 THEN fails + 1 ELSE 2)
        BY <1>a, <2>2, Zenon
      <4>2. fails' = 1
        BY <3>5, <4>1
      <4>3. QED BY <1>1, <4>2
    <3>8. QED BY <3>6, <3>7 DEF Retry
  <2>3. QED BY <2>1, <2>2
<1>6. QED BY <1>1, <1>2, <1>3, <1>4, <1>5 DEF SInv

LEMMA RunSynced == ASSUME SInv, NEW p \in Proc, Run(p) PROVE SInv'
<1>0. CInv' /\ up # "down" /\ at[p] # "idle"
  <2>1. at[p] # "idle"
    BY DEF Run, Stat, Make, OpenCert, WriteCert, OpenKey, WriteKey, ReadCert, ReadKey, Load
  <2>2. up # "down"
    BY <2>1, Zenon DEF SInv, CInv, TypeOK
  <2>3. QED BY <2>1, <2>2, RunStep DEF SInv
<1>1. CASE p = "main" /\ Fails(p) /\ UNCHANGED files
  BY <1>1, RetryFails
<1>2. CASE ~(p = "main" /\ Fails(p) /\ UNCHANGED files) /\ RunsOn(p)
  <2>1. fails' \in {0, 1} /\ Retry'
    BY <1>2, RetryRuns
  <2>2. up' # "down" /\ mixed' = mixed
    BY <1>0, <1>2 DEF RunsOn
  <2>3. \A q \in Proc : Func(q)'
    BY <1>2, FuncKeeps DEF SInv, RunsOn
  <2>4. up' = "starting" => at'["main"] # "idle"
    BY <1>2, AtType, MainType DEF SInv, RunsOn, Go
  <2>5. why'["main"] # "save"
    BY <1>2, AtType, MainType DEF SInv, RunsOn, Go
  <2>6. ~mixed' => Alone'
    BY <1>0, <1>2, <2>2, RunAlone DEF SInv
  <2>7. QED BY <1>0, <2>1, <2>2, <2>3, <2>4, <2>5, <2>6 DEF SInv
<1>3. CASE p # "main" /\ Fails(p) /\ UNCHANGED files
  <2>1. Go(p, "idle", "") /\ UNCHANGED <<up, fails, mixed, files>>
    BY <1>3 DEF Fails, Return
  <2>2. at'[p] = "idle" /\ why'[p] = "" /\ at'["main"] = at["main"] /\ why'["main"] = why["main"]
    BY <1>3, <2>1, AtType, MainType DEF Go, SInv
  <2>3. \A q \in Proc : Func(q)'
    <3>1. Func(p)'
      BY <2>2 DEF Func
    <3>2. QED BY <2>1, <3>1, FuncKeeps DEF SInv
  <2>4. Retry'
    BY <2>1, <2>2 DEF SInv, Retry, files, Matches
  <2>5. ~mixed' => Alone'
    BY <1>0, <1>3, <2>1, RunAlone DEF SInv
  <2>6. QED BY <1>0, <2>1, <2>2, <2>3, <2>4, <2>5 DEF SInv
<1>4. QED BY <1>1, <1>2, <1>3, RunsOrFails

\* An operation begins when no other runs, or is mixed with those that do.
LEMMA BeginsSynced ==
  ASSUME SInv, CInv', NEW p \in Proc, p # "main", Begins(p),
         NEW step, step # "idle", NEW func \in Funcs, Go(p, step, func), Func(p)',
         \/ step \in {"writeCert", "openCert"} /\ func = "save"
         \/ step = "stat" /\ func = "check" /\ UNCHANGED <<files, table>>
  PROVE  SInv'
<1>1. up # "down" /\ up' = up /\ fails' = fails /\ (mixed' <=> (mixed \/ Active # {})) /\ at[p] = "idle"
  BY DEF Begins
<1>2. at'[p] = step /\ why'[p] = func /\ \A q \in Proc \ {p} : at'[q] = at[q] /\ why'[q] = why[q]
  BY AtType DEF SInv, Go
<1>3. \A q \in Proc : Func(q)'
  BY FuncKeeps DEF SInv
<1>4. ASSUME ~mixed' PROVE Alone' /\ at["main"] = "idle"
  <2>1. Active = {} /\ Synced
    BY <1>1, <1>4 DEF SInv, Alone
  <2>2. at["main"] = "idle" /\ Active' = {p}
    BY <1>2, <2>1, MainType DEF Active
  <2>3. Phase(p)'
    BY <1>2, <2>1 DEF Phase, Synced, Matches, files
  <2>4. QED BY <2>2, <2>3 DEF Alone
<1>5. Retry'
  <2>1. ASSUME up' = "starting" PROVE mixed'
    BY <1>1, <1>4, <2>1 DEF SInv
  <2>2. QED BY <1>1, <2>1 DEF SInv, Retry
<1>6. QED BY <1>1, <1>2, <1>3, <1>4, <1>5, MainType DEF SInv

LEMMA ZeroOne == 0 # 1
OBVIOUS

\* The program has crashed.
LEMMA IdleSynced ==
  ASSUME CInv', up' = "down", at' = [q \in Proc |-> "idle"], why' = [q \in Proc |-> ""], fails' = 0
  PROVE  SInv'
<1>1. (\A q \in Proc : Func(q)') /\ why'["main"] # "save"
  BY MainType DEF Func
<1>2. fails' # 1 /\ fails' \in {0, 1}
  BY ZeroOne, Zenon
<1>a. Retry'
  BY <1>2, Zenon DEF Retry
<1>3. up' # "starting" /\ up' = "down"
  OBVIOUS
<1>4. QED BY <1>1, <1>2, <1>a, <1>3, Zenon DEF SInv

LEMMA SInvStep == ASSUME SInv, [Next]_vars PROVE SInv'
<1> USE DEF Steps, Funcs
<1>0. CInv' /\ (\A p \in Proc : Func(p)) /\ at \in [Proc -> Steps] /\ why \in [Proc -> Funcs]
  BY CInvStep, AtType DEF SInv
<1>1. CASE Start
  <2>1. /\ up = "down" /\ up' = "starting" /\ fails' = fails /\ UNCHANGED files
        /\ Go("main", "stat", "parse")
    BY <1>1 DEF Start
  <2>2. \A q \in Proc : at[q] = "idle"
    BY <2>1, Zenon DEF SInv, CInv, TypeOK
  <2>3. /\ at'["main"] = "stat" /\ why'["main"] = "parse"
        /\ \A q \in Proc \ {"main"} : at'[q] = "idle" /\ why'[q] = why[q]
    BY <1>0, <2>1, <2>2, MainType DEF Go
  <2>4. \A q \in Proc : Func(q)'
    BY <1>0, <2>2, <2>3 DEF Func
  <2>5. Alone'
    <3>1. Active' = {"main"} /\ Phase("main")'
      BY <2>3, MainType DEF Active, Phase
    <3>2. QED BY <3>1 DEF Alone
  <2>6. Retry'
    BY <2>1, <2>3 DEF SInv, Retry, files, Matches
  <2>7. QED BY <1>0, <2>1, <2>3, <2>4, <2>5, <2>6 DEF SInv
<1>2. CASE ReNewCert
  <2>1. Begins("cron") /\ Go("cron", "stat", "check") /\ UNCHANGED <<files, table>>
    BY <1>2 DEF ReNewCert
  <2>2. Func("cron")'
    BY <1>0, <2>1, MainType DEF Go, Func
  <2>3. QED BY <1>0, <2>1, <2>2, BeginsSynced, MainType
<1>3. CASE NotRenewed
  <2>1. /\ Go("cron", "idle", "") /\ UNCHANGED <<up, fails, mixed, files, table>>
        /\ at["cron"] \in {"renew", "renewKey"}
    BY <1>3, MainType DEF NotRenewed, Fails, Return
  <2>2. at'["cron"] = "idle" /\ why'["cron"] = "" /\ at'["main"] = at["main"] /\ why'["main"] = why["main"]
    BY <1>0, <2>1, MainType DEF Go
  <2>3. \A q \in Proc : Func(q)'
    <3>1. Func("cron")'
      BY <2>2 DEF Func
    <3>2. QED BY <2>1, <3>1, MainType, FuncKeeps DEF SInv
  <2>4. Retry'
    BY <2>1, <2>2 DEF SInv, Retry, files, Matches
  <2>5. ASSUME up' # "down", ~mixed' PROVE Alone'
    <3>1. Alone /\ Phase("cron") /\ why["cron"] = "check"
      BY <1>0, <2>1, <2>5, MainType DEF SInv, Alone, Active, Func
    <3>2. Synced'
      BY <2>1, <3>1 DEF Phase, Synced, files, Matches
    <3>3. QED BY <2>1, <3>1, <3>2, AloneKeeps, MainType DEF SInv
  <2>6. QED BY <1>0, <2>1, <2>2, <2>3, <2>4, <2>5 DEF SInv
<1>4. CASE RenewCert
  <2>1. /\ Go("cron", "renewKey", why["cron"]) /\ UNCHANGED <<up, fails, mixed, files, table>>
        /\ at["cron"] = "renew" /\ why["cron"] = "check"
    BY <1>0, <1>4, MainType DEF RenewCert, On, outer, Func
  <2>2. at'["cron"] = "renewKey" /\ why'["cron"] = "check" /\ at'["main"] = at["main"] /\ why'["main"] = why["main"]
    BY <1>0, <2>1, MainType DEF Go
  <2>3. \A q \in Proc : Func(q)'
    <3>1. Func("cron")'
      BY <2>2 DEF Func
    <3>2. QED BY <2>1, <3>1, MainType, FuncKeeps DEF SInv
  <2>4. Retry'
    BY <2>1, <2>2 DEF SInv, Retry, files, Matches
  <2>5. ASSUME up' # "down", ~mixed' PROVE Alone'
    <3>1. Alone /\ Phase("cron")
      BY <2>1, <2>5, MainType DEF SInv, Alone, Active
    <3>2. Synced'
      BY <2>1, <3>1 DEF Phase, Synced, files, Matches
    <3>3. Phase("cron")'
      BY <2>2, <3>2 DEF Phase
    <3>4. QED BY <2>1, <3>1, <3>3, AloneKeeps, MainType DEF SInv
  <2>6. QED BY <1>0, <2>1, <2>2, <2>3, <2>4, <2>5 DEF SInv
<1>5. CASE RenewKey
  <2>1. Go("cron", "openCert", "save") /\ UNCHANGED <<up, fails, mixed, files, table>> /\ at["cron"] = "renewKey"
    BY <1>5 DEF RenewKey, outer
  <2>2. at'["cron"] = "openCert" /\ why'["cron"] = "save" /\ at'["main"] = at["main"] /\ why'["main"] = why["main"]
    BY <1>0, <2>1, MainType DEF Go
  <2>3. \A q \in Proc : Func(q)'
    <3>1. Func("cron")'
      BY <2>2 DEF Func
    <3>2. QED BY <2>1, <3>1, MainType, FuncKeeps DEF SInv
  <2>4. Retry'
    BY <2>1, <2>2 DEF SInv, Retry, files, Matches
  <2>5. ASSUME up' # "down", ~mixed' PROVE Alone'
    <3>1. Alone /\ Phase("cron")'
      BY <2>1, <2>2, <2>5 DEF SInv, Phase
    <3>2. QED BY <2>1, <3>1, AloneKeeps, MainType DEF SInv
  <2>6. QED BY <1>0, <2>1, <2>2, <2>3, <2>4, <2>5 DEF SInv
<1>6. CASE Crash
  <2>1. /\ up' = "down" /\ at' = [q \in Proc |-> "idle"] /\ why' = [q \in Proc |-> ""] /\ fails' = 0
    BY <1>6 DEF Crash, Dies
  <2>2. QED BY <1>0, <2>1, IdleSynced
<1>7. ASSUME NEW p \in Admin, CustomCert(p) PROVE SInv'
  <2>1. Begins(p) /\ Go(p, "writeCert", "save") /\ p \in Proc /\ p # "main"
    BY <1>7, MainType DEF CustomCert
  <2>2. Func(p)'
    BY <1>0, <2>1 DEF Go, Func
  <2>3. QED BY <1>0, <2>1, <2>2, BeginsSynced
<1>8. ASSUME NEW p \in Admin, CreatCert(p) PROVE SInv'
  <2>1. Begins(p) /\ Go(p, "openCert", "save") /\ p \in Proc /\ p # "main"
    BY <1>8, MainType DEF CreatCert
  <2>2. Func(p)'
    BY <1>0, <2>1 DEF Go, Func
  <2>3. QED BY <1>0, <2>1, <2>2, BeginsSynced
<1>9. ASSUME NEW p \in Proc, Run(p) PROVE SInv'
  BY <1>9, RunSynced
<1>10. ASSUME NEW p \in Proc, WriteError(p) PROVE SInv'
  <2>1. /\ mixed' = TRUE /\ UNCHANGED <<files, table, up, fails>> /\ at[p] \in {"writeCert", "writeKey"}
        /\ why[p] \in {"save", "missing", "mismatch"} /\ (p = "main" => why[p] # "save")
    BY <1>0, <1>10 DEF WriteError, Func, SInv
  <2>2. PICK step \in Steps, func \in Funcs :
          /\ Go(p, step, func)
          /\ \/ step = "idle" /\ func = "" /\ why[p] = "save"
             \/ step = "stat" /\ func = "parse" /\ why[p] = "save"
             \/ step \in {"readCert", "openKey"} /\ func = why[p] /\ why[p] # "save"
    BY <1>0, <1>10, <2>1 DEF WriteError, Written, On
  <2>3. at'[p] = step /\ why'[p] = func /\ \A q \in Proc \ {p} : at'[q] = at[q] /\ why'[q] = why[q]
    BY <1>0, <2>2 DEF Go
  <2>4. Func(p)'
    BY <2>1, <2>2, <2>3 DEF Func
  <2>5. \A q \in Proc : Func(q)'
    BY <2>2, <2>4, FuncKeeps DEF SInv
  <2>6. Retry'
    BY <2>1 DEF SInv, Retry, files, Matches
  <2>7. why'["main"] # "save" /\ (up' = "starting" => at'["main"] # "idle")
    BY <2>1, <2>2, <2>3, MainType DEF SInv
  <2>8. QED BY <1>0, <2>1, <2>5, <2>6, <2>7 DEF SInv
<1>11. CASE UNCHANGED vars
  <2>1. \A p \in Proc : Phase(p)' <=> Phase(p)
    BY <1>11 DEF vars, Phase, Synced, Matches
  <2>2. Alone' <=> Alone
    BY <1>11, <2>1 DEF vars, Alone, Active, Synced, Matches
  <2>3. \A p \in Proc : Func(p)'
    BY <1>0, <1>11 DEF vars, Func
  <2>4. QED BY <1>0, <1>11, <2>2, <2>3 DEF vars, SInv, Retry, Matches
<1>12. QED
  BY <1>1, <1>2, <1>3, <1>4, <1>6, <1>7, <1>8, <1>9, <1>10, <1>11, <1>5 DEF Next

LEMMA SInvInit == Init => SInv
<1> SUFFICES ASSUME Init PROVE SInv
  OBVIOUS
<1>1. up = "down" /\ fails = 0 /\ at = [p \in Proc |-> "idle"] /\ why = [p \in Proc |-> ""]
  BY DEF Init
<1>2. (\A p \in Proc : Func(p)) /\ why["main"] # "save"
  BY <1>1, MainType DEF Func
<1>3. fails # 1 /\ fails \in {0, 1} /\ up # "starting"
  BY ZeroOne, <1>1, Zenon
<1>a. Retry
  BY <1>3, Zenon DEF Retry
<1>4. QED BY <1>1, <1>2, <1>3, <1>a, CInvInit, Zenon DEF SInv

\* While operations do not overlap and writes succeed, the certificate served between
\* them is the one in the files, with its key, whatever pair was uploaded (CustomCert,
\* ParseCert).
THEOREM FilesAreServed == Spec => []FilesServed
<1>1. SInv /\ [Next]_vars => SInv'
  BY SInvStep
<1>2. SInv => FilesServed
  BY DEF SInv, Alone, Synced, FilesServed
<1>3. QED BY SInvInit, <1>1, <1>2, PTL DEF Spec

\* The second of two starts that nothing disturbs does not fail, whatever a crash left in
\* the files (startTls, ParseCert).
THEOREM StartsFailOnce == Spec => []FailsOnce
<1>1. SInv /\ [Next]_vars => SInv'
  BY SInvStep
<1>2. SInv => FailsOnce
  BY DEF SInv, FailsOnce
<1>3. QED BY SInvInit, <1>1, <1>2, PTL DEF Spec
=============================================================================
