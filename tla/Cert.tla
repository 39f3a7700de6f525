-------------------------------- MODULE Cert --------------------------------
(***************************************************************************)
(* The server's certificate (dbdata/cert.go): two files, for the           *)
(* certificate and its private key, and nameToCertificate, from which a    *)
(* TLS hello is answered.  startTls, an administrator's upload or request  *)
(* (admin/api_cert.go) and the daily renewal write and read the files with *)
(* no lock, a file at a time; a file is empty between its truncation and   *)
(* its writing.  The program may crash at any step.                        *)
(***************************************************************************)
EXTENDS Integers, FiniteSets

CONSTANTS
  Admin,      \* requests of administrators
  Names,      \* the sets of names that certificates are obtained for
  Wild,       \* the name that is "*.<domain>"
  Local,      \* "localhost", a self-signed certificate's CommonName
  Lower,      \* strings.ToLower, on the names
  MaxOps,     \* bound of the operations of administrators and of the schedule
  MaxActive,  \* bound of those at one time, startTls included
  MaxCrash,   \* bound of the crashes
  MaxFault    \* bound of the writes that fail

ASSUME CertAssumption ==
  /\ "main" \notin Admin /\ "cron" \notin Admin
  /\ Names # {} /\ "default" \notin UNION Names
  /\ IsFiniteSet(Admin) /\ IsFiniteSet(UNION Names)
  /\ Wild # "default" /\ Local # "default" /\ Wild # Local
  /\ MaxOps \in Nat /\ MaxActive \in Nat /\ MaxCrash \in Nat /\ MaxFault \in Nat

\* Names as they are spelt in certificates and hellos.
Name == {Wild, Local} \cup UNION Names

ASSUME LowerAssumption ==
  Lower \in [Name -> Name] /\ Lower[Wild] = Wild /\ Lower[Local] = Local

Proc == Admin \cup {"main", "cron"}

\* A certificate: its serial number, the number of its key, and its names.  0 is the
\* number of a file that does not exist, -1 of one that holds nothing of use.
Cert == [serial : Int, key : Int, names : SUBSET Name]
NoCert == [serial |-> 0, key |-> 0, names |-> {}]
Torn   == [serial |-> -1, key |-> -1, names |-> {}]

VARIABLES
  certFile, keyFile,  \* base.Cfg.CertFile, base.Cfg.CertKey
  table,              \* nameToCertificate: certificates with the keys they were loaded with
  at, why,            \* where a process is, and in which function
  hand,               \* the certificate and the key it writes or has read
  up,                 \* the program: "down", "starting" or "up"
  ops, crashes, faults,
  mixed,              \* history: since the start, operations overlapped or a write failed
  fails               \* history: the starts (two are many) that failed one after the
                      \* other with no crash, fault or other operation

vars == <<certFile, keyFile, table, at, why, hand, up, ops, crashes, faults, mixed, fails>>

files   == <<certFile, keyFile>>
outer   == <<up, ops, crashes, faults, mixed, fails>>

NoHand == [cert |-> NoCert, key |-> 0]
Empty  == [n \in Name \cup {"default"} |-> NoHand]

\* The files do not exist yet, or are those of an earlier certificate.
Init ==
  /\ \E n \in {0, 1} :
       /\ certFile = IF n = 0 THEN NoCert ELSE [serial |-> 1, key |-> 1, names |-> {Wild}]
       /\ keyFile = n
  /\ table = Empty
  /\ at = [p \in Proc |-> "idle"] /\ why = [p \in Proc |-> ""]
  /\ hand = [p \in Proc |-> NoHand]
  /\ up = "down"
  /\ ops = 0 /\ crashes = 0 /\ faults = 0 /\ mixed = FALSE /\ fails = 0

\* A number for a new certificate and key: one that is nowhere in the state.
Unused ==
  LET pairs == {table[n] : n \in DOMAIN table} \cup {hand[p] : p \in Proc}
                 \cup {[cert |-> certFile, key |-> keyFile]}
      used  == UNION {{c.cert.serial, c.cert.key, c.key} : c \in pairs}
  IN  CHOOSE n \in 1 .. Cardinality(used) + 1 : n \notin used

Matches(c, k) == k > 0 /\ c.key = k

Go(p, step, func) == at' = [at EXCEPT ![p] = step] /\ why' = [why EXCEPT ![p] = func]
On(p, step) == Go(p, step, why[p])

\* The program ends: its memory and its processes are gone.
Dies ==
  /\ up' = "down"
  /\ at' = [p \in Proc |-> "idle"] /\ why' = [p \in Proc |-> ""]
  /\ hand' = [p \in Proc |-> NoHand]

-----------------------------------------------------------------------------
(* nameToCertificate                                                       *)

\* Mutated: a name that has a certificate keeps it.
BuildOnce(c) ==
  table' = [n \in DOMAIN table |->
              IF n = "default" \/ (n \in c.cert.names /\ table[n] = NoHand) THEN c ELSE table[n]]

\* buildNameToCertificate: each name as it is spelt in the certificate; the entries of
\* names the certificate has not stay.
BuildNameToCertificate(c) ==
  table' = [n \in DOMAIN table |-> IF n \in c.cert.names \cup {"default"} THEN c ELSE table[n]]

\* GetCertificateBySNI: of the name in lower case its own entry, else the wildcard's, else
\* the default.  NoHand stands for the temporary certificate.
GetCertificateBySNI(n) ==
  LET name == Lower[n] IN
  IF table[name] # NoHand THEN table[name]
  ELSE IF name # Local /\ table[Wild] # NoHand THEN table[Wild] ELSE table["default"]

-----------------------------------------------------------------------------
(* The steps of an operation.  A process writes the pair in its hand, to   *)
(* "save" it (CustomCert, SaveCert) or in PrivateCert, which ParseCert     *)
(* calls when a file is "missing" or the pair does "mismatch"; or it reads *)
(* a pair, in PrivateCert again, or in ParseCert to "check" it (ReNewCert) *)
(* or to load it ("parse").                                                *)

\* ParseCert begins: it looks for the files.
Stat(p) ==
  /\ at[p] = "stat"
  /\ IF certFile = NoCert \/ keyFile = 0 THEN Go(p, "make", "missing") ELSE On(p, "readCert")
  /\ UNCHANGED <<files, table, hand, outer>>

\* PrivateCert begins: a new key and a certificate for it, and the file is truncated.
Make(p) ==
  /\ at[p] = "make"
  /\ certFile' = Torn
  /\ hand' = [hand EXCEPT ![p] =
                [cert |-> [serial |-> Unused, key |-> Unused, names |-> {Local}], key |-> Unused]]
  /\ On(p, "writeCert")
  /\ UNCHANGED <<keyFile, table, outer>>

OpenCert(p) ==
  /\ at[p] = "openCert"
  /\ certFile' = Torn
  /\ On(p, "writeCert")
  /\ UNCHANGED <<keyFile, table, hand, outer>>

\* What is written over what another process wrote since the truncation may be a mixture.
WriteCert(p) ==
  /\ at[p] = "writeCert"
  /\ \/ certFile' = hand[p].cert
     \/ certFile # Torn /\ certFile' = Torn
  /\ On(p, "openKey")
  /\ UNCHANGED <<keyFile, table, hand, outer>>

OpenKey(p) ==
  /\ at[p] = "openKey"
  /\ keyFile' = -1
  /\ On(p, "writeKey")
  /\ UNCHANGED <<certFile, table, hand, outer>>

\* Mutated: SaveCert does not load what it wrote.
WrittenOnly(p) ==
  /\ IF why[p] = "save" THEN Go(p, "idle", "") ELSE On(p, "readCert")
  /\ hand' = [hand EXCEPT ![p] = NoHand]

Written(p) ==
  /\ IF why[p] = "save" THEN Go(p, "stat", "parse") ELSE On(p, "readCert")
  /\ hand' = [hand EXCEPT ![p] = NoHand]

WriteKey(p) ==
  /\ at[p] = "writeKey"
  /\ \/ keyFile' = hand[p].key
     \/ keyFile # -1 /\ keyFile' = -1
  /\ Written(p)
  /\ UNCHANGED <<certFile, table, outer>>

\* A write fails: CustomCert and SaveCert return, PrivateCert does not look.
WriteError(p) ==
  /\ at[p] \in {"writeCert", "writeKey"} /\ faults < MaxFault
  /\ faults' = faults + 1 /\ mixed' = TRUE
  /\ IF why[p] = "save" THEN Go(p, "idle", "") /\ hand' = [hand EXCEPT ![p] = NoHand]
     ELSE IF at[p] = "writeKey" THEN Written(p) ELSE On(p, "openKey") /\ UNCHANGED hand
  /\ UNCHANGED <<files, table, up, ops, crashes, fails>>

ReadCert(p) ==
  /\ at[p] = "readCert"
  /\ hand' = [hand EXCEPT ![p] = [cert |-> certFile, key |-> 0]]
  /\ On(p, "readKey")
  /\ UNCHANGED <<files, table, outer>>

\* An operation is over.  Only startTls, and the program with it, ends for an error.
Return(p, ok) ==
  /\ IF p = "main" /\ ~ok
     THEN Dies /\ fails' = (IF mixed THEN 0 ELSE IF fails < 2 THEN fails + 1 ELSE 2)
     ELSE /\ Go(p, "idle", "")
          /\ hand' = [hand EXCEPT ![p] = NoHand]
          /\ IF p = "main" THEN up' = "up" /\ fails' = 0 ELSE UNCHANGED <<up, fails>>
  /\ UNCHANGED <<ops, crashes, faults, mixed>>

Fails(p) == Return(p, FALSE) /\ table' = (IF p = "main" THEN Empty ELSE table)

\* Mutated: ParseCert leaves a pair that does not match as it is.
MismatchStays(p) == Fails(p)

\* The pair does not match: ParseCert replaces it by a self-signed one, and returns the error.
Mismatch(p) ==
  IF why[p] \in {"check", "parse"}
  THEN Go(p, "make", "mismatch") /\ hand' = [hand EXCEPT ![p] = NoHand] /\ UNCHANGED <<table, outer>>
  ELSE Fails(p)

\* Mutated: the error of LoadX509KeyPair is not looked at.
ReadKeyUnchecked(p) ==
  /\ at[p] = "readKey"
  /\ hand' = [hand EXCEPT ![p].key = keyFile]
  /\ On(p, IF why[p] = "check" THEN "renew" ELSE "load")
  /\ UNCHANGED <<files, table, outer>>

\* LoadX509KeyPair has read the certificate and reads the key.
ReadKey(p) ==
  /\ at[p] = "readKey"
  /\ IF Matches(hand[p].cert, keyFile)
     THEN /\ hand' = [hand EXCEPT ![p].key = keyFile]
          /\ On(p, IF why[p] = "check" THEN "renew" ELSE "load")
          /\ UNCHANGED <<table, outer>>
     ELSE Mismatch(p)
  /\ UNCHANGED files

\* LoadCertificate, by the caller of ParseCert or by PrivateCert.  After that ParseCert
\* reads the files that were missing, but returns the error it met if they did not match.
Load(p) ==
  /\ at[p] = "load"
  /\ IF p = "main" /\ why[p] = "mismatch" THEN Fails(p)
     ELSE /\ BuildNameToCertificate(hand[p])
          /\ IF why[p] = "missing"
             THEN /\ Go(p, "readCert", IF p = "cron" THEN "check" ELSE "parse")
                  /\ hand' = [hand EXCEPT ![p] = NoHand]
                  /\ UNCHANGED outer
             ELSE Return(p, TRUE)
  /\ UNCHANGED files

Run(p) ==
  \/ Stat(p) \/ Make(p) \/ OpenCert(p) \/ WriteCert(p) \/ OpenKey(p) \/ WriteKey(p)
  \/ ReadCert(p) \/ ReadKey(p) \/ Load(p)

-----------------------------------------------------------------------------
(* The operations                                                          *)

\* startTls, when the program starts.
Start ==
  /\ up = "down"
  /\ up' = "starting" /\ mixed' = FALSE
  /\ Go("main", "stat", "parse")
  /\ UNCHANGED <<files, table, hand, ops, crashes, faults, fails>>

Active == {p \in Proc : at[p] # "idle"}

Begins(p) ==
  /\ up # "down" /\ at[p] = "idle" /\ ops < MaxOps
  /\ ops' = ops + 1
  /\ Cardinality(Active) < MaxActive
  /\ mixed' = (mixed \/ Active # {})
  /\ UNCHANGED <<up, crashes, faults, fails>>

New(names, key) == [cert |-> [serial |-> Unused, key |-> Unused, names |-> names], key |-> key]

\* CustomCert writes two files of a form, a pair or not.
CustomCert(p) ==
  /\ Begins(p)
  /\ \E names \in Names, key \in {-1, Unused} : hand' = [hand EXCEPT ![p] = New(names, key)]
  /\ certFile' = Torn
  /\ Go(p, "writeCert", "save")
  /\ UNCHANGED <<keyFile, table>>

\* NewClient and GetCert: the ACME server's certificate for the key lego has made.  While
\* it is waited for others may write the files.
GetCert(p, names) == hand' = [hand EXCEPT ![p] = New(names, Unused)]

\* CreatCert gets a certificate for a domain, and SaveCert begins.  If there is none
\* nothing is changed.
CreatCert(p) ==
  /\ Begins(p)
  /\ \E names \in Names : GetCert(p, names)
  /\ Go(p, "openCert", "save")
  /\ UNCHANGED <<files, table>>

\* ReNewCert.
ReNewCert ==
  /\ Begins("cron")
  /\ Go("cron", "stat", "check")
  /\ UNCHANGED <<files, table, hand>>

\* There are more than seven days left, or renewing is not set up, or it fails.
NotRenewed ==
  /\ at["cron"] \in {"renew", "renewKey"}
  /\ Fails("cron")
  /\ UNCHANGED files

\* RenewCert reads the files again, the certificate first.
RenewCert ==
  /\ at["cron"] = "renew"
  /\ hand' = [hand EXCEPT !["cron"] = [cert |-> certFile, key |-> 0]]
  /\ On("cron", "renewKey")
  /\ UNCHANGED <<files, table, outer>>

\* Then the key.  The new certificate is for the names of the one and for the other,
\* and SaveCert begins.
RenewKey ==
  /\ at["cron"] = "renewKey"
  /\ hand["cron"].cert.key > 0 /\ keyFile > 0
  /\ hand' = [hand EXCEPT !["cron"] =
                [cert |-> [serial |-> Unused, key |-> keyFile, names |-> @.cert.names],
                 key |-> keyFile]]
  /\ Go("cron", "openCert", "save")
  /\ UNCHANGED <<files, table, outer>>

Crash ==
  /\ up # "down" /\ crashes < MaxCrash
  /\ crashes' = crashes + 1
  /\ Dies /\ table' = Empty /\ fails' = 0
  /\ UNCHANGED <<files, ops, faults, mixed>>

Next ==
  \/ Start \/ ReNewCert \/ NotRenewed \/ RenewCert \/ RenewKey \/ Crash
  \/ \E p \in Admin : CustomCert(p) \/ CreatCert(p)
  \/ \E p \in Proc : Run(p) \/ WriteError(p)

Spec == Init /\ [][Next]_vars

-----------------------------------------------------------------------------
(* Properties                                                              *)

\* Types; no process runs when the program is down, and nothing unusable is loaded.
TypeOK ==
  /\ certFile \in Cert /\ keyFile \in Int
  /\ table \in [Name \cup {"default"} -> [cert : Cert, key : Int]]
  /\ \A n \in DOMAIN table : table[n].cert # Torn
  /\ at \in [Proc -> {"idle", "stat", "make", "openCert", "writeCert", "openKey", "writeKey",
                      "readCert", "readKey", "load", "renew", "renewKey"}]
  /\ why \in [Proc -> {"", "save", "missing", "mismatch", "check", "parse"}]
  /\ hand \in [Proc -> [cert : Cert, key : Int]]
  /\ up \in {"down", "starting", "up"}
  /\ {ops, crashes, faults, fails} \subseteq Nat /\ mixed \in BOOLEAN
  /\ (up = "down" => \A p \in Proc : at[p] = "idle")

\* Once the server is up and as long as operations do not overlap and writes succeed,
\* what it serves between two operations is what the files hold, whatever was uploaded:
\* it serves the same certificate after a restart.
FilesServed ==
  up = "up" /\ ~mixed /\ Active = {}
    => table["default"] = [cert |-> certFile, key |-> keyFile] /\ Matches(certFile, keyFile)

\* Whatever was torn by a crash, a start that nobody disturbs fails only once: it has
\* left a pair to the next one.
FailsOnce == fails <= 1

\* However the writers interleave, once the server is up every hello is answered with a
\* certificate and the key that belongs to it.  A name of the newest certificate is
\* answered with that one, not with an older one's or its wildcard's, if it is spelt in
\* lower case there: buildNameToCertificate keeps the spelling, and GetCertificateBySNI
\* looks for nothing but lower case.
DefaultServed ==
  up = "up" => LET d == table["default"] IN
                 /\ \A n \in Name : LET c == GetCertificateBySNI(n) IN Matches(c.cert, c.key)
                 /\ \A n \in d.cert.names : Lower[n] = n => GetCertificateBySNI(n) = d

=============================================================================
