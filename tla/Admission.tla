----------------------------- MODULE Admission -----------------------------
(***************************************************************************)
(* What the session table promises its operator: a client is admitted only *)
(* below the two limits of the configuration, an admitted client gets an   *)
(* address nobody else has, and gives back the address before the slot,    *)
(* each once.  A restart of the server takes both from everybody.          *)
(***************************************************************************)
EXTENDS Integers, FiniteSets

CONSTANTS Client, User, Ip, MaxClient, MaxUserClient, NULL

VARIABLES
  owner,   \* client -> the user whose slot it occupies, or NULL
  addr     \* client -> the address it holds, or NULL

vars == <<owner, addr>>

Admitted     == {c \in Client : owner[c] # NULL}
AdmittedOf(u) == {c \in Client : owner[c] = u}

TypeOK == /\ owner \in [Client -> User \cup {NULL}]
          /\ addr \in [Client -> Ip \cup {NULL}]

Init == /\ owner = [c \in Client |-> NULL]
        /\ addr = [c \in Client |-> NULL]

Admit(c, u) ==
  /\ owner[c] = NULL
  /\ Cardinality(Admitted) < MaxClient
  /\ Cardinality(AdmittedOf(u)) < MaxUserClient
  /\ owner' = [owner EXCEPT ![c] = u]
  /\ UNCHANGED addr

Lease(c, a) ==
  /\ owner[c] # NULL /\ addr[c] = NULL
  /\ \A d \in Client : addr[d] # a
  /\ addr' = [addr EXCEPT ![c] = a]
  /\ UNCHANGED owner

ReturnIp(c) ==
  /\ addr[c] # NULL
  /\ addr' = [addr EXCEPT ![c] = NULL]
  /\ UNCHANGED owner

ReturnSlot(c) ==
  /\ owner[c] # NULL /\ addr[c] = NULL
  /\ owner' = [owner EXCEPT ![c] = NULL]
  /\ UNCHANGED addr

Restart == /\ owner' = [c \in Client |-> NULL]
           /\ addr' = [c \in Client |-> NULL]

Next ==
  \/ \E c \in Client, u \in User : Admit(c, u)
  \/ \E c \in Client, a \in Ip : Lease(c, a)
  \/ \E c \in Client : ReturnIp(c) \/ ReturnSlot(c)
  \/ Restart

Spec == Init /\ [][Next]_vars
=============================================================================
