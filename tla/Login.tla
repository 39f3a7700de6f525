-------------------------------- MODULE Login --------------------------------
(***************************************************************************)
(* The two handlers of a login in a group of local users: LinkAuth checks  *)
(* name and password (handler/link_auth.go, dbdata/user.go), LinkAuth_otp  *)
(* the one-time code of a user who needs one (handler/link_auth_otp.go).   *)
(* In between the login is a temporary session of SessStore, known to the  *)
(* client by a cookie, which several requests may send at once.            *)
(*                                                                         *)
(* What LockManager answers is left open: it may refuse any request.       *)
(***************************************************************************)
EXTENDS Integers, FiniteSets

CONSTANTS
  Login,      \* requests that may be in progress at a time
  User,       \* users with a row in the user table
  OtpUser,    \* those whose row says that they need a one-time code
  Temp,       \* ids of temporary sessions
  Window,     \* how long a code is valid (30 seconds)
  OtpExpire,  \* how long a code that was entered is remembered (60 seconds)
  MaxTime,    \* bound of the clock
  MaxSess,    \* bound of the sessions opened for a user
  NULL

ASSUME LoginAssumption ==
  /\ OtpUser \subseteq User /\ IsFiniteSet(Login)
  /\ Window \in Nat \ {0} /\ OtpExpire \in Nat /\ MaxTime \in Nat /\ MaxSess \in Nat
  /\ NULL \notin Temp \cup User /\ {"new", "gone"} \cap User = {}

\* A code is remembered for as long as it is valid.
ASSUME OtpAssumption == Window <= OtpExpire

VARIABLES
  now,       \* the clock
  alone,     \* base.Cfg.AuthAloneOtp: the code is asked for separately
  step,      \* what a request is about to do
  name,      \* the user it is about
  temp,      \* the temporary session of a LinkAuth_otp
  rows,      \* the users that still have a row
  store,     \* SessStore: "new", the user, then "gone"
  used,      \* userOtp: when a code was entered, 0 if not
  accepted,  \* history: the codes that were right
  opened     \* history: the sessions NewSession has made for a user

vars == <<now, alone, step, name, temp, rows, store, used, accepted, opened>>

Last == MaxTime \div Window
Code == User \X (0 .. Last)

Init ==
  /\ now = 1
  /\ alone \in BOOLEAN
  /\ step = [l \in Login |-> "none"]
  /\ name = [l \in Login |-> NULL]
  /\ temp = [l \in Login |-> NULL]
  /\ rows = User
  /\ store = [x \in Temp |-> "new"]
  /\ used = [c \in Code |-> 0]
  /\ accepted = {}
  /\ opened = [u \in User |-> 0]

Goto(l, to) == step' = [step EXCEPT ![l] = to]
End(l)      == /\ Goto(l, "none")
               /\ name' = [name EXCEPT ![l] = NULL]
               /\ temp' = [temp EXCEPT ![l] = NULL]

Tick ==
  /\ now < MaxTime
  /\ now' = now + 1
  /\ UNCHANGED <<alone, step, name, temp, rows, store, used, accepted, opened>>

-----------------------------------------------------------------------------
(* CheckOtp.                                                               *)

\* The codes somebody may enter for u: of this window or one to come.  Any other is
\* wrong for ever, and to remember it changes nothing.
Entered(u) == {<<u, w>> : w \in (now \div Window) .. Last} \cup {NULL}

\* The code of the window, unless it was entered before.
Right(c) == c # NULL /\ used[c] = 0 /\ c[2] = now \div Window

\* Mutated: a code is remembered only if it was wrong.
CheckOtpForgets(c) ==
  /\ used' = IF c # NULL /\ ~Right(c) /\ used[c] = 0 THEN [used EXCEPT ![c] = now] ELSE used
  /\ accepted' = IF Right(c) THEN accepted \cup {c} ELSE accepted

\* Each code is remembered, right or not.
CheckOtp(c) ==
  /\ used' = IF c # NULL /\ used[c] = 0 THEN [used EXCEPT ![c] = now] ELSE used
  /\ accepted' = IF Right(c) THEN accepted \cup {c} ELSE accepted

\* Every ten seconds codes entered too long ago are forgotten.
CleanOtp ==
  /\ used' = [c \in Code |-> IF now > used[c] + OtpExpire THEN 0 ELSE used[c]]
  /\ UNCHANGED <<now, alone, step, name, temp, rows, store, accepted, opened>>

-----------------------------------------------------------------------------
(* LinkAuth.                                                               *)

LinkAuth(l, u) ==
  /\ step[l] = "none"
  /\ Goto(l, "auth")
  /\ name' = [name EXCEPT ![l] = u]
  /\ UNCHANGED <<now, alone, temp, rows, store, used, accepted, opened>>

\* CheckUser: the code at the end of the password, if there is to be one, is checked
\* before the password itself, which may be wrong.
CheckUser(l) ==
  LET u == name[l] IN
  /\ step[l] = "auth"
  /\ \/ /\ u \in rows
        /\ IF u \in OtpUser /\ ~alone THEN \E c \in Entered(u) : Right(c) /\ CheckOtp(c)
                                      ELSE UNCHANGED <<used, accepted>>
        /\ Goto(l, "route")
        /\ UNCHANGED <<name, temp>>
     \/ /\ IF u \in OtpUser \cap rows /\ ~alone THEN \E c \in Entered(u) : CheckOtp(c)
                                                ELSE UNCHANGED <<used, accepted>>
        /\ End(l)
  /\ UNCHANGED <<now, alone, rows, store, opened>>

\* LinkAuth reads the row again: a user without one is taken for one of LDAP or
\* RADIUS, who needs no code.
Route(l) ==
  /\ step[l] = "route"
  /\ Goto(l, IF alone /\ name[l] \in OtpUser \cap rows THEN "save" ELSE "create")
  /\ UNCHANGED <<now, alone, name, temp, rows, store, used, accepted, opened>>

\* SaveAuthSession, under an id that is new; its cookie goes to the client.
SaveAuthSession(l) ==
  /\ step[l] = "save"
  /\ \E x \in Temp : store[x] = "new" /\ store' = [store EXCEPT ![x] = name[l]]
  /\ End(l)
  /\ UNCHANGED <<now, alone, rows, used, accepted, opened>>

\* CreateSession: NewSession, and the answer.
CreateSession(l) ==
  /\ step[l] = "create"
  /\ opened[name[l]] < MaxSess
  /\ opened' = [opened EXCEPT ![name[l]] = @ + 1]
  /\ IF temp[l] = NULL THEN End(l) ELSE Goto(l, "delete") /\ UNCHANGED <<name, temp>>
  /\ UNCHANGED <<now, alone, rows, store, used, accepted>>

-----------------------------------------------------------------------------
(* LinkAuth_otp.                                                           *)

\* Mutated: the id of the cookie is not kept.
LinkAuth_otpBlind(l, x) ==
  /\ step[l] = "none" /\ store[x] \in User
  /\ name' = [name EXCEPT ![l] = store[x]]
  /\ \E to \in {"otp", "delete"} : Goto(l, to)
  /\ UNCHANGED <<now, alone, temp, rows, store, used, accepted, opened>>

\* GetAuthSession finds the temporary session of the cookie; LockManager lets its
\* user go on, or the session is to be deleted.
LinkAuth_otp(l, x) ==
  /\ step[l] = "none" /\ store[x] \in User
  /\ name' = [name EXCEPT ![l] = store[x]]
  /\ temp' = [temp EXCEPT ![l] = x]
  /\ \E to \in {"otp", "delete"} : Goto(l, to)
  /\ UNCHANGED <<now, alone, rows, store, used, accepted, opened>>

\* A body that cannot be read or parsed ends the temporary session.
BadBody(x) ==
  /\ store[x] \in User
  /\ store' = [store EXCEPT ![x] = "gone"]
  /\ UNCHANGED <<now, alone, step, name, temp, rows, used, accepted, opened>>

\* CheckOtp of the code that was sent; after a wrong one the temporary session
\* stays.
CheckCode(l) ==
  /\ step[l] = "otp"
  /\ \E c \in Entered(name[l]) :
       /\ CheckOtp(c)
       /\ IF Right(c) THEN Goto(l, "create") /\ UNCHANGED <<name, temp>> ELSE End(l)
  /\ UNCHANGED <<now, alone, rows, store, opened>>

\* Mutated: the request's temporary session is forgotten before it is deleted.
DeleteNothing(l) ==
  /\ step[l] = "delete"
  /\ End(l)
  /\ UNCHANGED <<now, alone, rows, store, used, accepted, opened>>

DeleteAuthSession(l) ==
  /\ step[l] = "delete"
  /\ store' = [store EXCEPT ![temp[l]] = "gone"]
  /\ End(l)
  /\ UNCHANGED <<now, alone, rows, used, accepted, opened>>

-----------------------------------------------------------------------------
\* The administrator deletes a user.
DeleteUser(u) ==
  /\ u \in rows
  /\ rows' = rows \ {u}
  /\ UNCHANGED <<now, alone, step, name, temp, store, used, accepted, opened>>

Next ==
  \/ Tick \/ CleanOtp
  \/ \E l \in Login : \/ \E u \in User : LinkAuth(l, u)
                      \/ \E x \in Temp : LinkAuth_otp(l, x)
                      \/ CheckUser(l) \/ Route(l) \/ SaveAuthSession(l)
                      \/ CreateSession(l) \/ CheckCode(l) \/ DeleteAuthSession(l)
  \/ \E x \in Temp : BadBody(x)
  \/ \E u \in User : DeleteUser(u)

Spec == Init /\ [][Next]_vars
-----------------------------------------------------------------------------
(* Properties.                                                             *)

\* Types; a request has a user while it is in progress and a temporary session if it
\* is a LinkAuth_otp, one that was saved for that user.
TypeOK ==
  /\ now \in Nat /\ alone \in BOOLEAN
  /\ step \in [Login -> {"none", "auth", "route", "save", "otp", "create", "delete"}]
  /\ name \in [Login -> User \cup {NULL}]
  /\ temp \in [Login -> Temp \cup {NULL}]
  /\ rows \subseteq User
  /\ store \in [Temp -> User \cup {"new", "gone"}]
  /\ used \in [Code -> Nat] /\ accepted \subseteq Code /\ opened \in [User -> Nat]
  /\ \A l \in Login : /\ step[l] = "none" <=> name[l] = NULL
                      /\ step[l] \in {"otp", "delete"} => temp[l] # NULL
                      /\ temp[l] # NULL => store[temp[l]] \in {name[l], "gone"}

\* Requests that still have to open a session for u after its code was accepted.
Opening(u) == {l \in Login : name[l] = u /\ (step[l] = "create" \/ (step[l] = "route" /\ ~alone))}

\* CheckOtp: "a token can be used only once".  However requests share a temporary
\* session and codes are forgotten, a user who needs a code has no more sessions,
\* opened or about to be, than different codes were accepted, unless the user's row
\* was deleted.
SessionsNeedCodes ==
  \A u \in OtpUser \cap rows :
    opened[u] + Cardinality(Opening(u)) <= Cardinality({c \in accepted : c[1] = u})

\* A temporary session that has led to a session is gone once no request is about to
\* open or delete one: it outlives its login only as long as a request uses it.
Led(x) == \E l \in Login : temp[l] = x /\ step[l] \in {"create", "delete"}
TempUsedUp ==
  [][\A x \in Temp : Led(x) /\ ~Led(x)' => store'[x] = "gone"]_vars
=============================================================================
