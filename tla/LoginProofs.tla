---------------------------- MODULE LoginProofs ----------------------------
(***************************************************************************)
(* Proofs about Login: types, temporary sessions that are used up, and     *)
(* that every session of a user who needs a code has used one of its own,  *)
(* for any number of requests, users, codes and temporary sessions.        *)
(***************************************************************************)
EXTENDS Login, FiniteSetTheorems, TLAPS

-----------------------------------------------------------------------------
(* Type correctness.                                                       *)

\* The clock starts at 1, so that 0 stands for a code that was not entered; LinkAuth has
\* no temporary session.
TInv ==
  /\ TypeOK
  /\ now # 0
  /\ \A l \in Login : step[l] \in {"none", "auth", "route", "save"} => temp[l] = NULL

LEMMA TInvInit == Init => TInv
BY LoginAssumption DEF Init, TInv, TypeOK

\* What is entered is a code or not.
LEMMA EnteredType ==
  ASSUME TInv, NEW u \in User, NEW c \in Entered(u)
  PROVE  c # NULL => c \in Code /\ c[1] = u
<1> SUFFICES ASSUME c # NULL PROVE c \in Code /\ c[1] = u
  OBVIOUS
<1>1. now \div Window \in Nat
  BY LoginAssumption DEF TInv, TypeOK
<1>2. PICK w \in (now \div Window) .. Last : c = <<u, w>>
  BY DEF Entered
<1>3. w \in 0 .. Last
  BY <1>1, <1>2 DEF Last
<1>4. QED BY <1>2, <1>3 DEF Code

LEMMA CheckOtpType ==
  ASSUME TInv, NEW u \in User, NEW c \in Entered(u), CheckOtp(c)
  PROVE  used' \in [Code -> Nat] /\ accepted' \subseteq Code
BY EnteredType DEF CheckOtp, Right, TInv, TypeOK

LEMMA TInvStep == ASSUME TInv, [Next]_vars PROVE TInv'
<1> USE LoginAssumption DEF TInv, TypeOK
<1>1. CASE Tick
  BY <1>1 DEF Tick
<1>2. CASE CleanOtp
  BY <1>2 DEF CleanOtp
<1>3. ASSUME NEW l \in Login, NEW u \in User, LinkAuth(l, u) PROVE TInv'
  BY <1>3 DEF LinkAuth, Goto
<1>4. ASSUME NEW l \in Login, NEW x \in Temp, LinkAuth_otp(l, x) PROVE TInv'
  BY <1>4 DEF LinkAuth_otp, Goto
<1>5. ASSUME NEW l \in Login, CheckUser(l) PROVE TInv'
  <2>1. name[l] \in User
    BY <1>5 DEF CheckUser
  <2>2. used' \in [Code -> Nat] /\ accepted' \subseteq Code
    BY <1>5, <2>1, CheckOtpType DEF CheckUser
  <2>3. QED BY <1>5, <2>1, <2>2 DEF CheckUser, Goto, End
<1>6. ASSUME NEW l \in Login, Route(l) PROVE TInv'
  BY <1>6 DEF Route, Goto
<1>7. ASSUME NEW l \in Login, SaveAuthSession(l) PROVE TInv'
  BY <1>7 DEF SaveAuthSession, Goto, End
<1>8. ASSUME NEW l \in Login, CreateSession(l) PROVE TInv'
  BY <1>8 DEF CreateSession, Goto, End
<1>9. ASSUME NEW l \in Login, CheckCode(l) PROVE TInv'
  <2>1. name[l] \in User
    BY <1>9 DEF CheckCode
  <2>2. used' \in [Code -> Nat] /\ accepted' \subseteq Code
    BY <1>9, <2>1, CheckOtpType DEF CheckCode
  <2>3. QED BY <1>9, <2>1, <2>2 DEF CheckCode, Goto, End
<1>10. ASSUME NEW l \in Login, DeleteAuthSession(l) PROVE TInv'
  BY <1>10 DEF DeleteAuthSession, Goto, End
<1>11. ASSUME NEW x \in Temp, BadBody(x) PROVE TInv'
  BY <1>11 DEF BadBody
<1>12. ASSUME NEW u \in User, DeleteUser(u) PROVE TInv'
  BY <1>12 DEF DeleteUser
<1>13. CASE UNCHANGED vars
  BY <1>13 DEF vars
<1>14. QED
  BY <1>1, <1>2, <1>3, <1>4, <1>5, <1>6, <1>7, <1>8, <1>9, <1>10, <1>11, <1>12, <1>13 DEF Next

\* The variables keep their types, and a request's temporary session is one that was
\* saved for its user, whatever other requests do to it (link_auth_otp.go).
THEOREM TypeCorrect == Spec => []TypeOK
<1>1. TInv /\ [Next]_vars => TInv'
  BY TInvStep
<1>2. TInv => TypeOK
  BY DEF TInv
<1>3. QED
  BY TInvInit, <1>1, <1>2, PTL DEF Spec

-----------------------------------------------------------------------------
(* Temporary sessions.                                                     *)

\* Only DeleteAuthSession ends what Led is about; a request that opened its session
\* goes on to it.
LEMMA TempStep ==
  ASSUME TInv, [Next]_vars, NEW x \in Temp, Led(x), ~Led(x)'
  PROVE  store'[x] = "gone"
<1> USE LoginAssumption DEF TInv, TypeOK, Led
<1>0. PICK k \in Login : temp[k] = x /\ step[k] \in {"create", "delete"}
  OBVIOUS
<1>a. ~(temp'[k] = x /\ step'[k] \in {"create", "delete"})
  OBVIOUS
<1>b. x # NULL
  OBVIOUS
<1>1. ASSUME NEW l \in Login, NEW u \in User, LinkAuth(l, u) PROVE FALSE
  BY <1>0, <1>a, <1>1 DEF LinkAuth, Goto
<1>2. ASSUME NEW l \in Login, NEW y \in Temp, LinkAuth_otp(l, y) PROVE FALSE
  BY <1>0, <1>a, <1>2 DEF LinkAuth_otp, Goto
<1>3. ASSUME NEW l \in Login, CheckUser(l) PROVE FALSE
  BY <1>0, <1>a, <1>3 DEF CheckUser, Goto, End
<1>4. ASSUME NEW l \in Login, Route(l) PROVE FALSE
  BY <1>0, <1>a, <1>4 DEF Route, Goto
<1>5. ASSUME NEW l \in Login, SaveAuthSession(l) PROVE FALSE
  BY <1>0, <1>a, <1>5 DEF SaveAuthSession, Goto, End
<1>6. ASSUME NEW l \in Login, CreateSession(l) PROVE FALSE
  BY <1>0, <1>a, <1>b, <1>6 DEF CreateSession, Goto, End
<1>7. ASSUME NEW l \in Login, CheckCode(l) PROVE FALSE
  BY <1>0, <1>a, <1>7 DEF CheckCode, Goto, End
<1>8. ASSUME NEW l \in Login, DeleteAuthSession(l) PROVE store'[x] = "gone"
  BY <1>0, <1>a, <1>8 DEF DeleteAuthSession, Goto, End
<1>9. CASE UNCHANGED <<step, temp>>
  BY <1>0, <1>a, <1>9
<1>10. QED
  BY <1>1, <1>2, <1>3, <1>4, <1>5, <1>6, <1>7, <1>8, <1>9
     DEF Next, Tick, CleanOtp, BadBody, DeleteUser, vars

\* A temporary session that has led to a session is gone when the last request about to
\* open or delete one is done (link_auth_otp.go).
THEOREM TempUsed == Spec => TempUsedUp
<1>1. TInv /\ [Next]_vars => TInv'
  BY TInvStep
<1>2. TInv /\ [Next]_vars => \A x \in Temp : Led(x) /\ ~Led(x)' => store'[x] = "gone"
  BY TempStep
<1>3. QED
  BY TInvInit, <1>1, <1>2, PTL DEF Spec, TempUsedUp

-----------------------------------------------------------------------------
(* Codes are accepted once.                                                *)

\* A code that was accepted is of an earlier window, or still remembered as entered in
\* its own: this is what Window <= OtpExpire is for.
Remembered(c) ==
  c[2] < now \div Window \/ (used[c] # 0 /\ used[c] <= now /\ used[c] \div Window = c[2])

CodeInv == TInv /\ \A c \in accepted : Remembered(c)

LEMMA DivMono ==
  ASSUME NEW a \in Nat, NEW b \in Nat, NEW w \in Nat \ {0}
  PROVE  /\ a \div w \in Nat
         /\ a <= b => a \div w <= b \div w
         /\ a + w <= b => a \div w < b \div w
OBVIOUS

LEMMA CodeInvInit == Init => CodeInv
BY TInvInit DEF Init, CodeInv

\* To enter one more code keeps the others.
LEMMA CheckOtpRemembers ==
  ASSUME CodeInv, NEW u \in User, NEW c \in Entered(u), CheckOtp(c), now' = now
  PROVE  \A d \in accepted' : Remembered(d)'
<1> USE DEF CodeInv, TInv, TypeOK
<1> SUFFICES ASSUME NEW d \in accepted' PROVE Remembered(d)'
  OBVIOUS
<1>1. now \div Window \in Nat
  BY DivMono, LoginAssumption
<1>2. CASE d \in accepted
  <2>1. Remembered(d) /\ d \in Code
    BY <1>2
  <2>2. used'[d] = used[d] \/ used[d] = 0
    BY <2>1, EnteredType DEF CheckOtp
  <2>3. QED BY <2>1, <2>2, <1>1 DEF Remembered
<1>3. CASE d \notin accepted
  <2>1. d = c /\ Right(c)
    BY <1>3 DEF CheckOtp
  <2>2. c \in Code /\ used[c] = 0 /\ c[2] = now \div Window
    BY <2>1, EnteredType DEF Right
  <2>3. used'[c] = now
    BY <2>1, <2>2 DEF CheckOtp, Right
  <2>4. QED BY <2>1, <2>2, <2>3 DEF Remembered
<1>4. QED BY <1>2, <1>3

\* To forget codes that were entered long ago forgets none of this window.
LEMMA CleanOtpRemembers ==
  ASSUME CodeInv, CleanOtp
  PROVE  \A c \in accepted' : Remembered(c)'
<1> USE DEF CodeInv, TInv, TypeOK, CleanOtp
<1> SUFFICES ASSUME NEW c \in accepted PROVE Remembered(c)'
  OBVIOUS
<1>1. Remembered(c) /\ c \in Code /\ used[c] \in Nat
  OBVIOUS
<1>2. CASE c[2] < now \div Window
  BY <1>2 DEF Remembered
<1>3. CASE used[c] # 0 /\ used[c] <= now /\ used[c] \div Window = c[2]
  <2>1. CASE now > used[c] + OtpExpire
    <3>1. used[c] + Window <= now
      BY <2>1, <1>1, LoginAssumption, OtpAssumption
    <3>2. used[c] \div Window < now \div Window
      BY <3>1, <1>1, DivMono, LoginAssumption
    <3>3. QED BY <3>2, <1>3 DEF Remembered
  <2>2. CASE ~(now > used[c] + OtpExpire)
    BY <2>2, <1>1, <1>3 DEF Remembered
  <2>3. QED BY <2>1, <2>2
<1>4. QED BY <1>1, <1>2, <1>3 DEF Remembered

LEMMA CodeInvStep == ASSUME CodeInv, [Next]_vars PROVE CodeInv'
<1> USE DEF CodeInv
<1>0. TInv'
  BY TInvStep
<1> SUFFICES \A c \in accepted' : Remembered(c)'
  BY <1>0
<1>1. CASE Tick
  <2>1. now \in Nat /\ now' \in Nat /\ now <= now'
    BY <1>1 DEF Tick, TInv, TypeOK
  <2>2. now \div Window \in Nat /\ now' \div Window \in Nat /\ now \div Window <= now' \div Window
    BY <2>1, DivMono, LoginAssumption
  <2>3. ASSUME NEW c \in accepted PROVE Remembered(c)'
    <3>1. Remembered(c) /\ used' = used /\ used[c] \in Nat /\ c[2] \in Nat
      BY <1>1, <2>3 DEF Tick, TInv, TypeOK, Code, Last
    <3>2. QED BY <3>1, <2>1, <2>2 DEF Remembered
  <2>4. QED BY <2>3, <1>1 DEF Tick
<1>2. CASE CleanOtp
  BY <1>2, CleanOtpRemembers
<1>3. ASSUME NEW l \in Login, CheckUser(l) \/ CheckCode(l)
      PROVE  \A c \in accepted' : Remembered(c)'
  <2>1. name[l] \in User /\ now' = now
    BY <1>3 DEF CheckUser, CheckCode, TInv, TypeOK
  <2>2. CASE UNCHANGED <<used, accepted>>
    BY <2>1, <2>2 DEF Remembered
  <2>3. CASE \E c \in Entered(name[l]) : CheckOtp(c)
    BY <2>1, <2>3, CheckOtpRemembers
  <2>4. QED BY <1>3, <2>2, <2>3 DEF CheckUser, CheckCode
<1>4. CASE UNCHANGED <<now, used, accepted>>
  BY <1>4 DEF Remembered
<1>5. QED
  BY <1>1, <1>2, <1>3, <1>4
     DEF Next, LinkAuth, LinkAuth_otp, Route, SaveAuthSession, CreateSession,
         DeleteAuthSession, BadBody, DeleteUser, vars

-----------------------------------------------------------------------------
(* Each session has used a code.                                           *)

CodesOf(u) == {c \in accepted : c[1] = u}
Enough(u)  == opened[u] + Cardinality(Opening(u)) <= Cardinality(CodesOf(u))

\* The sets that are counted are finite.
LEMMA CodesFinite ==
  ASSUME NEW A \in SUBSET Code, NEW u
  PROVE  IsFiniteSet({c \in A : c[1] = u})
<1>1. Last \in Int
  BY LoginAssumption DEF Last
<1>2. IsFiniteSet(0 .. Last)
  BY <1>1, FS_Interval
<1>a. IsFiniteSet({u})
  BY FS_Singleton
<1>3. IsFiniteSet({u} \X (0 .. Last))
  BY <1>2, <1>a, FS_Product
<1>4. {c \in A : c[1] = u} \subseteq {u} \X (0 .. Last)
  BY DEF Code
<1>5. QED BY <1>3, <1>4, FS_Subset

LEMMA Finite ==
  ASSUME TInv, NEW u \in User
  PROVE  /\ IsFiniteSet(Opening(u)) /\ Cardinality(Opening(u)) \in Nat
         /\ IsFiniteSet(CodesOf(u)) /\ Cardinality(CodesOf(u)) \in Nat
<1>1. IsFiniteSet(Opening(u))
  BY LoginAssumption, FS_Subset DEF Opening
<1>a. accepted \in SUBSET Code
  BY DEF TInv, TypeOK
<1>2. IsFiniteSet(CodesOf(u))
  BY <1>a, CodesFinite, Zenon DEF CodesOf
<1>3. QED BY <1>1, <1>2, FS_CardinalityType

\* No session more and no code less.
LEMMA EnoughKept ==
  ASSUME TInv, TInv', NEW u \in User, Enough(u), opened'[u] = opened[u],
         Opening(u)' \subseteq Opening(u), accepted \subseteq accepted'
  PROVE  Enough(u)'
<1>1. CodesOf(u) \subseteq CodesOf(u)'
  BY DEF CodesOf
<1>a. accepted' \in SUBSET Code
  BY DEF TInv, TypeOK
<1>b. IsFiniteSet(CodesOf(u)')
  BY <1>a, CodesFinite, Zenon DEF CodesOf
<1>2. IsFiniteSet(CodesOf(u)') /\ Cardinality(CodesOf(u)') \in Nat
  BY <1>b, FS_CardinalityType
<1>3. /\ Cardinality(Opening(u)') <= Cardinality(Opening(u))
      /\ Cardinality(Opening(u)') \in Nat
  BY Finite, FS_Subset, FS_CardinalityType
<1>4. Cardinality(CodesOf(u)) <= Cardinality(CodesOf(u)')
  BY <1>1, <1>2, FS_Subset
<1>5. opened[u] \in Nat
  BY DEF TInv, TypeOK
<1>6. QED BY <1>2, <1>3, <1>4, <1>5, Finite DEF Enough

\* One session and one code more.
LEMMA EnoughBoth ==
  ASSUME TInv, NEW u \in User, NEW l, NEW c, Enough(u), opened'[u] = opened[u],
         Opening(u)' \subseteq Opening(u) \cup {l},
         c \notin accepted, c[1] = u, accepted' = accepted \cup {c}
  PROVE  Enough(u)'
<1>1. CodesOf(u)' = CodesOf(u) \cup {c} /\ c \notin CodesOf(u)
  BY DEF CodesOf
<1>b. IsFiniteSet(Opening(u)) /\ IsFiniteSet(CodesOf(u))
  BY Finite
<1>2. Cardinality(CodesOf(u)') = Cardinality(CodesOf(u)) + 1
  BY <1>1, <1>b, FS_AddElement
<1>a. /\ IsFiniteSet(Opening(u) \cup {l})
      /\ Cardinality(Opening(u) \cup {l}) \in {Cardinality(Opening(u)), Cardinality(Opening(u)) + 1}
  BY <1>b, FS_AddElement
<1>3. /\ IsFiniteSet(Opening(u) \cup {l}) /\ Cardinality(Opening(u) \cup {l}) \in Nat
      /\ Cardinality(Opening(u) \cup {l}) <= Cardinality(Opening(u)) + 1
  BY <1>a, Finite
<1>4. /\ Cardinality(Opening(u)') <= Cardinality(Opening(u) \cup {l})
      /\ Cardinality(Opening(u)') \in Nat
  BY <1>3, FS_Subset, FS_CardinalityType
<1>5. opened[u] \in Nat
  BY DEF TInv, TypeOK
<1>6. QED BY <1>2, <1>3, <1>4, <1>5, Finite DEF Enough

\* A session that was about to be opened is.
LEMMA EnoughMoved ==
  ASSUME TInv, NEW u \in User, NEW l \in Opening(u), Enough(u), opened'[u] = opened[u] + 1,
         Opening(u)' = Opening(u) \ {l}, accepted' = accepted
  PROVE  Enough(u)'
<1>1. Cardinality(Opening(u)') = Cardinality(Opening(u)) - 1
  BY Finite, FS_RemoveElement
<1>2. CodesOf(u)' = CodesOf(u)
  BY DEF CodesOf
<1>3. opened[u] \in Nat
  BY DEF TInv, TypeOK
<1>4. QED BY <1>1, <1>2, <1>3, Finite DEF Enough

\* A code that is right was not accepted before.
LEMMA RightIsNew ==
  ASSUME CodeInv, NEW u \in User, NEW c \in Entered(u), Right(c), CheckOtp(c)
  PROVE  c \notin accepted /\ c[1] = u /\ accepted' = accepted \cup {c}
<1>1. now \div Window \in Nat
  BY DivMono, LoginAssumption DEF CodeInv, TInv, TypeOK
<1>2. c \in Code /\ c[1] = u
  BY EnteredType DEF Right, CodeInv
<1>3. QED BY <1>1, <1>2 DEF Right, CheckOtp, Remembered, CodeInv

NeedInv == CodeInv /\ \A u \in OtpUser \cap rows : Enough(u)

LEMMA NeedInvInit == Init => NeedInv
<1>1. ASSUME Init, NEW u \in User PROVE Enough(u)
  <2>1. opened[u] = 0 /\ Opening(u) = {} /\ CodesOf(u) = {}
    BY <1>1 DEF Init, Opening, CodesOf
  <2>2. QED BY <2>1, FS_EmptySet DEF Enough
<1>2. QED BY <1>1, CodeInvInit, LoginAssumption DEF NeedInv

\* One request at a time: the others stay as they are.
LEMMA NeedInvStep == ASSUME NeedInv, [Next]_vars PROVE NeedInv'
<1> USE LoginAssumption
<1>0. CodeInv /\ CodeInv' /\ TInv /\ TInv' /\ TypeOK /\ TypeOK'
  BY CodeInvStep DEF NeedInv, CodeInv, TInv
<1> SUFFICES ASSUME NEW u \in OtpUser \cap rows' PROVE Enough(u)'
  BY <1>0 DEF NeedInv
<1>a. rows' \subseteq rows
  BY DEF Next, Tick, CleanOtp, LinkAuth, LinkAuth_otp, CheckUser, Route, SaveAuthSession,
         CreateSession, CheckCode, DeleteAuthSession, BadBody, DeleteUser, vars
<1>b. Enough(u) /\ u \in OtpUser \cap rows /\ u \in User
  BY <1>a DEF NeedInv
<1>1. ASSUME NEW l \in Login, NEW v \in User, LinkAuth(l, v) PROVE Enough(u)'
  <2>1. Opening(u)' \subseteq Opening(u)
    BY <1>1, <1>0 DEF LinkAuth, Goto, Opening, TypeOK
  <2>2. QED BY <1>0, <1>b, <1>1, <2>1, EnoughKept DEF LinkAuth
<1>2. ASSUME NEW l \in Login, NEW x \in Temp, LinkAuth_otp(l, x) PROVE Enough(u)'
  <2>1. Opening(u)' \subseteq Opening(u)
    BY <1>2, <1>0 DEF LinkAuth_otp, Goto, Opening, TypeOK
  <2>2. QED BY <1>0, <1>b, <1>2, <2>1, EnoughKept DEF LinkAuth_otp
<1>3. ASSUME NEW l \in Login, CheckUser(l) PROVE Enough(u)'
  <2>1. name[l] \in User /\ opened' = opened /\ alone' = alone
    BY <1>3, <1>0 DEF CheckUser, TypeOK
  <2>2. CASE step'[l] = "route" /\ name[l] = u /\ ~alone
    <3>1. PICK c \in Entered(u) : Right(c) /\ CheckOtp(c)
      BY <1>3, <1>0, <1>b, <2>2 DEF CheckUser, End, Goto, TypeOK
    <3>2. c \notin accepted /\ c[1] = u /\ accepted' = accepted \cup {c}
      BY <1>0, <1>b, <3>1, RightIsNew
    <3>3. Opening(u)' \subseteq Opening(u) \cup {l}
      BY <1>3, <1>0, <2>2 DEF CheckUser, End, Goto, Opening, TypeOK
    <3>4. QED BY <1>0, <1>b, <2>1, <3>2, <3>3, EnoughBoth
  <2>3. CASE ~(step'[l] = "route" /\ name[l] = u /\ ~alone)
    <3>1. Opening(u)' \subseteq Opening(u)
      BY <1>3, <1>0, <2>3 DEF CheckUser, End, Goto, Opening, TypeOK
    <3>2. accepted \subseteq accepted'
      BY <1>3 DEF CheckUser, CheckOtp
    <3>3. QED BY <1>0, <1>b, <2>1, <3>1, <3>2, EnoughKept
  <2>4. QED BY <2>2, <2>3
<1>4. ASSUME NEW l \in Login, Route(l) PROVE Enough(u)'
  <2>1. Opening(u)' \subseteq Opening(u)
    BY <1>4, <1>0, <1>b DEF Route, Goto, Opening, TypeOK
  <2>2. QED BY <1>0, <1>b, <1>4, <2>1, EnoughKept DEF Route
<1>5. ASSUME NEW l \in Login, SaveAuthSession(l) PROVE Enough(u)'
  <2>1. Opening(u)' \subseteq Opening(u)
    BY <1>5, <1>0 DEF SaveAuthSession, End, Goto, Opening, TypeOK
  <2>2. QED BY <1>0, <1>b, <1>5, <2>1, EnoughKept DEF SaveAuthSession
<1>6. ASSUME NEW l \in Login, CreateSession(l) PROVE Enough(u)'
  <2>1. name[l] \in User /\ name[l] # NULL
    BY <1>6, <1>0 DEF CreateSession, TypeOK
  <2>2. CASE name[l] = u
    <3>1. opened'[u] = opened[u] + 1 /\ accepted' = accepted
      BY <1>6, <1>0, <1>b, <2>2 DEF CreateSession, TypeOK
    <3>2. l \in Opening(u)
      BY <1>6, <2>2 DEF CreateSession, Opening
    <3>3. Opening(u)' = Opening(u) \ {l}
      BY <1>6, <1>0, <2>1 DEF CreateSession, End, Goto, Opening, TypeOK
    <3>4. QED BY <1>0, <1>b, <3>1, <3>2, <3>3, EnoughMoved
  <2>3. CASE name[l] # u
    <3>1. opened'[u] = opened[u] /\ accepted' = accepted
      BY <1>6, <1>0, <1>b, <2>3 DEF CreateSession, TypeOK
    <3>2. Opening(u)' \subseteq Opening(u)
      BY <1>6, <1>0, <2>1, <2>3 DEF CreateSession, End, Goto, Opening, TypeOK
    <3>3. QED BY <1>0, <1>b, <3>1, <3>2, EnoughKept
  <2>4. QED BY <2>2, <2>3
<1>7. ASSUME NEW l \in Login, CheckCode(l) PROVE Enough(u)'
  <2>1. name[l] \in User /\ opened' = opened /\ alone' = alone
    BY <1>7, <1>0 DEF CheckCode, TypeOK
  <2>2. PICK c \in Entered(name[l]) :
          /\ CheckOtp(c)
          /\ IF Right(c) THEN Goto(l, "create") /\ UNCHANGED <<name, temp>> ELSE End(l)
    BY <1>7 DEF CheckCode
  <2>3. CASE Right(c) /\ name[l] = u
    <3>1. c \notin accepted /\ c[1] = u /\ accepted' = accepted \cup {c}
      BY <1>0, <1>b, <2>2, <2>3, RightIsNew
    <3>2. Opening(u)' \subseteq Opening(u) \cup {l}
      BY <1>7, <1>0, <2>1, <2>2, <2>3 DEF Goto, Opening, TypeOK
    <3>3. QED BY <1>0, <1>b, <2>1, <3>1, <3>2, EnoughBoth
  <2>4. CASE ~(Right(c) /\ name[l] = u)
    <3>1. Opening(u)' \subseteq Opening(u)
      BY <1>7, <1>0, <2>1, <2>2, <2>4 DEF Goto, End, Opening, TypeOK
    <3>2. accepted \subseteq accepted'
      BY <2>2 DEF CheckOtp
    <3>3. QED BY <1>0, <1>b, <2>1, <3>1, <3>2, EnoughKept
  <2>5. QED BY <2>3, <2>4
<1>8. ASSUME NEW l \in Login, DeleteAuthSession(l) PROVE Enough(u)'
  <2>1. Opening(u)' \subseteq Opening(u)
    BY <1>8, <1>0 DEF DeleteAuthSession, End, Goto, Opening, TypeOK
  <2>2. QED BY <1>0, <1>b, <1>8, <2>1, EnoughKept DEF DeleteAuthSession
<1>9. CASE UNCHANGED <<alone, step, name, accepted, opened>>
  <2>1. Opening(u)' = Opening(u)
    BY <1>9 DEF Opening
  <2>2. QED BY <1>0, <1>b, <1>9, <2>1, EnoughKept
<1>10. QED
  BY <1>1, <1>2, <1>3, <1>4, <1>5, <1>6, <1>7, <1>8, <1>9
     DEF Next, Tick, CleanOtp, BadBody, DeleteUser, vars

\* CheckOtp (dbdata/user.go) accepts a code once, so that a user who needs one has no
\* more sessions, opened or about to be, than codes were accepted, however many
\* requests share a cookie.
THEOREM SessionsNeedCodesHolds == Spec => []SessionsNeedCodes
<1>1. NeedInv /\ [Next]_vars => NeedInv'
  BY NeedInvStep
<1>2. NeedInv => SessionsNeedCodes
  BY DEF NeedInv, SessionsNeedCodes, Enough, CodesOf
<1>3. QED
  BY NeedInvInit, <1>1, <1>2, PTL DEF Spec
=============================================================================
