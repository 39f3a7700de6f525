---------------------------- MODULE GroupProofs ----------------------------
(***************************************************************************)
(* Proofs about Group: what a client was told agrees with what its         *)
(* connection checks, for any forms, networks, rules and edits.            *)
(***************************************************************************)
EXTENDS Group, WellFoundedInduction, TLAPS

-----------------------------------------------------------------------------
(* Loops.  What a loop computes is proved by the least number of turns for *)
(* which it would be wrong.                                                *)

LEMMA Least ==
  ASSUME NEW N \in SUBSET Nat, N # {}
  PROVE  \E m \in N : \A k \in N : m <= k
<1> DEFINE R == {ss \in Nat \X Nat : ss[1] < ss[2]}
<1>1. IsWellFoundedOn(R, Nat)
  <2>1. OpToRel(<, Nat) = R
    BY DEF OpToRel
  <2>2. QED BY <2>1, NatLessThanWellFounded
<1>2. \A j, i \in Nat : <<i, j>> \in R <=> i < j
  OBVIOUS
<1> HIDE DEF R
<1>3. PICK m \in N : \A k \in N : ~ (<<k, m>> \in R)
  BY <1>1, WFMin
<1>4. ASSUME NEW k \in N PROVE m <= k
  <2>1. k \in Nat /\ m \in Nat
    OBVIOUS
  <2>2. ~ (k < m)
    BY <1>2, <1>3, <2>1
  <2>3. QED BY <2>1, <2>2
<1>5. QED BY <1>4

\* What Keep has after a turn, from what it had before.
Turn(s, S, g, i) ==
  IF i = 0 THEN <<>> ELSE IF s[i] \in S THEN Append(g[i - 1], s[i]) ELSE g[i - 1]

\* g is what Keep has after each of the first m turns.
Kept(s, S, g, m) == g = [i \in 0 .. m |-> Turn(s, S, g, i)]

LEMMA KeptExists == ASSUME NEW s, NEW S, NEW n \in Nat PROVE \E g : Kept(s, S, g, n)
<1> DEFINE N == {m \in Nat : ~ \E g : Kept(s, S, g, m)}
<1>1. SUFFICES ASSUME N # {} PROVE FALSE
  OBVIOUS
<1>2. PICK m \in N : \A k \in N : m <= k
  BY <1>1, Least
<1>3. CASE m = 0
  <2>1. Kept(s, S, [i \in 0 .. 0 |-> <<>>], 0)
    BY DEF Kept, Turn
  <2>2. QED BY <1>2, <1>3, <2>1
<1>4. CASE m # 0
  <2>0. m \in Nat /\ m - 1 \in Nat
    BY <1>4
  <2>1. PICK g : Kept(s, S, g, m - 1)
    <3>1. m - 1 \notin N
      BY <1>2, <2>0
    <3>2. QED BY <2>0, <3>1
  <2> DEFINE h == [i \in 0 .. m |-> IF i < m THEN g[i] ELSE Turn(s, S, g, m)]
  <2>2. ASSUME NEW i \in 0 .. m PROVE h[i] = Turn(s, S, h, i)
    <3>1. CASE i = 0
      <4>1. h[i] = g[i] /\ i \in 0 .. m - 1
        BY <2>0, <3>1
      <4>2. g[i] = Turn(s, S, g, i)
        BY <2>1, <4>1 DEF Kept
      <4>3. QED BY <3>1, <4>1, <4>2 DEF Turn
    <3>2. CASE i # 0
      <4>1. h[i - 1] = g[i - 1] /\ h[i] = Turn(s, S, g, i)
        <5>1. i - 1 \in 0 .. m /\ i - 1 < m
          BY <2>0, <3>2
        <5>2. CASE i < m
          <6>1. i \in 0 .. m - 1
            BY <2>0, <5>2
          <6>2. QED BY <2>1, <5>1, <5>2, <6>1 DEF Kept
        <5>3. CASE ~(i < m)
          <6>1. i = m
            BY <2>0, <5>3
          <6>2. QED BY <5>1, <5>3, <6>1
        <5>4. QED BY <5>2, <5>3
      <4> HIDE DEF h
      <4>2. QED BY <3>2, <4>1 DEF Turn
    <3>3. QED BY <3>1, <3>2
  <2>3. h = [i \in 0 .. m |-> h[i]]
    OBVIOUS
  <2> HIDE DEF h
  <2>4. Kept(s, S, h, m)
    BY <2>2, <2>3 DEF Kept
  <2>5. QED BY <1>2, <2>4
<1>5. QED BY <1>3, <1>4

LEMMA KeepDef ==
  ASSUME NEW s, NEW S, Len(s) \in Nat
  PROVE  \E g : Kept(s, S, g, Len(s)) /\ Keep(s, S) = g[Len(s)]
<1> DEFINE Eq(g) == g = [i \in 0 .. Len(s) |-> IF i = 0 THEN <<>>
                         ELSE IF s[i] \in S THEN Append(g[i - 1], s[i]) ELSE g[i - 1]]
           g == CHOOSE g : Eq(g)
<1>1. Keep(s, S) = g[Len(s)]
  BY DEF Keep
<1>2. \A h : Eq(h) <=> Kept(s, S, h, Len(s))
  BY DEF Kept, Turn
<1> HIDE DEF Eq
<1>3. \E h : Eq(h)
  BY <1>2, KeptExists
<1>4. Eq(g)
  BY <1>3, Zenon
<1>5. QED BY <1>1, <1>2, <1>4

\* What Keep has after i turns: the entries before that are in S, and all if all are.
Loop(s, S, T, q, i) ==
  /\ q \in Seq(T)
  /\ \A v : (\E j \in 1 .. Len(q) : q[j] = v) <=> v \in S /\ \E j \in 1 .. i : s[j] = v
  /\ (\A j \in 1 .. i : s[j] \in S) => Len(q) = i /\ \A j \in 1 .. i : q[j] = s[j]

LEMMA LoopTurn ==
  ASSUME NEW T, NEW s \in Seq(T), NEW S, NEW i \in 1 .. Len(s), NEW q, NEW r,
         Loop(s, S, T, q, i - 1), r = IF s[i] \in S THEN Append(q, s[i]) ELSE q
  PROVE  Loop(s, S, T, r, i)
<1>0. q \in Seq(T) /\ s[i] \in T /\ i \in Nat /\ i - 1 \in Nat /\ Len(q) \in Nat
  BY DEF Loop
<1>1. CASE s[i] \notin S
  <2>1. r = q
    BY <1>1
  <2>2. ASSUME NEW v
        PROVE  (\E j \in 1 .. Len(q) : q[j] = v) <=> v \in S /\ \E j \in 1 .. i : s[j] = v
    <3>1. v \in S => ((\E j \in 1 .. i : s[j] = v) <=> \E j \in 1 .. i - 1 : s[j] = v)
      BY <1>0, <1>1
    <3>2. QED BY <3>1 DEF Loop
  <2>3. ~ \A j \in 1 .. i : s[j] \in S
    BY <1>0, <1>1
  <2>4. QED BY <1>0, <2>1, <2>2, <2>3 DEF Loop
<1>2. CASE s[i] \in S
  <2>1. /\ r = Append(q, s[i]) /\ r \in Seq(T) /\ Len(r) = Len(q) + 1 /\ r[Len(q) + 1] = s[i]
        /\ \A j \in 1 .. Len(q) : r[j] = q[j]
    BY <1>0, <1>2
  <2>2. ASSUME NEW v
        PROVE  (\E j \in 1 .. Len(r) : r[j] = v) <=> v \in S /\ \E j \in 1 .. i : s[j] = v
    <3>1. (\E j \in 1 .. Len(r) : r[j] = v) <=> (\E j \in 1 .. Len(q) : q[j] = v) \/ v = s[i]
      BY <1>0, <2>1
    <3>2. (\E j \in 1 .. i : s[j] = v) <=> (\E j \in 1 .. i - 1 : s[j] = v) \/ v = s[i]
      BY <1>0
    <3>3. QED BY <1>2, <3>1, <3>2 DEF Loop
  <2>3. ASSUME \A j \in 1 .. i : s[j] \in S
        PROVE  Len(r) = i /\ \A j \in 1 .. i : r[j] = s[j]
    <3>1. Len(q) = i - 1 /\ \A j \in 1 .. i - 1 : q[j] = s[j]
      <4>1. \A j \in 1 .. i - 1 : s[j] \in S
        BY <1>0, <2>3
      <4>2. QED BY <4>1 DEF Loop
    <3>2. QED BY <1>0, <2>1, <3>1
  <2>4. QED BY <2>1, <2>2, <2>3 DEF Loop
<1>3. QED BY <1>1, <1>2

\* Keep keeps the entries that are in S, and a sequence as it is if it has no others.
LEMMA KeepProperties ==
  ASSUME NEW T, NEW s \in Seq(T), NEW S
  PROVE  /\ Keep(s, S) \in Seq(T)
         /\ Range(Keep(s, S)) = Range(s) \cap S
         /\ Range(s) \subseteq S => Keep(s, S) = s
<1>0. Len(s) \in Nat
  OBVIOUS
<1>1. PICK g : Kept(s, S, g, Len(s)) /\ Keep(s, S) = g[Len(s)]
  BY <1>0, KeepDef
<1>2. \A i \in 0 .. Len(s) : g[i] = Turn(s, S, g, i)
  BY <1>1 DEF Kept
<1> DEFINE N == {i \in 0 .. Len(s) : ~ Loop(s, S, T, g[i], i)}
<1>3. N = {}
  <2>1. SUFFICES ASSUME N # {} PROVE FALSE
    OBVIOUS
  <2>2. N \in SUBSET Nat
    BY <1>0
  <2>3. PICK m \in N : \A k \in N : m <= k
    BY <2>1, <2>2, Least
  <2>4. m \in 0 .. Len(s) /\ m \in Nat
    BY <2>2
  <2>5. CASE m = 0
    <3>1. g[m] = <<>>
      BY <1>2, <2>4, <2>5 DEF Turn
    <3>2. Loop(s, S, T, g[m], m)
      BY <2>5, <3>1 DEF Loop
    <3>3. QED BY <3>2
  <2>6. CASE m # 0
    <3>1. m - 1 \in 0 .. Len(s) /\ m \in 1 .. Len(s) /\ m - 1 < m
      BY <1>0, <2>4, <2>6
    <3>2. Loop(s, S, T, g[m - 1], m - 1)
      <4>1. m - 1 \notin N
        BY <2>3, <2>4, <3>1
      <4>2. QED BY <3>1, <4>1
    <3>3. g[m] = IF s[m] \in S THEN Append(g[m - 1], s[m]) ELSE g[m - 1]
      BY <1>2, <2>4, <2>6 DEF Turn
    <3>4. Loop(s, S, T, g[m], m)
      BY <3>1, <3>2, <3>3, LoopTurn
    <3>5. QED BY <3>4
  <2>7. QED BY <2>5, <2>6
<1> DEFINE q == Keep(s, S)
<1>4. Loop(s, S, T, q, Len(s))
  <2>1. Len(s) \in 0 .. Len(s)
    BY <1>0
  <2>2. QED BY <1>1, <1>3, <2>1
<1> HIDE DEF q
<1>5. q \in Seq(T)
  BY <1>4 DEF Loop
<1>6. Range(q) = Range(s) \cap S
  <2>1. DOMAIN q = 1 .. Len(q) /\ DOMAIN s = 1 .. Len(s)
    BY <1>5
  <2>2. ASSUME NEW v PROVE v \in Range(q) <=> v \in Range(s) /\ v \in S
    BY <1>4, <2>1 DEF Loop, Range
  <2>3. QED BY <2>2
<1>7. ASSUME Range(s) \subseteq S PROVE q = s
  <2>1. \A j \in 1 .. Len(s) : s[j] \in S
    BY <1>7 DEF Range
  <2>2. Len(q) = Len(s) /\ \A j \in 1 .. Len(s) : q[j] = s[j]
    BY <1>4, <2>1 DEF Loop
  <2>3. QED BY <1>5, <2>2
<1>8. QED BY <1>5, <1>6, <1>7 DEF q

-----------------------------------------------------------------------------
(* Rows.                                                                   *)

LEMMA Entries ==
  ASSUME NEW T, NEW q \in Seq(T)
  PROVE  /\ Len(q) \in Nat /\ DOMAIN q = 1 .. Len(q)
         /\ \A i \in 1 .. Len(q) : q[i] \in T /\ q[i] \in Range(q)
         /\ \A v \in Range(q) : v \in T /\ \E i \in 1 .. Len(q) : v = q[i]
<1>1. /\ Len(q) \in Nat /\ DOMAIN q = 1 .. Len(q)
      /\ \A i \in 1 .. Len(q) : q[i] \in T
  OBVIOUS
<1>2. QED BY <1>1 DEF Range

LEMMA CleanProperties ==
  ASSUME NEW s \in Seq(Word)
  PROVE  /\ Clean(s) \in Seq(Word) /\ Range(Clean(s)) = Range(s) \ {""}
         /\ Clean(Clean(s)) = Clean(s)
<1>1. Clean(s) \in Seq(Word) /\ Range(Clean(s)) = Range(s) \ {""}
  <2> DEFINE S == Range(s) \ {""}
  <2>1. Range(s) \cap S = S
    OBVIOUS
  <2> HIDE DEF S
  <2>2. Keep(s, S) \in Seq(Word) /\ Range(Keep(s, S)) = Range(s) \cap S
    BY KeepProperties
  <2>3. QED BY <2>1, <2>2 DEF Clean, S
<1> DEFINE q == Clean(s)
<1>2. Keep(q, Range(q) \ {""}) = q
  <2>1. Range(q) \subseteq Range(q) \ {""}
    BY <1>1
  <2> HIDE DEF q
  <2>2. q \in Seq(Word)
    BY <1>1 DEF q
  <2>3. QED BY <2>1, <2>2, KeepProperties
<1>3. QED BY <1>1, <1>2 DEF Clean

LEMMA EntriesOkRange ==
  ASSUME NEW s \in Seq(Word), NEW values
  PROVE  EntriesOk(s, values) <=> Range(s) \subseteq values \cup {""}
BY DEF EntriesOk, Range

LEMMA RoutingFields ==
  ASSUME NEW f, f \in GroupType \/ f \in PolicyType
  PROVE  /\ Routing(f).include = Clean(f.include) /\ Routing(f).exclude = Clean(f.exclude)
         /\ Routing(f).dns = Clean(f.dns)
         /\ Routing(f).dsInclude = f.dsInclude /\ Routing(f).dsExclude = f.dsExclude
         /\ f \in GroupType => /\ Routing(f) \in GroupType
                               /\ Routing(f).acl = f.acl /\ Routing(f).auth = f.auth
                               /\ Routing(f).split = f.split
         /\ f \in PolicyType => Routing(f) \in PolicyType /\ Routing(f).status = f.status
<1>1. /\ f.include \in Seq(Word) /\ f.exclude \in Seq(Word) /\ f.dns \in Seq(Word)
  BY DEF GroupType, PolicyType
<1>2. /\ Clean(f.include) \in Seq(Word) /\ Clean(f.exclude) \in Seq(Word)
      /\ Clean(f.dns) \in Seq(Word)
  BY <1>1, CleanProperties
<1>3. CASE f \in GroupType
  BY <1>2, <1>3 DEF Routing, GroupType, PolicyType
<1>4. CASE f \in PolicyType
  BY <1>2, <1>4 DEF Routing, GroupType, PolicyType
<1>5. QED BY <1>3, <1>4

\* The rules that are stored.
Rules(f) == [i \in DOMAIN Filled(f) |-> Rule(Filled(f)[i])]

LEMMA RuleProperties ==
  ASSUME NEW r \in RuleType
  PROVE  /\ Rule(r) \in RuleType /\ Rule(r).net = r.net /\ Rule(r).ports = r.ports
         /\ Rule(r).proto \in Proto \cup {"all"} /\ Rule(Rule(r)) = Rule(r)
<1>1. /\ Rule(r) \in RuleType /\ Rule(r).net = r.net /\ Rule(r).ports = r.ports
      /\ Rule(r).action = r.action
      /\ Rule(r).proto = IF r.proto \in Proto THEN r.proto ELSE "all"
  <2> DEFINE p == IF r.proto \in Proto THEN r.proto ELSE "all"
  <2>1. p \in Word
    <3>1. r.proto \in Word
      BY DEF RuleType
    <3>2. "all" \in Word
      BY GroupAssumption
    <3>3. CASE r.proto \in Proto
      BY <3>1, <3>3, Zenon
    <3>4. CASE r.proto \notin Proto
      BY <3>2, <3>4, Zenon
    <3>5. QED BY <3>3, <3>4
  <2> HIDE DEF p
  <2>2. /\ [r EXCEPT !.proto = p] \in RuleType /\ [r EXCEPT !.proto = p].net = r.net
        /\ [r EXCEPT !.proto = p].ports = r.ports /\ [r EXCEPT !.proto = p].action = r.action
        /\ [r EXCEPT !.proto = p].proto = p
    BY <2>1 DEF RuleType
  <2>3. QED BY <2>2 DEF Rule, p
<1>2. Rule(r).proto \in Proto \cup {"all"}
  BY <1>1
<1> DEFINE q == Rule(r)
<1> HIDE DEF q
<1>3. [q EXCEPT !.proto = IF q.proto \in Proto THEN q.proto ELSE "all"] = q
  <2>1. (IF q.proto \in Proto THEN q.proto ELSE "all") = q.proto
    BY <1>2 DEF q
  <2>2. q \in RuleType
    BY <1>1 DEF q
  <2>3. QED BY <2>1, <2>2 DEF RuleType
<1>4. Rule(q) = q
  BY <1>3 DEF Rule
<1>5. QED BY <1>1, <1>2, <1>4 DEF q

LEMMA RulesProperties ==
  ASSUME NEW f \in GroupType, \A r \in Range(Filled(f)) : RuleOk(r)
  PROVE  /\ Rules(f) \in Seq(RuleType)
         /\ \A r \in Range(Rules(f)) : /\ RuleOk(r) /\ r.net # ""
                                       /\ r.proto \in Proto \cup {"all"} /\ Rule(r) = r
<1>1. f.acl \in Seq(RuleType)
  BY DEF GroupType
<1>2. Filled(f) \in Seq(RuleType) /\ \A r \in Range(Filled(f)) : r.net # "" /\ r \in RuleType
  <2> DEFINE q == Filled(f)  S == {r \in Range(f.acl) : r.net # ""}
  <2>1. q \in Seq(RuleType) /\ Range(q) = Range(f.acl) \cap S
    BY <1>1, KeepProperties DEF Filled
  <2>2. \A r \in Range(q) : r \in RuleType
    <3> HIDE DEF q
    <3>1. QED BY <2>1, Entries
  <2>3. QED BY <2>1, <2>2
<1> DEFINE q == Filled(f)  n == Len(q)
<1> HIDE DEF q
<1>3. n \in Nat /\ DOMAIN q = 1 .. n /\ \A i \in 1 .. n : q[i] \in RuleType /\ q[i] \in Range(q)
  BY <1>2, Entries DEF q
<1>4. Rules(f) = [i \in 1 .. n |-> Rule(q[i])]
  BY <1>3 DEF Rules, q
<1>5. \A i \in 1 .. n : Rule(q[i]) \in RuleType
  BY <1>3, RuleProperties
<1>6. Rules(f) \in Seq(RuleType)
  BY <1>3, <1>4, <1>5
<1>7. ASSUME NEW r \in Range(Rules(f))
      PROVE  /\ RuleOk(r) /\ r.net # "" /\ r.proto \in Proto \cup {"all"} /\ Rule(r) = r
  <2>1. PICK i \in 1 .. n : r = Rule(q[i])
    BY <1>4 DEF Range
  <2>2. RuleOk(q[i]) /\ q[i].net # ""
    BY <1>2, <1>3 DEF q
  <2>3. /\ r.net = q[i].net /\ r.ports = q[i].ports
        /\ r.proto \in Proto \cup {"all"} /\ Rule(r) = r
    BY <1>3, <2>1, RuleProperties
  <2>4. QED BY <2>2, <2>3 DEF RuleOk
<1>8. QED BY <1>6, <1>7

LEMMA GroupRowFields ==
  ASSUME NEW f \in GroupType, GroupOk(f)
  PROVE  /\ GroupRow(f) \in GroupType
         /\ GroupRow(f).include = Clean(f.include) /\ GroupRow(f).exclude = Clean(f.exclude)
         /\ GroupRow(f).dns = Clean(f.dns)
         /\ GroupRow(f).dsInclude = f.dsInclude /\ GroupRow(f).dsExclude = f.dsExclude
         /\ GroupRow(f).acl = Rules(f) /\ GroupRow(f).auth = AuthRow(f.auth)
         /\ GroupRow(f).split = Clean(f.split)
<1> DEFINE h == Routing(f)  a == AuthRow(f.auth)
<1>1. a \in AuthType
  <2>1. Local \in AuthType
    BY GroupAssumption DEF Local, AuthType
  <2>2. f.auth \in AuthType
    BY DEF GroupType
  <2>3. QED BY <2>1, <2>2 DEF AuthRow
<1>2. Rules(f) \in Seq(RuleType)
  BY RulesProperties DEF GroupOk
<1>3. /\ h \in GroupType /\ h.include = Clean(f.include) /\ h.exclude = Clean(f.exclude)
      /\ h.dns = Clean(f.dns) /\ h.dsInclude = f.dsInclude /\ h.dsExclude = f.dsExclude
      /\ h.auth = f.auth /\ h.split = f.split
  BY RoutingFields
<1> DEFINE s == Clean(f.split)
<1>4. GroupRow(f) = [h EXCEPT !.acl = Rules(f), !.split = s, !.auth = a]
  BY <1>3, Zenon DEF GroupRow, Rules
<1>5. s \in Seq(Word)
  <2>1. f.split \in Seq(Word)
    BY DEF GroupType
  <2>2. QED BY <2>1, CleanProperties
<1> HIDE DEF h, a, s
<1>6. /\ [h EXCEPT !.acl = Rules(f), !.split = s, !.auth = a] \in GroupType
      /\ [h EXCEPT !.acl = Rules(f), !.split = s, !.auth = a].include = h.include
      /\ [h EXCEPT !.acl = Rules(f), !.split = s, !.auth = a].exclude = h.exclude
      /\ [h EXCEPT !.acl = Rules(f), !.split = s, !.auth = a].dns = h.dns
      /\ [h EXCEPT !.acl = Rules(f), !.split = s, !.auth = a].dsInclude = h.dsInclude
      /\ [h EXCEPT !.acl = Rules(f), !.split = s, !.auth = a].dsExclude = h.dsExclude
      /\ [h EXCEPT !.acl = Rules(f), !.split = s, !.auth = a].acl = Rules(f)
      /\ [h EXCEPT !.acl = Rules(f), !.split = s, !.auth = a].auth = a
      /\ [h EXCEPT !.acl = Rules(f), !.split = s, !.auth = a].split = s
  BY <1>1, <1>2, <1>3, <1>5 DEF GroupType
<1>7. QED BY <1>3, <1>4, <1>6 DEF a, s

\* A row that sends everything has a name server.
Routed(g) == g.include \in {<<>>, <<"all">>} => g.dns # <<>>

\* What the routing of a form that is taken becomes is taken again.
LEMMA RoutingAgain ==
  ASSUME NEW f, f \in GroupType \/ f \in PolicyType, RoutingOk(f), NEW g,
         g.include = Clean(f.include), g.exclude = Clean(f.exclude), g.dns = Clean(f.dns),
         g.dsInclude = f.dsInclude, g.dsExclude = f.dsExclude
  PROVE  /\ RouteOk(g) /\ Routed(g) /\ RoutingOk(g)
         /\ IsDefRoute(g.include) <=> IsDefRoute(f.include)
         /\ Clean(g.include) = g.include /\ Clean(g.exclude) = g.exclude /\ Clean(g.dns) = g.dns
<1>1. f.include \in Seq(Word) /\ f.exclude \in Seq(Word) /\ f.dns \in Seq(Word)
  BY DEF GroupType, PolicyType
<1>2. /\ g.include \in Seq(Word) /\ g.exclude \in Seq(Word) /\ g.dns \in Seq(Word)
      /\ Range(g.include) = Range(f.include) \ {""} /\ Range(g.exclude) = Range(f.exclude) \ {""}
      /\ Range(g.dns) = Range(f.dns) \ {""}
      /\ Clean(g.include) = g.include /\ Clean(g.exclude) = g.exclude /\ Clean(g.dns) = g.dns
  BY <1>1, CleanProperties
<1>3. /\ Range(f.include) \subseteq Route \cup {"all"} \cup {""}
      /\ Range(f.exclude) \subseteq Route \cup {""} /\ Range(f.dns) \subseteq Host \cup {""}
  BY <1>1, EntriesOkRange DEF RoutingOk
<1>4. RouteOk(g)
  BY <1>2, <1>3 DEF RouteOk, RoutingOk, DomainsOk
<1>5. IsDefRoute(g.include) <=> IsDefRoute(f.include)
  BY <1>2 DEF IsDefRoute
<1>6. RoutingOk(g)
  <2>1. /\ EntriesOk(g.include, Route \cup {"all"}) /\ EntriesOk(g.exclude, Route)
        /\ EntriesOk(g.dns, Host)
    BY <1>2, <1>4, EntriesOkRange DEF RouteOk
  <2>2. IsDefRoute(g.include) => Clean(g.dns) # <<>>
    BY <1>2, <1>5 DEF RoutingOk
  <2>3. DomainsOk(g)
    BY DEF RoutingOk, DomainsOk
  <2>4. QED BY <2>1, <2>2, <2>3 DEF RoutingOk
<1>7. Routed(g)
  BY <1>2, <1>6 DEF Routed, RoutingOk, IsDefRoute
<1>8. QED BY <1>2, <1>4, <1>5, <1>6, <1>7

LEMMA SameGroup ==
  ASSUME NEW g \in GroupType, NEW h \in GroupType, g.include = h.include, g.exclude = h.exclude,
         g.dns = h.dns, g.dsInclude = h.dsInclude, g.dsExclude = h.dsExclude,
         g.split = h.split, g.acl = h.acl, g.auth = h.auth
  PROVE  g = h
<1>1. ASSUME NEW r \in GroupType
      PROVE  r = [include |-> r.include, exclude |-> r.exclude, dns |-> r.dns, split |-> r.split,
                  dsInclude |-> r.dsInclude, dsExclude |-> r.dsExclude, acl |-> r.acl, auth |-> r.auth]
  BY DEF GroupType
<1>2. QED BY <1>1, Zenon

LEMMA SamePolicy ==
  ASSUME NEW g \in PolicyType, NEW h \in PolicyType, g.include = h.include, g.exclude = h.exclude,
         g.dns = h.dns, g.dsInclude = h.dsInclude, g.dsExclude = h.dsExclude, g.status = h.status
  PROVE  g = h
BY DEF PolicyType

\* What is known of a row of a group.
GoodGroup(g) ==
  /\ g \in GroupType /\ RouteOk(g) /\ Routed(g) /\ GroupOk(g) /\ GroupRow(g) = g
  /\ g.auth = Local \/ CheckData(g.auth)
  /\ \A r \in Range(g.acl) : r.net \in DOMAIN Net /\ r.proto \in Proto \cup {"all"}

LEMMA GroupAgain == ASSUME NEW f \in GroupType, GroupOk(f) PROVE GoodGroup(GroupRow(f))
<1> DEFINE g == GroupRow(f)
<1>1. /\ g \in GroupType /\ g.include = Clean(f.include) /\ g.exclude = Clean(f.exclude)
      /\ g.dns = Clean(f.dns) /\ g.dsInclude = f.dsInclude /\ g.dsExclude = f.dsExclude
      /\ g.split = Clean(f.split) /\ g.acl = Rules(f) /\ g.auth = AuthRow(f.auth)
  BY GroupRowFields
<1> HIDE DEF g
<1>2. /\ RouteOk(g) /\ Routed(g) /\ RoutingOk(g)
      /\ IsDefRoute(g.include) <=> IsDefRoute(f.include)
      /\ Clean(g.include) = g.include /\ Clean(g.exclude) = g.exclude /\ Clean(g.dns) = g.dns
  BY <1>1, RoutingAgain DEF GroupOk
<1>3. /\ AuthOk(g.auth) /\ AuthRow(g.auth) = g.auth
      /\ g.auth = Local \/ CheckData(g.auth)
  <2> DEFINE a == f.auth
  <2>1. g.auth = AuthRow(a) /\ AuthOk(a)
    BY <1>1 DEF GroupOk
  <2> HIDE DEF a
  <2>2. CASE a.type \in {"", "local"}
    <3>1. g.auth = Local /\ Local.type = "local"
      BY <2>1, <2>2 DEF AuthRow, Local
    <3>2. QED BY <3>1 DEF AuthOk, AuthRow
  <2>3. CASE a.type \notin {"", "local"}
    <3>1. g.auth = a /\ CheckData(a)
      BY <2>1, <2>3 DEF AuthRow, AuthOk
    <3>2. QED BY <2>3, <3>1 DEF AuthOk, AuthRow
  <2>4. QED BY <2>2, <2>3
<1>4. /\ g.acl \in Seq(RuleType)
      /\ \A r \in Range(g.acl) : /\ RuleOk(r) /\ r.net # "" /\ Rule(r) = r
                                 /\ r.proto \in Proto \cup {"all"}
  BY <1>1, RulesProperties DEF GroupOk
<1>5. Filled(g) = g.acl
  <2> DEFINE S == {r \in Range(g.acl) : r.net # ""}
  <2>1. Range(g.acl) \subseteq S
    BY <1>4
  <2> HIDE DEF S
  <2>2. Keep(g.acl, S) = g.acl
    BY <1>4, <2>1, KeepProperties
  <2>3. QED BY <2>2 DEF Filled, S
<1>6. EntriesOk(g.split, {"names"}) /\ Clean(g.split) = g.split
  <2>1. f.split \in Seq(Word) /\ EntriesOk(f.split, {"names"})
    BY DEF GroupType, GroupOk
  <2>2. /\ g.split \in Seq(Word) /\ Range(g.split) = Range(f.split) \ {""}
        /\ Clean(g.split) = g.split
    BY <1>1, <2>1, CleanProperties
  <2>3. Range(f.split) \subseteq {"names"} \cup {""}
    BY <2>1, EntriesOkRange
  <2>4. QED BY <2>2, <2>3, EntriesOkRange
<1>7. GroupOk(g)
  BY <1>1, <1>2, <1>3, <1>4, <1>5, <1>6 DEF GroupOk
<1>8. Rules(g) = g.acl
  <2> DEFINE q == g.acl  n == Len(q)
  <2>1. Rules(g) \in Seq(RuleType) /\ Rules(g) = [i \in DOMAIN q |-> Rule(q[i])]
    BY <1>1, <1>5, <1>7, RulesProperties DEF Rules, GroupOk
  <2>2. q \in Seq(RuleType) /\ n \in Nat /\ DOMAIN q = 1 .. n /\ \A i \in 1 .. n : q[i] \in Range(q)
    BY <1>4, Entries
  <2>3. \A i \in 1 .. n : Rule(q[i]) = q[i]
    BY <1>4, <2>2
  <2> HIDE DEF q
  <2>4. Len(Rules(g)) = n /\ \A i \in 1 .. n : Rules(g)[i] = q[i]
    BY <2>1, <2>2, <2>3
  <2>5. Rules(g) = q
    BY <2>1, <2>2, <2>4
  <2>6. QED BY <2>5 DEF q
<1>9. GroupRow(g) = g
  <2>1. /\ GroupRow(g) \in GroupType
        /\ GroupRow(g).include = Clean(g.include) /\ GroupRow(g).exclude = Clean(g.exclude)
        /\ GroupRow(g).dns = Clean(g.dns)
        /\ GroupRow(g).dsInclude = g.dsInclude /\ GroupRow(g).dsExclude = g.dsExclude
        /\ GroupRow(g).acl = Rules(g) /\ GroupRow(g).auth = AuthRow(g.auth)
        /\ GroupRow(g).split = Clean(g.split)
    BY <1>1, <1>7, GroupRowFields
  <2>2. QED BY <1>1, <1>2, <1>3, <1>8, <1>6, <2>1, SameGroup
<1>10. GoodGroup(g)
  BY <1>1, <1>2, <1>3, <1>4, <1>7, <1>9 DEF GoodGroup, RuleOk
<1>11. QED BY <1>10 DEF g

\* What is known of a row of a policy.
GoodPolicy(p) ==
  p \in PolicyType /\ RouteOk(p) /\ Routed(p) /\ PolicyOk(p) /\ PolicyRow(p) = p

LEMMA PolicyAgain == ASSUME NEW f \in PolicyType, PolicyOk(f) PROVE GoodPolicy(PolicyRow(f))
<1> DEFINE p == Routing(f)
<1>1. /\ p \in PolicyType /\ p.include = Clean(f.include) /\ p.exclude = Clean(f.exclude)
      /\ p.dns = Clean(f.dns) /\ p.dsInclude = f.dsInclude /\ p.dsExclude = f.dsExclude
  BY RoutingFields
<1> HIDE DEF p
<1>2. /\ RouteOk(p) /\ Routed(p) /\ RoutingOk(p)
      /\ Clean(p.include) = p.include /\ Clean(p.exclude) = p.exclude /\ Clean(p.dns) = p.dns
  BY <1>1, RoutingAgain DEF PolicyOk
<1>3. Routing(p) = p
  <2>1. /\ Routing(p) \in PolicyType /\ Routing(p).include = p.include
        /\ Routing(p).exclude = p.exclude /\ Routing(p).dns = p.dns
        /\ Routing(p).dsInclude = p.dsInclude /\ Routing(p).dsExclude = p.dsExclude
        /\ Routing(p).status = p.status
    BY <1>1, <1>2, RoutingFields
  <2>2. QED BY <1>1, <2>1, SamePolicy
<1>4. QED BY <1>1, <1>2, <1>3 DEF GoodPolicy, PolicyOk, PolicyRow, p

-----------------------------------------------------------------------------
(* Types, forms that are read back, routes and name servers.               *)

\* What is known of a connection's own group, whether a policy changed it or not.
Own(g) == g \in GroupType /\ RouteOk(g) /\ Routed(g)

\* Later edits of the rows reach neither the connection's group nor what its client was
\* told, which agree.
Link(r) ==
  /\ r.step = "none" => r.group = NULL
  /\ r.step # "none" => Own(r.group)
  /\ r.step = "up" => r.told = Headers(r.group)

GInv ==
  /\ group # NULL => GoodGroup(group)
  /\ policy # NULL => GoodPolicy(policy)
  /\ edits \in Nat
  /\ \E T : conn \in [Conn -> T] /\ \A c \in Conn : Link(conn[c])

LEMMA RowsGood ==
  /\ \A g \in GroupRows : GoodGroup(g)
  /\ \A p \in PolicyRows : GoodPolicy(p)
BY GroupAssumption, GroupAgain, PolicyAgain DEF GroupRows, PolicyRows

LEMMA GInvInit == Init => GInv
<1> SUFFICES ASSUME Init PROVE GInv
  OBVIOUS
<1> DEFINE r == [step |-> "none", group |-> NULL, told |-> NULL]
<1>1. conn \in [Conn -> {r}] /\ \A c \in Conn : conn[c] = r
  BY DEF Init
<1>2. Link(r)
  BY DEF Link
<1>3. (group # NULL => GoodGroup(group)) /\ (policy # NULL => GoodPolicy(policy)) /\ edits \in Nat
  BY RowsGood DEF Init
<1> HIDE DEF r
<1>4. QED BY <1>1, <1>2, <1>3, Zenon DEF GInv

\* One connection changes at a time.
LEMMA LinkKept ==
  ASSUME GInv, NEW c \in Conn, NEW step, NEW g, NEW told, Becomes(c, step, g, told),
         Link([step |-> step, group |-> g, told |-> told]), UNCHANGED <<group, policy, edits>>
  PROVE  GInv'
<1>1. PICK T : conn \in [Conn -> T] /\ \A d \in Conn : Link(conn[d])
  BY DEF GInv
<1> DEFINE r == [step |-> step, group |-> g, told |-> told]
<1>2. conn' \in [Conn -> T \cup {r}]
  BY <1>1 DEF Becomes
<1>3. conn'[c] = r /\ \A d \in Conn \ {c} : conn'[d] = conn[d]
  BY <1>1 DEF Becomes
<1>4. \A d \in Conn : Link(conn'[d])
  BY <1>1, <1>3
<1>5. (group' # NULL => GoodGroup(group')) /\ (policy' # NULL => GoodPolicy(policy')) /\ edits' \in Nat
  BY DEF GInv
<1>6. QED BY <1>2, <1>4, <1>5 DEF GInv

LEMMA OverrideOwn ==
  ASSUME NEW g, Own(g), NEW p, GoodPolicy(p)
  PROVE  Own(Override(g, p))
<1> DEFINE h == Override(g, p)
<1>1. /\ p.include \in Seq(Word) /\ p.exclude \in Seq(Word) /\ p.dns \in Seq(Word)
      /\ p.dsInclude \in Word /\ p.dsExclude \in Word
  BY DEF GoodPolicy, PolicyType
<1>2. /\ h \in GroupType /\ h.include = p.include /\ h.exclude = p.exclude /\ h.dns = p.dns
      /\ h.dsInclude = p.dsInclude /\ h.dsExclude = p.dsExclude
  BY <1>1 DEF Own, Override, GroupType
<1> HIDE DEF h
<1>3. RouteOk(h) /\ Routed(h)
  BY <1>2 DEF GoodPolicy, RouteOk, Routed
<1>4. QED BY <1>2, <1>3 DEF Own, h

LEMMA GInvStep == ASSUME GInv, [Next]_vars PROVE GInv'
<1>1. ASSUME NEW c \in Conn, NewConn(c) PROVE GInv'
  <2>1. Own(group)
    BY <1>1 DEF NewConn, GInv, GoodGroup, Own
  <2>2. Link([step |-> "new", group |-> group, told |-> NULL])
    BY <2>1 DEF Link
  <2>3. QED BY <1>1, <2>2, LinkKept DEF NewConn
<1>2. ASSUME NEW c \in Conn, SetUserPolicy(c) PROVE GInv'
  <2> DEFINE g == IF policy # NULL /\ policy.status = 1 THEN Override(conn[c].group, policy)
                                                        ELSE conn[c].group
  <2>1. Own(conn[c].group)
    BY <1>2 DEF SetUserPolicy, GInv, Link
  <2>2. Own(g)
    BY <2>1, OverrideOwn DEF GInv
  <2>3. Becomes(c, "policy", g, NULL) /\ UNCHANGED <<group, policy, edits>>
    BY <1>2 DEF SetUserPolicy
  <2> HIDE DEF g
  <2>4. Link([step |-> "policy", group |-> g, told |-> NULL])
    BY <2>2 DEF Link
  <2>5. QED BY <2>3, <2>4, LinkKept
<1>3. ASSUME NEW c \in Conn, Tell(c) PROVE GInv'
  <2>1. Own(conn[c].group)
    BY <1>3 DEF Tell, GInv, Link
  <2>2. Link([step |-> "up", group |-> conn[c].group, told |-> Headers(conn[c].group)])
    BY <2>1 DEF Link
  <2>3. QED BY <1>3, <2>2, LinkKept DEF Tell
<1>4. ASSUME NEW c \in Conn, Close(c) PROVE GInv'
  <2>1. Link([step |-> "none", group |-> NULL, told |-> NULL])
    BY DEF Link
  <2>2. QED BY <1>4, <2>1, LinkKept DEF Close
<1>5. ASSUME SetGroup \/ DelGroup \/ SetPolicy \/ DelPolicy PROVE GInv'
  <2>1. UNCHANGED conn /\ edits' \in Nat
    BY <1>5 DEF SetGroup, DelGroup, SetPolicy, DelPolicy, Edit, GInv
  <2>2. (group' # NULL => GoodGroup(group')) /\ (policy' # NULL => GoodPolicy(policy'))
    BY <1>5, RowsGood DEF SetGroup, DelGroup, SetPolicy, DelPolicy, GInv
  <2>3. QED BY <2>1, <2>2 DEF GInv
<1>6. CASE UNCHANGED vars
  BY <1>6 DEF vars, GInv
<1>7. QED BY <1>1, <1>2, <1>3, <1>4, <1>5, <1>6 DEF Next

\* Rows and connections hold networks and addresses that were parsed, and known
\* protocols and ways to log in (SetGroup, SetPolicy).
THEOREM TypeCorrect == Spec => []TypeOK
<1>1. GInv => TypeOK
  <2> SUFFICES ASSUME GInv PROVE TypeOK
    OBVIOUS
  <2>1. group # NULL => /\ RouteOk(group) /\ (group.auth = Local \/ CheckData(group.auth))
                        /\ \A r \in Range(group.acl) : r.net \in DOMAIN Net /\ r.proto \in Proto \cup {"all"}
    BY DEF GInv, GoodGroup
  <2>2. policy # NULL => RouteOk(policy) /\ policy.status \in {0, 1}
    BY DEF GInv, GoodPolicy, PolicyType
  <2>3. \A c \in Conn : conn[c].group # NULL => RouteOk(conn[c].group)
    BY DEF GInv, Link, Own
  <2>4. QED BY <2>1, <2>2, <2>3 DEF TypeOK, GInv
<1>2. GInv /\ [Next]_vars => GInv'
  BY GInvStep
<1>3. QED BY GInvInit, <1>1, <1>2, PTL DEF Spec

\* A row that is read back and posted as it is, is taken and does not change
\* (SetGroup, SetPolicy).
THEOREM RowsStable == Spec => []Stable
<1>1. GInv => Stable
  BY DEF GInv, Stable, GoodGroup, GoodPolicy
<1>2. GInv /\ [Next]_vars => GInv'
  BY GInvStep
<1>3. QED BY GInvInit, <1>1, <1>2, PTL DEF Spec

\* A client that is told no route is told a name server (SetGroup, SetPolicy,
\* SetUserPolicy, LinkTunnel).
THEOREM DefaultRouteResolves == Spec => []DefaultRoute
<1>1. ASSUME NEW g, Own(g), Headers(g).include = <<>>, Len(g.include) <= 1
      PROVE  Headers(g).dns # <<>>
  <2> DEFINE q == g.include  S == Range(q) \ {"all"}
  <2>1. q \in Seq(Word) /\ Keep(q, S) = <<>> /\ Headers(g).dns = g.dns /\ Len(q) <= 1
    BY <1>1 DEF Own, GroupType, Headers
  <2> HIDE DEF q
  <2>2. Range(Keep(q, S)) = Range(q) \cap S
    BY <2>1, KeepProperties
  <2>3. Range(q) \subseteq {"all"}
    <3>1. Range(<<>>) = {}
      BY DEF Range
    <3>2. QED BY <2>1, <2>2, <3>1
  <2>4. q = <<>> \/ q = <<"all">>
    <3>1. Len(q) \in Nat /\ \A i \in 1 .. Len(q) : q[i] = "all"
      BY <2>1, <2>3, Entries
    <3> DEFINE n == Len(q)
    <3>2. n \in Nat /\ n <= 1
      BY <2>1, <3>1
    <3> HIDE DEF n
    <3>3. n = 0 \/ n = 1
      BY <3>2
    <3>4. QED BY <2>1, <3>1, <3>3 DEF n
  <2>5. QED BY <1>1, <2>1, <2>4 DEF Own, Routed, q
<1>2. GInv => DefaultRoute
  BY <1>1 DEF GInv, DefaultRoute, Link, Up
<1>3. GInv /\ [Next]_vars => GInv'
  BY GInvStep
<1>4. QED BY GInvInit, <1>2, <1>3, PTL DEF Spec

\* Whatever the access list says, a client can ask the name servers it was told of
\* (checkLinkAcl), although group and policy are edited while it is connected.
THEOREM NameServersReachable == Spec => []DnsReachable
<1>1. \A g : Headers(g).dns = g.dns
  BY DEF Headers
<1>2. GInv => DnsReachable
  BY <1>1 DEF GInv, Link, DnsReachable, Up, CheckLinkAcl, ToDns
<1>3. GInv /\ [Next]_vars => GInv'
  BY GInvStep
<1>4. QED BY GInvInit, <1>2, <1>3, PTL DEF Spec
-----------------------------------------------------------------------------
(* The access list.                                                        *)

\* The first rule from i on that applies allows the packet.
Allowed(acl, p, i) ==
  \E k \in i .. Len(acl) :
    Applies(acl[k], p) /\ acl[k].action = "allow" /\ \A h \in i .. k - 1 : ~ Applies(acl[h], p)

LEMMA AllowedHere ==
  ASSUME NEW acl, Len(acl) \in Nat, NEW p, NEW i \in 1 .. Len(acl)
  PROVE  Allowed(acl, p, i) <=> IF Applies(acl[i], p) THEN acl[i].action = "allow"
                                                     ELSE Allowed(acl, p, i + 1)
<1>1. i \in Nat /\ i \in i .. Len(acl)
  OBVIOUS
<1>2. ASSUME Applies(acl[i], p) PROVE Allowed(acl, p, i) <=> acl[i].action = "allow"
  <2>1. ASSUME NEW k \in i .. Len(acl), \A h \in i .. k - 1 : ~ Applies(acl[h], p) PROVE k = i
    <3>1. k # i => i \in i .. k - 1
      BY <1>1
    <3>2. QED BY <1>2, <2>1, <3>1
  <2>2. \A h \in i .. i - 1 : ~ Applies(acl[h], p)
    BY <1>1
  <2>3. QED BY <1>1, <1>2, <2>1, <2>2 DEF Allowed
<1>3. ASSUME ~ Applies(acl[i], p) PROVE Allowed(acl, p, i) <=> Allowed(acl, p, i + 1)
  <2>1. ASSUME NEW k \in Int
        PROVE  (\A h \in i .. k - 1 : ~ Applies(acl[h], p)) <=> \A h \in i + 1 .. k - 1 : ~ Applies(acl[h], p)
    BY <1>1, <1>3
  <2>2. \A k : k \in i .. Len(acl) /\ k # i <=> k \in i + 1 .. Len(acl)
    BY <1>1
  <2>3. QED BY <1>1, <1>3, <2>1, <2>2 DEF Allowed
<1>4. QED BY <1>2, <1>3

\* What Walk comes to from rule i on.
From(acl, p, i) == IF Allowed(acl, p, i) THEN "pass" ELSE "drop"

\* f is what Walk comes to from each rule on.
Walked(acl, p, f) ==
  f = [i \in 1 .. Len(acl) + 1 |->
        IF i > Len(acl) THEN "drop"
        ELSE IF Applies(acl[i], p) THEN Verdict(acl[i]) ELSE f[i + 1]]

LEMMA FromHere ==
  ASSUME NEW acl, Len(acl) \in Nat, NEW p, NEW i \in 1 .. Len(acl)
  PROVE  From(acl, p, i) = IF Applies(acl[i], p) THEN Verdict(acl[i]) ELSE From(acl, p, i + 1)
<1>1. CASE Applies(acl[i], p)
  BY <1>1, AllowedHere DEF From, Verdict
<1>2. CASE ~ Applies(acl[i], p)
  BY <1>2, AllowedHere DEF From
<1>3. QED BY <1>1, <1>2

LEMMA FromEnd ==
  ASSUME NEW acl, Len(acl) \in Nat, NEW p
  PROVE  From(acl, p, Len(acl) + 1) = "drop"
BY DEF From, Allowed

LEMMA WalkedExists == ASSUME NEW acl, Len(acl) \in Nat, NEW p PROVE \E f : Walked(acl, p, f)
<1> DEFINE n == Len(acl)  g == [i \in 1 .. n + 1 |-> From(acl, p, i)]
<1>1. ASSUME NEW i \in 1 .. n + 1
      PROVE  From(acl, p, i) = IF i > n THEN "drop"
                               ELSE IF Applies(acl[i], p) THEN Verdict(acl[i]) ELSE g[i + 1]
  <2>1. CASE i > n
    <3>1. i = n + 1
      BY <2>1
    <3>2. QED BY <2>1, <3>1, FromEnd
  <2>2. CASE ~(i > n)
    <3>1. i \in 1 .. n /\ i + 1 \in 1 .. n + 1
      BY <2>2
    <3>2. g[i + 1] = From(acl, p, i + 1)
      BY <3>1
    <3> HIDE DEF g
    <3>3. QED BY <2>2, <3>1, <3>2, FromHere
  <2>3. QED BY <2>1, <2>2
<1>2. Walked(acl, p, g)
  BY <1>1 DEF Walked
<1>3. QED BY <1>2

LEMMA WalkAllowed ==
  ASSUME NEW acl, Len(acl) \in Nat, NEW p
  PROVE  Walk(acl, p) <=> Allowed(acl, p, 1)
<1> DEFINE n == Len(acl)
           Eq(f) == f = [i \in 1 .. Len(acl) + 1 |->
                          IF i > Len(acl) THEN "drop"
                          ELSE IF Applies(acl[i], p) THEN Verdict(acl[i]) ELSE f[i + 1]]
           f == CHOOSE f : Eq(f)
<1>1. Walk(acl, p) <=> f[1] = "pass"
  BY DEF Walk
<1>2. \A g : Eq(g) <=> Walked(acl, p, g)
  BY DEF Walked
<1> HIDE DEF Eq
<1>3. \E g : Eq(g)
  BY <1>2, WalkedExists
<1>4. Eq(f)
  BY <1>3, Zenon
<1>5. Walked(acl, p, f)
  BY <1>2, <1>4
<1> HIDE DEF f
<1>6. /\ \A i \in 1 .. n : f[i] = IF Applies(acl[i], p) THEN Verdict(acl[i]) ELSE f[i + 1]
      /\ f[n + 1] = "drop"
  BY <1>5 DEF Walked
<1> DEFINE Bad == {d \in 0 .. n : f[n + 1 - d] # From(acl, p, n + 1 - d)}
<1>7. Bad = {}
  <2>1. SUFFICES ASSUME Bad # {} PROVE FALSE
    OBVIOUS
  <2>2. Bad \in SUBSET Nat
    OBVIOUS
  <2>3. PICK d \in Bad : \A e \in Bad : d <= e
    BY <2>1, <2>2, Least
  <2> DEFINE i == n + 1 - d
  <2>4. d \in 0 .. n /\ d \in Nat /\ f[i] # From(acl, p, i)
    BY <2>2
  <2>5. CASE d = 0
    <3>1. i = n + 1
      BY <2>5
    <3>2. QED BY <1>6, <2>4, <3>1, FromEnd
  <2>6. CASE d # 0
    <3>1. i \in 1 .. n /\ d - 1 \in 0 .. n /\ ~(d <= d - 1) /\ i + 1 = n + 1 - (d - 1)
      BY <2>4, <2>6
    <3>2. f[i + 1] = From(acl, p, i + 1)
      <4>1. d - 1 \notin Bad
        BY <2>3, <3>1
      <4>2. QED BY <3>1, <4>1
    <3> HIDE DEF i
    <3>3. f[i] = From(acl, p, i)
      BY <1>6, <3>1, <3>2, FromHere
    <3>4. QED BY <2>4, <3>3
  <2>7. QED BY <2>5, <2>6
<1>8. f[1] = From(acl, p, 1)
  <2>1. n \in 0 .. n /\ n + 1 - n = 1
    OBVIOUS
  <2>2. f[n + 1 - n] = From(acl, p, n + 1 - n)
    BY <1>7, <2>1
  <2>3. QED BY <2>1, <2>2
<1>9. QED BY <1>1, <1>8 DEF From

\* Of the rules that apply to a packet the first decides (checkLinkAcl).
THEOREM FirstRuleDecides == Spec => []FirstMatch
<1>1. ASSUME NEW acl \in Seq(RuleType), NEW p
      PROVE  Walk(acl, p) <=> LET hits == {i \in DOMAIN acl : Applies(acl[i], p)} IN
                                \E i \in hits : acl[i].action = "allow" /\ \A j \in hits : i <= j
  <2>1. Len(acl) \in Nat /\ DOMAIN acl = 1 .. Len(acl)
    BY Entries
  <2>2. ASSUME NEW i \in 1 .. Len(acl)
        PROVE  (\A h \in 1 .. i - 1 : ~ Applies(acl[h], p))
                 <=> \A j \in {j \in 1 .. Len(acl) : Applies(acl[j], p)} : i <= j
    BY <2>1
  <2>3. Walk(acl, p) <=> Allowed(acl, p, 1)
    BY <2>1, WalkAllowed
  <2>4. QED BY <2>1, <2>2, <2>3 DEF Allowed
<1>2. GInv => FirstMatch
  <2> SUFFICES ASSUME GInv, NEW c \in Up, NEW p \in Packet,
                      ~ ToDns(conn[c].group, p),
                      {i \in DOMAIN conn[c].group.acl : Applies(conn[c].group.acl[i], p)} # {}
               PROVE  CheckLinkAcl(conn[c].group, p) <=>
                        LET acl == conn[c].group.acl
                            hits == {i \in DOMAIN acl : Applies(acl[i], p)} IN
                        \E i \in hits : acl[i].action = "allow" /\ \A j \in hits : i <= j
    BY DEF FirstMatch
  <2>1. conn[c].group.acl \in Seq(RuleType)
    BY DEF GInv, Link, Own, Up, GroupType
  <2>2. CheckLinkAcl(conn[c].group, p) <=> Walk(conn[c].group.acl, p)
    <3>1. conn[c].group.acl # <<>>
      OBVIOUS
    <3>2. QED BY <3>1 DEF CheckLinkAcl
  <2>3. QED BY <1>1, <2>1, <2>2
<1>3. GInv /\ [Next]_vars => GInv'
  BY GInvStep
<1>4. QED BY GInvInit, <1>2, <1>3, PTL DEF Spec
=============================================================================
