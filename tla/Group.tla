------------------------------- MODULE Group --------------------------------
(***************************************************************************)
(* Groups and policies (dbdata/group.go, dbdata/policy.go): what an        *)
(* administrator's form must be to be stored, what a connection takes of   *)
(* its group's row and its user's policy (handler/link_tunnel.go), and     *)
(* which packets its access list lets pass (handler/payload.go).           *)
(***************************************************************************)
EXTENDS Integers, Sequences, Functions

CONSTANTS
  Conn,        \* connections of users of the group
  Host,        \* addresses a packet can be for; name servers are some of them
  Word,        \* the strings of forms, some of them networks and addresses
  Net,         \* a function from networks, by name, to sets of hosts
  Route,       \* the networks that are named by their own address: 10.0.0.0/8, not 10.0.0.1/8
  GroupForm,   \* forms that are posted for the group
  PolicyForm,  \* forms that are posted for the users' policy
  MaxPort,     \* 65535
  MaxEdits,    \* bound of the edits while connections are there
  NULL

Proto == {"tcp", "udp", "icmp"}

\* The fields of a form that is posted, as JSON decodes it.
RuleType    == [action : Word, proto : Word, net : Word, ports : Seq(Nat \X Nat)]
AuthType    == [type : Word, conf : Word]
GroupType   == [include : Seq(Word), exclude : Seq(Word), dns : Seq(Word), split : Seq(Word),
                dsInclude : Word, dsExclude : Word, acl : Seq(RuleType), auth : AuthType]
PolicyType  == [include : Seq(Word), exclude : Seq(Word), dns : Seq(Word),
                dsInclude : Word, dsExclude : Word, status : {0, 1}]

ASSUME GroupAssumption ==
  /\ \A n \in DOMAIN Net : Net[n] \subseteq Host
  /\ Route \subseteq DOMAIN Net
  /\ {"", "all"} \cap (DOMAIN Net \cup Host) = {}
  /\ {"", "all", "local"} \subseteq Word
  /\ GroupForm \subseteq GroupType /\ PolicyForm \subseteq PolicyType
  /\ MaxPort \in Nat /\ MaxEdits \in Nat

VARIABLES
  group,   \* the group's row, or NULL
  policy,  \* the policy's row, or NULL
  conn,    \* a connection's cSess.Group, and what its client was told
  edits

vars == <<group, policy, conn, edits>>

-----------------------------------------------------------------------------
(* SetGroup and SetPolicy.  Entries with an empty value are left out.      *)

\* The entries of s that are in S: a loop appends one after the other.
Keep(s, S) ==
  LET kept[i \in 0 .. Len(s)] ==
        IF i = 0 THEN <<>>
        ELSE IF s[i] \in S THEN Append(kept[i - 1], s[i]) ELSE kept[i - 1]
  IN  kept[Len(s)]

\* Mutated: they are kept.
CleanNothing(s) == s

Clean(s) == Keep(s, Range(s) \ {""})

\* The entries that are not left out are in values.
EntriesOk(s, values) == \A i \in DOMAIN s : s[i] = "" \/ s[i] \in values

\* Mutated: the entries that are left out count.
IsDefRouteUncleaned(routes) == routes = <<>> \/ routes = <<"all">>

IsDefRoute(routes) == Clean(routes) = <<>> \/ Clean(routes) = <<"all">>

\* The domains of a list: none, names, or something else.
DomainsOk(f) ==
  /\ f.dsInclude = "" \/ f.dsExclude = ""
  /\ {f.dsInclude, f.dsExclude} \subseteq {"", "names"}

\* What a group's and a policy's form have in common.
RoutingOk(f) ==
  /\ EntriesOk(f.include, Route \cup {"all"})
  /\ EntriesOk(f.exclude, Route)
  /\ EntriesOk(f.dns, Host)
  /\ IsDefRoute(f.include) => Clean(f.dns) # <<>>
  /\ DomainsOk(f)

Routing(f) == [f EXCEPT !.include = Clean(@), !.exclude = Clean(@), !.dns = Clean(@)]

\* The ports of a rule are ranges; one whose end is before its start has no port.
Ports(ranges) == UNION {r[1] .. r[2] : r \in Range(ranges)}

\* A rule's network may be named by any of its addresses.
RuleOk(r) ==
  /\ r.net \in DOMAIN Net
  /\ r.ports # <<>> /\ \A p \in Range(r.ports) : p[1] <= MaxPort /\ p[2] <= MaxPort

\* A protocol that is not known is every protocol.
Rule(r) == [r EXCEPT !.proto = IF r.proto \in Proto THEN @ ELSE "all"]

Filled(f) == Keep(f.acl, {r \in Range(f.acl) : r.net # ""})

\* checkData of LDAP and RADIUS: the server, its password or secret, and what LDAP looks
\* for must be filled in.
CheckData(auth) == auth.type \in {"ldap", "radius"} /\ auth.conf = "valid"

AuthOk(auth) == auth.type \in {"", "local"} \/ CheckData(auth)

\* No way to log in is the local one, and only what belongs to the way is kept.
Local == [type |-> "local", conf |-> ""]
AuthRow(auth) == IF auth.type \in {"", "local"} THEN Local ELSE auth

GroupOk(f) ==
  /\ RoutingOk(f)
  /\ \A r \in Range(Filled(f)) : RuleOk(r)
  /\ EntriesOk(f.split, {"names"})
  /\ IsDefRoute(f.include) => f.dsInclude = ""
  /\ AuthOk(f.auth)

GroupRow(f) ==
  [Routing(f) EXCEPT !.acl = [i \in DOMAIN Filled(f) |-> Rule(Filled(f)[i])],
                     !.split = Clean(@), !.auth = AuthRow(@)]

PolicyOk(f) == RoutingOk(f)
PolicyRow(f) == Routing(f)

\* What is stored of the forms that are not refused.
GroupRows  == {GroupRow(f) : f \in {g \in GroupForm : GroupOk(g)}}
PolicyRows == {PolicyRow(f) : f \in {p \in PolicyForm : PolicyOk(p)}}

\* There is a row from before, or none.
Init ==
  /\ group \in GroupRows
  /\ policy \in PolicyRows \cup {NULL}
  /\ conn = [c \in Conn |-> [step |-> "none", group |-> NULL, told |-> NULL]]
  /\ edits = 0

\* A form that is refused changes nothing.
Edit == edits < MaxEdits /\ edits' = edits + 1 /\ UNCHANGED conn

SetGroup == group' \in GroupRows /\ Edit /\ UNCHANGED policy
DelGroup == group # NULL /\ group' = NULL /\ Edit /\ UNCHANGED policy

SetPolicy == policy' \in PolicyRows /\ Edit /\ UNCHANGED group
DelPolicy == policy # NULL /\ policy' = NULL /\ Edit /\ UNCHANGED group

-----------------------------------------------------------------------------
(* A connection.                                                           *)

Becomes(c, step, g, told) == conn' = [conn EXCEPT ![c] = [step |-> step, group |-> g, told |-> told]]

\* NewConn reads the group's row.
NewConn(c) ==
  /\ conn[c].step = "none" /\ group # NULL
  /\ Becomes(c, "new", group, NULL)
  /\ UNCHANGED <<group, policy, edits>>

\* Mutated: the policy's name servers are forgotten.
OverrideButDns(g, p) ==
  [g EXCEPT !.include = p.include, !.exclude = p.exclude,
            !.dsInclude = p.dsInclude, !.dsExclude = p.dsExclude]

\* What a policy replaces in the connection's own group.
Override(g, p) ==
  [g EXCEPT !.include = p.include, !.exclude = p.exclude, !.dns = p.dns,
            !.dsInclude = p.dsInclude, !.dsExclude = p.dsExclude]

SetUserPolicy(c) ==
  /\ conn[c].step = "new"
  /\ Becomes(c, "policy",
             IF policy # NULL /\ policy.status = 1 THEN Override(conn[c].group, policy) ELSE conn[c].group,
             NULL)
  /\ UNCHANGED <<group, policy, edits>>

\* The headers of LinkTunnel's answer: the routes are those that are not "all".
Headers(g) ==
  [include |-> Keep(g.include, Range(g.include) \ {"all"}), exclude |-> g.exclude,
   dns |-> g.dns, split |-> g.split, dsInclude |-> g.dsInclude]

Tell(c) ==
  /\ conn[c].step = "policy"
  /\ Becomes(c, "up", conn[c].group, Headers(conn[c].group))
  /\ UNCHANGED <<group, policy, edits>>

Close(c) ==
  /\ conn[c].step # "none"
  /\ Becomes(c, "none", NULL, NULL)
  /\ UNCHANGED <<group, policy, edits>>

Next ==
  \/ SetGroup \/ DelGroup \/ SetPolicy \/ DelPolicy
  \/ \E c \in Conn : NewConn(c) \/ SetUserPolicy(c) \/ Tell(c) \/ Close(c)

Spec == Init /\ [][Next]_vars

-----------------------------------------------------------------------------
(* checkLinkAcl.                                                           *)

Applies(r, p) ==
  /\ r.proto \in {"", "all", p.proto}
  /\ p.dst \in Net[r.net]
  /\ p.proto = "icmp" \/ {p.port, 0} \cap Ports(r.ports) # {}

\* Mutated: name servers are as other addresses.
ToDnsNever(g, p) == FALSE

ToDns(g, p) == p.dst \in Range(g.dns) /\ p.port = 53

Verdict(r) == IF r.action = "allow" THEN "pass" ELSE "drop"

\* Mutated: a rule that denies does not end the search.
WalkOn(acl, p) ==
  LET from[i \in 1 .. Len(acl) + 1] ==
        IF i > Len(acl) THEN "drop"
        ELSE IF Applies(acl[i], p) /\ Verdict(acl[i]) = "pass" THEN "pass" ELSE from[i + 1]
  IN  from[1] = "pass"

\* The rules are looked at from the first on.
Walk(acl, p) ==
  LET from[i \in 1 .. Len(acl) + 1] ==
        IF i > Len(acl) THEN "drop"
        ELSE IF Applies(acl[i], p) THEN Verdict(acl[i]) ELSE from[i + 1]
  IN  from[1] = "pass"

CheckLinkAcl(g, p) == g.acl = <<>> \/ ToDns(g, p) \/ Walk(g.acl, p)

-----------------------------------------------------------------------------
(* Properties.                                                             *)

Packet == [dst : Host, port : {0, 1, 53, MaxPort}, proto : Proto]

RouteOk(g) ==
  /\ Range(g.include) \subseteq Route \cup {"all"} /\ Range(g.exclude) \subseteq Route
  /\ Range(g.dns) \subseteq Host /\ {g.dsInclude, g.dsExclude} \subseteq {"", "names"}

\* Types of the rows and of what a connection has.
TypeOK ==
  /\ group # NULL => /\ RouteOk(group) /\ (group.auth = Local \/ CheckData(group.auth))
                     /\ \A r \in Range(group.acl) : r.net \in DOMAIN Net /\ r.proto \in Proto \cup {"all"}
  /\ policy # NULL => RouteOk(policy) /\ policy.status \in {0, 1}
  /\ \A c \in Conn : conn[c].group # NULL => RouteOk(conn[c].group)
  /\ edits \in Nat

Up == {c \in Conn : conn[c].step = "up"}

\* What is stored can be edited: a form that is read back and posted as it is, is
\* taken and does not change the row.
Stable ==
  /\ group # NULL => GroupOk(group) /\ GroupRow(group) = group
  /\ policy # NULL => PolicyOk(policy) /\ PolicyRow(policy) = policy

\* A client can ask the name servers it was told of, whatever the access list, the
\* policy and their edits since.
DnsReachable ==
  \A c \in Up : \A p \in Packet :
    p.dst \in Range(conn[c].told.dns) /\ p.port = 53 => CheckLinkAcl(conn[c].group, p)

\* A client that is told no route, and so sends everything, is told a name server,
\* whether its group or its policy says so and whatever was edited between the two
\* reads.  (A row that lists "all" twice is told no route either, but passes the check.)
DefaultRoute ==
  \A c \in Up : LET t == conn[c].told IN
    t.include = <<>> /\ Len(conn[c].group.include) <= 1 => t.dns # <<>>

\* The rules of an access list are walked from top to bottom: for a packet that is not
\* for a name server the first of the rules that apply decides.  A packet that none
\* applies to is left out: checkLinkAcl drops it, and the comment of GroupLinkAcl says
\* that the default is to allow (README.md, section 7).
FirstMatch ==
  \A c \in Up : \A p \in Packet :
    LET acl == conn[c].group.acl
        hits == {i \in DOMAIN acl : Applies(acl[i], p)} IN
    ~ToDns(conn[c].group, p) /\ hits # {}
      => (CheckLinkAcl(conn[c].group, p)
            <=> \E i \in hits : acl[i].action = "allow" /\ \A j \in hits : i <= j)
=============================================================================
