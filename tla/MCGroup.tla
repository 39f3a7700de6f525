------------------------------ MODULE MCGroup -------------------------------
(* A small instance of Group for TLC: two name servers and two hosts. *)
EXTENDS Group, TLC

MCHost == {"ns1", "ns2", "web"}
MCWord == STRING
MCNet == [any |-> MCHost, dmz |-> {"web", "ns1"}] @@ ("10.0.0.1/8" :> {"web", "ns1"})
MCRoute == {"any", "dmz"}

R(action, proto, net, ports) == [action |-> action, proto |-> proto, net |-> net, ports |-> ports]

A(type, conf) == [type |-> type, conf |-> conf]

Acl == {<<>>,
        <<R("allow", "other", "dmz", <<<<0, 0>>>>), R("deny", "", "", <<>>)>>,
        <<R("deny", "udp", "dmz", <<<<53, 53>>>>), R("allow", "all", "any", <<<<0, 1>>, <<53, 53>>>>)>>,
        <<R("allow", "tcp", "10.0.0.1/8", <<<<2, 1>>, <<1, MaxPort>>>>)>>,
        <<R("deny", "icmp", "dmz", <<<<0, 0>>>>), R("allow", "tcp", "any", <<<<1, MaxPort + 1>>>>)>>}

\* Forms that differ in what the checks look at.
Routing1 ==
  [include : {<<"">>, <<"all">>, <<"all", "dmz">>, <<"dmz">>, <<"10.0.0.1/8">>},
   exclude : {<<>>}, dns : {<<>>, <<"", "ns1">>}, dsInclude : {"", "names"}, dsExclude : {""}]

Form1 == [include |-> <<"dmz">>, exclude |-> <<"", "dmz">>, dns |-> <<"ns2">>,
          dsInclude |-> "", dsExclude |-> "names"]

MCGroupForm ==
  {r @@ [split |-> <<>>, acl |-> a, auth |-> A("", "")] : r \in Routing1, a \in Acl}
  \cup {[Form1 EXCEPT !.dsInclude = d] @@ [split |-> <<"", s>>, acl |-> <<>>, auth |-> a] :
           d \in {"", "names"}, s \in {"names", "a b"}, a \in {A("local", "valid"), A("ldap", "valid"),
                                     A("radius", "short"), A("none", "")}}

MCPolicyForm == {r @@ [status |-> s] : r \in Routing1 \cup {Form1}, s \in {0, 1}}
=============================================================================
