--------------------------- MODULE MCDeclarations ---------------------------
(* The pure algorithms over what a caller declares or receives, each on its   *)
(* own inputs: the topology macro, the derives, a node's network and a        *)
(* protected message.                                                         *)
EXTENDS Topology, Derives, NodeStartup, ProtectedJson

CONSTANTS Parts,          \* the algorithms that run
          Topologies      \* the sizes and styles of topologies that are parsed

VARIABLES part,           \* which of them runs
          bounds          \* what this topology may grow to

-----------------------------------------------------------------------------
(* Topologies: connected graphs, cold products and careless clauses *)

SomeLabels == {<<"root">>, <<"a">>, <<"b">>, <<"a", "">>, <<"r#", "a">>, <<"root", "retirements">>}
SomeHosts == {<<"root">>, <<"runtime">>, <<"_", "runtime">>}

Bound(labels, edges, members, families, hosts, style) ==
    [labels |-> labels, edges |-> edges, members |-> members, families |-> families,
     hosts |-> hosts, style |-> style]
\* Every graph of three classes, one of which may be cold; hydrated classes; products of
\* three members beside two births; clauses with clashing labels, roles and hosts; two
\* classes of several rows, one named after the other's custody.
Graphs == {Bound(3, 3, 0, 0, 0, "plain"), Bound(3, 2, 1, 0, 0, "plain"),
           Bound(2, 2, 0, 1, 0, "plain")}
Products == {Bound(2, 1, 3, 0, 0, "plain"), Bound(2, 2, 2, 0, 0, "plain")}
Hosting == {Bound(1, 0, 0, 0, 3, "plain"), Bound(2, 1, 0, 0, 1, "plain")}
Careless == {Bound(2, 1, 0, 0, 0, "careless"), Bound(1, 1, 1, 0, 0, "careless"),
             Bound(2, 0, 0, 2, 0, "careless"), Bound(1, 2, 0, 0, 0, "careless")}
Trailing == {Bound(2, 4, 0, 0, 0, "trailing")}
AllTopologies == Graphs \cup Products \cup Hosting \cup Careless \cup Trailing

Careful == bounds.style # "careless"
\* The labels that a style writes: in the careful ones, classes come in one order and
\* the variants of a class are named in one order.
StyleLabels ==
    CASE bounds.style = "plain" -> {<<"root">>, <<"a">>, <<"b">>}
      [] bounds.style = "trailing" -> {<<"root">>, <<"root", "retirements">>}
      [] OTHER -> Labels \ {<<"root", "retirements">>}
Orderly(label) ==
    /\ label \notin Declared(declaration)
    /\ label = <<"b">> => <<"a">> \in Declared(declaration)
Follows(children, name) ==
    /\ Len(children) < 3 /\ name = <<"x", "y", "z">>[Len(children) + 1]
    /\ \A i \in DOMAIN children : children[i].role

MCClass ==
    \E l \in StyleLabels, b, p \in BOOLEAN, h \in Hosts \cup {NoHost} :
        /\ Len(declaration.actors) < bounds.labels /\ (Careful => Orderly(l))
        /\ h = NoHost \/ bounds.hosts > 0
        /\ p /\ Careful => l # RootLabel
        /\ ParseActor(l, b, p, h)
MCEdge ==
    \E n \in RoleNames, r \in BOOLEAN, l \in StyleLabels :
        /\ Len(Edges(declaration)) < bounds.edges
        /\ declaration.actors # <<>>
        /\ IF Careful THEN Follows(Last(declaration.actors).children, n) ELSE n = "x"
        /\ ParseEdge(n, r, l)
MCRoot ==
    \/ \E n \in RoleNames, l \in StyleLabels :
          /\ Len(declaration.members) < bounds.members
          /\ n = IF Careful THEN <<"u", "v", "w">>[Len(declaration.members) + 1] ELSE "x"
          /\ ParseMember(n, l)
    \/ \E l \in StyleLabels : Len(declaration.families) < bounds.families /\ ParseFamily(l)
    \/ \E h \in Hosts : Len(declaration.hosts) < bounds.hosts /\ ParseHost(h)
    \/ ~Careful /\ ParseInterpreter
MCTopology == (MCClass \/ MCEdge \/ MCRoot \/ Validate) /\ UNCHANGED bounds

-----------------------------------------------------------------------------
(* Derives: up to two clauses of each kind, and four inputs *)
SomeArguments ==
    {Argument(k, FALSE, FALSE) : k \in ArgumentKeys \cup {"addr", "mailbox"}}
    \cup {Argument("sends", v, b) : v, b \in BOOLEAN}
Attributes == {<<>>} \cup {<<[path |-> p, arguments |-> n]>> : p \in Markers \cup {"doc"}, n \in {0, 3}}
Variants ==
    [name : {"V1", "V2"}, fields : {<<>>, <<"origin", "terminal">>, <<"terminal", "origin">>},
     attributes : Attributes]
    \cup [name : {"V1"}, fields : {<<"origin">>, <<"origin", "terminal", "rest">>, <<"origin", "end">>},
          attributes : {<<>>}]
    \cup [name : {"V2"}, fields : {<<"origin", "terminal">>},
          attributes : {<<[path |-> "declared_child", arguments |-> 2]>>} \cup {a \o b : a, b \in Attributes}]
MCDerive ==
    \/ \E a \in SomeArguments : derive = "actor" /\ Len(item.arguments) < 2 /\ WriteArgument(a)
    \/ \E i \in {"self", "Sender", "Message"} : derive = "actor" /\ Len(item.receive) < 4 /\ WriteInput(i)
    \/ \E v \in Variants : derive = "terminal" /\ Len(item.variants) < 2 /\ WriteVariant(v)
    \/ \E n \in {"f", "g"}, p \in {<<>>, <<"P">>, <<"Q">>, <<"P", "Q">>} :
         /\ derive = "spaces" /\ Len(item.fields) < 2 /\ \A i \in DOMAIN item.fields : item.fields[i].name # n
         /\ WriteField([name |-> n, protocols |-> p])
    \/ Expand

-----------------------------------------------------------------------------
(* Networks: each direction absent, with every pair of credentials, or with    *)
(* every list of addresses; a repaired network after a refusal                  *)
Addresses == {<<>>, <<"plain">>, <<"plain", "decorated">>, <<"refused", "decorated">>,
              <<"decorated", "refused">>}
Sources == {"file", "base64", "foreign path", "bad base64"}
Directions ==
    {Absent} \cup {Direction(<<"plain">>, c, k) : c, k \in Sources}
    \cup {Direction(a, "file", "base64") : a \in Addresses}
Peers ==
    [layout : {"Peer"}, connect : Directions, listen : Directions,
     deployment_roots : {"file", "bad base64"}, excessive : {FALSE}]
Others ==
    [layout : {"Peer"}, connect : {Absent, Direction(<<"plain">>, "file", "file")},
     listen : {Absent, Direction(<<"plain">>, "base64", "file")},
     deployment_roots : Sources, excessive : BOOLEAN]
    \cup [layout : {"RouterClient"}, connect : Directions \ {Absent}, listen : {Absent},
          deployment_roots : {"base64"}, excessive : BOOLEAN]
SomeNetworks == Peers \cup Others
Repaired == {n \in Others : n.layout = "RouterClient" /\ n.connect.addresses = <<"plain">>}

-----------------------------------------------------------------------------
\* The macros accept what they document, and what they generate is complete: topology!
\* accepts exactly the well-founded graphs and expands them into a closed module, and the
\* derives generate exactly what their items declare.
ExpansionExact == AcceptsExactly /\ ExpansionClosed /\ DerivesExact

MCInit ==
    /\ part \in Parts
    /\ TopologyInit /\ DeriveInit /\ StartupInit /\ JsonInit
    /\ IF part = "topology" THEN bounds \in Topologies ELSE bounds = Bound(0, 0, 0, 0, 0, "plain")
    /\ part # "derives" => derive = "spaces" /\ item.is_named
    /\ part # "startup" => /\ network = (CHOOSE n \in Repaired : TRUE)
                           /\ native = {} /\ hosting = "None"
    /\ part # "json" => sizes = {}

MCNext ==
    /\ UNCHANGED part
    /\ \/ /\ part = "topology" /\ MCTopology
          /\ UNCHANGED <<deriveVars, startupVars, jsonVars>>
       \/ /\ part = "derives" /\ MCDerive
          /\ UNCHANGED <<topologyVars, bounds, startupVars, jsonVars>>
       \/ /\ part = "startup" /\ StartupNext
          /\ UNCHANGED <<topologyVars, bounds, deriveVars, jsonVars>>
       \/ /\ part = "json" /\ JsonNext
          /\ UNCHANGED <<topologyVars, bounds, deriveVars, startupVars>>

MCSpec == MCInit /\ [][MCNext]_<<part, topologyVars, bounds, deriveVars, startupVars, jsonVars>>
=============================================================================
