---------------------------- MODULE NodeStartup ----------------------------
(***************************************************************************)
(* Application::open_node: the mapping of a Network to the private native  *)
(* configuration (remote/network.rs), the Tokio host, and the await of the *)
(* native opening.  The caller may open again with what a refusal returned *)
(* or drop the opening.                                                    *)
(*                                                                         *)
(* An address or a credential is the class of what the native constructors *)
(* make of it; a setting is the value given to a native setter.            *)
(***************************************************************************)
EXTENDS Sequences, FiniteSets, SequencesExt

CONSTANTS Networks,     \* the inputs a caller may supply first
          Amended,      \* ... and after a refusal
          MaxOpenings   \* bound on the caller's attempts

VARIABLES
    network,    \* the caller's current input
    native,     \* external: the fields whose native setter refuses its value
    hosting,    \* the entered Tokio host: "None", "CurrentThread", "MultiThread"
    owner,      \* who owns the Application: "caller", "opening", "node", "nobody"
    session,    \* the configuration under which a session was opened
    refusals    \* history: the cause of every refused opening

startupVars == <<network, native, hosting, owner, session, refusals>>

\* ConnectionEndpoints, and the direction that was not supplied
Direction(addresses, certificate, private_key) ==
    [addresses |-> addresses, certificate |-> certificate, private_key |-> private_key]
Absent == Direction(<<>>, "none", "none")

NoSession == [field \in {} |-> "none"]

\* A refusal and the field it names
Refused(variant, field) == [variant |-> variant, field |-> field]
NotRefused == Refused("None", "")

-----------------------------------------------------------------------------
(* The layouts *)

\* A direction the caller supplied: a router client never listens.
Connect(n) == n.connect
Listen(n) == IF n.layout = "RouterClient" THEN Absent ELSE n.listen
Supplied(direction) == direction # Absent
Mode(n) == IF n.layout = "RouterClient" THEN "client" ELSE "peer"

-----------------------------------------------------------------------------
(* to_configuration: settings in order, the first refusal wins *)

Setting(field, value) ==
    [field |-> field, value |-> value,
     refusal |-> IF field \in native THEN Refused("Unsupported", field) ELSE NotRefused]
Refuses(variant, field) == [field |-> field, value |-> "none", refusal |-> Refused(variant, field)]

\* ConnectionEndpoints::endpoints: no address, an address the native constructor
\* refuses, or one with metadata or configuration inside; the first decides.
Endpoints(direction, field) ==
    LET wrong == SelectSeq(direction.addresses, LAMBDA address : address # "plain")
    IN  IF ~Supplied(direction) \/ (direction.addresses # <<>> /\ wrong = <<>>) THEN <<>>
        ELSE IF wrong # <<>> /\ wrong[1] = "refused" THEN <<Refuses("Address", field)>>
        ELSE <<Refuses("Unsupported", field)>>

\* CredentialSource::declare: the source selects the setter, without fallback.
Declare(source, field) ==
    CASE source = "file" -> Setting(field, source)
      [] source = "base64" -> Setting(field \o "_base64", source)
      [] source = "foreign path" -> Refuses("CredentialPath", field)
      [] OTHER -> Refuses("CredentialValue", field)

Credentials(prefix, direction) ==
    <<Declare(direction.certificate, prefix \o "_certificate"),
      Declare(direction.private_key, prefix \o "_private_key")>>

Queries(n) ==
    IF n.excessive THEN Refuses("QueryLimitExcessive", "queries")
    ELSE Setting("queries", "max_retained_queries")

\* Both locator lists are built before the first is set.
EndpointSettings(n) ==
    Endpoints(Connect(n), "connect/endpoints") \o Endpoints(Listen(n), "listen/endpoints")
    \o <<Setting("connect/endpoints", Connect(n).addresses),
         Setting("listen/endpoints", Listen(n).addresses)>>

\* No discovery, TLS alone, both sides verified against the deployment's roots.
ClosedProfile ==
    <<Setting("multicast", "off"), Setting("multicast/listen", "off"), Setting("gossip", "off"),
      Setting("protocols", "tls"), Setting("enable_mtls", "on"),
      Setting("verify_name_on_connect", "on"), Setting("use_public_pki", "off")>>

Settings(n) ==
    <<Setting("id", "fresh"), Setting("mode", Mode(n)), Queries(n),
      Setting("wait_before_drop", "zero"), Setting("qos/network", "query drop")>>
    \o EndpointSettings(n) \o ClosedProfile
    \o <<Declare(n.deployment_roots, "root_ca_certificate")>>
    \o (IF Supplied(Connect(n)) THEN Credentials("connect", Connect(n)) ELSE <<>>)
    \o (IF Supplied(Listen(n)) THEN Credentials("listen", Listen(n)) ELSE <<>>)

Configuration(settings) ==
    [field \in {settings[i].field : i \in DOMAIN settings} |->
       settings[CHOOSE i \in DOMAIN settings : settings[i].field = field].value]

Cause(n) ==
    LET wrong == SelectSeq(Settings(n), LAMBDA setting : setting.refusal # NotRefused)
    IN  IF ~Supplied(Connect(n)) /\ ~Supplied(Listen(n))
        THEN Refused("Unsupported", "connect/listen/endpoints")
        ELSE IF wrong # <<>> THEN wrong[1].refusal
        ELSE IF hosting = "None" THEN Refused("Host", "")
        ELSE IF hosting # "MultiThread" THEN Refused("HostFlavor", "")
        ELSE NotRefused

-----------------------------------------------------------------------------
(* open_node and its caller *)

StartupInit ==
    /\ network \in Networks
    /\ native \in SUBSET {"listen/endpoints", "connect_certificate"}
    /\ hosting \in {"None", "CurrentThread", "MultiThread"}
    /\ owner = "caller" /\ session = NoSession /\ refusals = <<>>

Refuse(cause) ==
    /\ owner' = "caller"
    /\ refusals' = Append(refusals, cause)
    /\ UNCHANGED <<network, native, hosting, session>>

\* Up to the native opening's await.
OpenNode ==
    /\ owner = "caller" /\ Len(refusals) < MaxOpenings
    /\ IF Cause(network) = NotRefused
       THEN owner' = "opening" /\ UNCHANGED <<network, native, hosting, session, refusals>>
       ELSE Refuse(Cause(network))

\* Mutant: a failed native opening returns its cause alone.
OpenedSurrenders ==
    /\ owner = "opening"
    /\ \/ /\ owner' = "node"
          /\ session' = Configuration(Settings(network))
          /\ UNCHANGED <<network, native, hosting, refusals>>
       \/ /\ owner' = "nobody"
          /\ refusals' = Append(refusals, Refused("Open", ""))
          /\ UNCHANGED <<network, native, hosting, session>>

\* The native opening returns.
Opened ==
    /\ owner = "opening"
    /\ \/ /\ owner' = "node"
          /\ session' = Configuration(Settings(network))
          /\ UNCHANGED <<network, native, hosting, refusals>>
       \/ Refuse(Refused("Open", ""))

\* The caller drops the opening: its inputs go with it.
CancelOpening ==
    /\ owner = "opening"
    /\ owner' = "nobody"
    /\ UNCHANGED <<network, native, hosting, session, refusals>>

\* The caller amends what a refusal returned, or enters another host.
Amend ==
    /\ owner = "caller" /\ refusals # <<>>
    /\ \/ network' \in Amended /\ UNCHANGED hosting
       \/ hosting' = "MultiThread" /\ UNCHANGED network
    /\ UNCHANGED <<native, owner, session, refusals>>

StartupNext == OpenNode \/ Opened \/ CancelOpening \/ Amend

-----------------------------------------------------------------------------
(* Properties *)

Identity(direction, prefix) ==
    LET named(source, field) ==
          CASE source = "file" -> {field} [] source = "base64" -> {field \o "_base64"} [] OTHER -> {}
    IN  named(direction.certificate, prefix \o "_certificate")
        \cup named(direction.private_key, prefix \o "_private_key")

Identities == {p \o s : p \in {"connect_certificate", "connect_private_key", "listen_certificate",
                               "listen_private_key"}, s \in {"", "_base64"}}

\* The settings that no input of the caller changes, but for the mode of its layout.
FixedSettings(n) ==
    [field \in {"multicast", "multicast/listen", "gossip", "use_public_pki"} |-> "off"]
    @@ [field \in {"enable_mtls", "verify_name_on_connect"} |-> "on"]
    @@ [protocols |-> "tls", id |-> "fresh", wait_before_drop |-> "zero",
        queries |-> "max_retained_queries",
        mode |-> IF n.layout = "Peer" THEN "peer" ELSE "client"]
    @@ ("qos/network" :> "query drop")
Roots(n) == IF n.deployment_roots = "file" THEN "root_ca_certificate" ELSE "root_ca_certificate_base64"
EndpointFields == {"connect/endpoints", "listen/endpoints"}

\* An open node runs under exactly what its caller supplied: the addresses of
\* each supplied direction and no other, the identity settings that the supplied
\* directions name and by the source they name, the deployment's roots, every fixed
\* setting of the closed profile, and no other field; and a layout with nothing to
\* dial or to accept never opens (network.rs to_configuration).
ConfigurationExact ==
    LET listening == network.layout = "Peer" /\ Supplied(network.listen)
        fixed == FixedSettings(network)
    IN  owner = "node" =>
         /\ Supplied(network.connect) \/ listening
         /\ session["connect/endpoints"] =
              IF Supplied(network.connect) THEN network.connect.addresses ELSE <<>>
         /\ session["listen/endpoints"] = IF listening THEN network.listen.addresses ELSE <<>>
         /\ DOMAIN session \cap Identities =
              (IF Supplied(network.connect) THEN Identity(network.connect, "connect") ELSE {})
              \cup (IF listening THEN Identity(network.listen, "listen") ELSE {})
         /\ Cardinality(DOMAIN session \cap Identities) =
              2 * Cardinality({f \in EndpointFields : session[f] # <<>>})
         /\ \A field \in DOMAIN fixed : session[field] = fixed[field]
         /\ DOMAIN session \ Identities = DOMAIN fixed \cup EndpointFields \cup {Roots(network)}

\* Where the Application and its Network go in one step: back to the caller, with the
\* Network it supplied and without a session, whichever of the eight refusals ends the
\* opening, the native one after its await included; to the node, with a session and no
\* refusal; or nowhere, and then only because the caller dropped an opening that was
\* neither refused nor open (node.rs open_node).
HandBack ==
    /\ refusals' # refusals =>
         /\ owner' = "caller" /\ network' = network /\ session' = NoSession
         /\ Last(refusals').variant = "Open" <=> owner = "opening"
    /\ owner' = "node" /\ owner # "node" => owner = "opening" /\ refusals' = refusals
    /\ owner' = "nobody" /\ owner # "nobody" => owner = "opening" /\ refusals' = refusals
    /\ owner \in {"node", "nobody"} => owner' = owner
    /\ owner' = "node" <=> session' # NoSession

\* Opening a node transfers its inputs to exactly one side: an open node is configured
\* by exactly what its caller supplied, and every refusal gives the Application and the
\* Network back (network.rs to_configuration, node.rs open_node).
StartupExact == []ConfigurationExact /\ [][HandBack]_startupVars
=============================================================================
