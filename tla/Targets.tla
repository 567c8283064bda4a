------------------------------- MODULE Targets -------------------------------
(***************************************************************************)
(* From --mongodb.uri to the targets that are served: parseURIList,        *)
(* GetSeedListFromSRV, buildExporter and buildServerMap.                   *)
(*                                                                         *)
(* The command line is a list of elements, split at the commas: a host,    *)
(* which may be preceded by a scheme and by credentials.  A string of      *)
(* hosts is a sequence; url.Parse refuses one whose last colon is followed *)
(* by anything but digits, that is a host with a port before a last host   *)
(* without one.  Paths and options travel with the credentials.            *)
(***************************************************************************)
EXTENDS Naturals, Sequences, SequencesExt, FiniteSets

CONSTANTS
    Hosts,      \* names on the command line
    Resolved,   \* the hosts SRV records may name; they come with a port
    WithPort,   \* the hosts of the command line written with a port
    MaxList     \* bound: elements on the command line

ASSUME TargetsAssumption ==
    WithPort \subseteq Hosts /\ Hosts \cap Resolved = {} /\ MaxList \in Nat

UserKinds == {"none", "uri", "flags"}
Schemes == {"none", "mongodb", "mongodb+srv"}
Element == [scheme : Schemes, host : Hosts, user : BOOLEAN]

VARIABLES
    list,     \* the elements of --mongodb.uri
    flags,    \* --split-cluster; whether --mongodb.user and --mongodb.password are given
    phase,    \* "read", "split", "build", "serve", or "exit": log.Fatalf
    i,        \* the element, URI or target that is next
    realURI,  \* the buffer of the cluster being read, as a set with at most one URI
    uris,     \* what the current phase has appended so far
    before,   \* what the phase before it has
    servers,  \* the exporters
    seeds     \* environment: what each SRV name resolves to, <<>> if the lookup fails

vars == <<list, flags, phase, i, realURI, uris, before, servers, seeds>>

ManyHosts == UNION {[1..n -> Hosts \cup Resolved] : n \in 1..2 * MaxList}

TypeOK ==
    /\ list \in Seq(Element) /\ flags \in [split : BOOLEAN, user : BOOLEAN]
    /\ phase \in {"read", "split", "build", "serve", "exit"} /\ i \in 1..2 * MaxList + 1
    /\ Cardinality(realURI) <= 1
    /\ \A u \in realURI \cup Range(uris) \cup Range(before) \cup Range(servers) :
          /\ u.scheme \in Schemes \ {"none"} /\ u.user \in UserKinds
          /\ u.hosts \in ManyHosts

SRVAnswers == {<<>>} \cup {<<h>> : h \in Resolved}
                 \cup {s \in [1..2 -> Resolved] : s[1] # s[2]}

Lists == UNION {[1..n -> Element] : n \in 1..MaxList}

\* The element whose scheme, if any, was written last before or at element k.
LastScheme(k) == LET schemes == {j \in 1..k : list[j].scheme # "none"}
                 IN IF schemes = {} THEN 0 ELSE Max(schemes)
\* Element k continues the cluster that a mongodb:// began.
Joined(k) == LastScheme(k) \notin {0, k} /\ list[LastScheme(k)].scheme = "mongodb"

\* A cluster's credentials stand before its first host: on a later one they make no URI.
Init ==
    /\ list \in Lists /\ \A k \in DOMAIN list : Joined(k) => ~list[k].user
    /\ flags \in [split : BOOLEAN, user : BOOLEAN]
    /\ seeds \in [Hosts -> SRVAnswers]
    /\ \A h \in Hosts : flags.split \/ seeds[h] = <<>>
    /\ phase = "read" /\ i = 1
    /\ realURI = {} /\ uris = <<>> /\ before = <<>> /\ servers = <<>>

URI(element) ==
    [scheme |-> element.scheme, hosts |-> <<element.host>>,
     user |-> IF element.user THEN "uri" ELSE "none"]

\* net/url, as main_test.go:79-83 relies on it: several hosts with ports are accepted.
Port(h) == h \in WithPort \cup Resolved
Parses(hosts) == Port(Last(hosts)) \/ \A k \in DOMAIN hosts : ~Port(hosts[k])

\* GetSeedListFromSRV: a flat connection string, or the URI as it was.
SeedList(uri) ==
    LET found == seeds[uri.hosts[1]] IN
    IF found = <<>> THEN uri ELSE [uri EXCEPT !.scheme = "mongodb", !.hosts = found]

(***************************************************************************)
(* The loop of parseURIList.                                               *)
(***************************************************************************)
\* Variant: a scheme that follows a cluster throws the cluster away.
UnflushedDropped == uris
Flushed == IF realURI = {} THEN uris ELSE Append(uris, CHOOSE u \in realURI : TRUE)

\* Variant: the cluster that is flushed stays in the buffer.
MeetSchemeKept ==
    /\ list[i].scheme = "mongodb"
    /\ uris' = Flushed
    /\ realURI' = realURI \cup {URI(list[i])}

MeetScheme ==
    /\ list[i].scheme = "mongodb"
    /\ uris' = Flushed
    /\ realURI' = {URI(list[i])}

MeetSRV ==
    /\ list[i].scheme = "mongodb+srv"
    /\ uris' = Append(Flushed, IF flags.split THEN SeedList(URI(list[i])) ELSE URI(list[i]))
    /\ realURI' = {}

\* Variant: a host without a scheme begins a cluster, too.
StandaloneBegins ==
    /\ list[i].scheme = "none" /\ realURI = {}
    /\ realURI' = {[URI(list[i]) EXCEPT !.scheme = "mongodb"]}
    /\ UNCHANGED uris

MeetStandalone ==
    /\ list[i].scheme = "none" /\ realURI = {}
    /\ uris' = Append(uris, [URI(list[i]) EXCEPT !.scheme = "mongodb"])
    /\ UNCHANGED realURI

MeetMember ==
    /\ list[i].scheme = "none" /\ realURI # {}
    /\ realURI' = {[u EXCEPT !.hosts = Append(@, list[i].host)] : u \in realURI}
    /\ UNCHANGED uris

ReadElement ==
    /\ phase = "read" /\ i <= Len(list)
    /\ MeetScheme \/ MeetSRV \/ MeetStandalone \/ MeetMember
    /\ i' = i + 1
    /\ UNCHANGED <<list, flags, phase, before, servers, seeds>>

EndOfList ==
    /\ phase = "read" /\ i > Len(list)
    /\ before' = Flushed /\ realURI' = {} /\ uris' = <<>> /\ i' = 1
    /\ phase' = IF flags.split THEN "split" ELSE "build"
    /\ UNCHANGED <<list, flags, servers, seeds>>

(***************************************************************************)
(* --split-cluster: one target for each host, with the URI's credentials.  *)
(***************************************************************************)
\* Variant: each target is the whole cluster.
OfHostWhole(uri, host) == [scheme |-> "mongodb", hosts |-> uri.hosts, user |-> uri.user]
OfHost(uri, host) == [scheme |-> "mongodb", hosts |-> <<host>>, user |-> uri.user]

SplitURI ==
    /\ phase = "split" /\ i <= Len(before)
    /\ IF Parses(before[i].hosts)
       THEN /\ uris' = uris \o [k \in DOMAIN before[i].hosts |->
                                   OfHost(before[i], before[i].hosts[k])]
            /\ UNCHANGED phase
       ELSE phase' = "exit" /\ UNCHANGED uris
    /\ i' = i + 1
    /\ UNCHANGED <<list, flags, realURI, before, servers, seeds>>

EndOfSplit ==
    /\ phase = "split" /\ i > Len(before)
    /\ before' = uris /\ uris' = <<>> /\ i' = 1 /\ phase' = "build"
    /\ UNCHANGED <<list, flags, realURI, servers, seeds>>

(***************************************************************************)
(* buildExporter: buildURI adds the credentials of the command line where  *)
(* the URI has none; the node name is the host of a URI that parses.       *)
(***************************************************************************)
BuildExporter ==
    /\ phase = "build" /\ i <= Len(before)
    /\ LET uri == before[i] IN
       servers' = Append(servers,
           [scheme   |-> uri.scheme,
            hosts    |-> uri.hosts,
            user     |-> IF uri.user = "none" /\ flags.user THEN "flags" ELSE uri.user,
            nodeName |-> IF Parses(uri.hosts) THEN uri.hosts ELSE <<>>])
    /\ i' = i + 1
    /\ UNCHANGED <<list, flags, phase, realURI, uris, before, seeds>>

RunWebServer ==
    /\ phase = "build" /\ i > Len(before)
    /\ phase' = "serve"
    /\ UNCHANGED <<list, flags, i, realURI, uris, before, servers, seeds>>

Next == ReadElement \/ EndOfList \/ SplitURI \/ EndOfSplit \/ BuildExporter \/ RunWebServer

Spec == Init /\ [][Next]_vars

\* buildServerMap: the exporters under the host of their URI; the last one wins.
ServerMap(hosts) ==
    LET named == {k \in DOMAIN servers : Parses(servers[k].hosts) /\ servers[k].hosts = hosts}
    IN IF named = {} THEN 0 ELSE CHOOSE k \in named : \A l \in named : k >= l

\* multiTargetHandler: which exporter answers ?target=, 0 for "Unable to find target".
\* A target written mongodb+srv:// gets a second scheme in front and parses to another host.
Answers(scheme, hosts) ==
    IF scheme = "mongodb+srv" \/ ~Parses(hosts) THEN 0 ELSE ServerMap(hosts)

-----------------------------------------------------------------------------
(***************************************************************************)
(* Properties of the targets that are served.                              *)
(***************************************************************************)
\* The hosts element k names, or the SRV records behind it, and the credentials they should get.
HostsOf(k) ==
    LET found == IF list[k].scheme = "mongodb+srv" THEN seeds[list[k].host] ELSE <<>>
    IN IF found = <<>> THEN <<list[k].host>> ELSE found
UserOf(k) ==
    LET begin == IF Joined(k) THEN list[LastScheme(k)] ELSE list[k]
    IN IF begin.user THEN "uri" ELSE IF flags.user THEN "flags" ELSE "none"
WantedOf(k) == [j \in DOMAIN HostsOf(k) |-> [host |-> HostsOf(k)[j], user |-> UserOf(k)]]

\* The hosts the command line names, in order.
Wanted == FlattenSeq([k \in DOMAIN list |-> WantedOf(k)])

Served ==
    FlattenSeq([n \in DOMAIN servers |->
        [j \in DOMAIN servers[n].hosts |->
            [host |-> servers[n].hosts[j], user |-> servers[n].user]]])

\* Every host of the command line, or of the SRV records behind it, is served once, in
\* order, with the credentials it was given: parsing neither loses nor repeats one.
EveryHostServed == phase = "serve" => Served = Wanted

\* The target that holds the k-th host.
Owner(k) == LET upTo(n) == Len(FlattenSeq([j \in 1..n |-> servers[j].hosts]))
            IN CHOOSE n \in DOMAIN servers : upTo(n - 1) < k /\ k <= upTo(n)

\* The rule of the code: an element shares the target of the one before it exactly if it
\* continues a cluster that a mongodb:// began.
GroupedByRule ==
    phase = "serve" /\ ~flags.split =>
        \A k \in 2..Len(list) : Owner(k) = Owner(k - 1) <=> Joined(k)

\* Element k has no scheme and the last one written before it is mongodb+srv://.
AfterSRV(k) == LastScheme(k) \notin {0, k} /\ list[LastScheme(k)].scheme = "mongodb+srv"

\* README.md:123: "any host not prefixed by it after comma is being treated as part of a
\* cluster", any other element as a target of its own.  The hosts after a mongodb+srv:// are
\* left out: README.md:124-126 makes them part of the cluster, main.go:239-243 makes each
\* of them a standalone target, so nothing is asserted of them here.
ClustersTogether ==
    phase = "serve" /\ ~flags.split =>
        \A k \in 2..Len(list) : ~AfterSRV(k) =>
            (Owner(k) = Owner(k - 1) <=> LastScheme(k) \notin {0, k})

\* README.md:128: with --split-cluster "each cluster node can be queried using the target
\* parameter", whatever the SRV lookup gave.
SplitNodesAnswer ==
    phase = "serve" /\ flags.split =>
        \A w \in Range(Wanted) :
            LET n == Answers("mongodb", <<w.host>>)
            IN n # 0 /\ servers[n].hosts = <<w.host>>

=============================================================================
