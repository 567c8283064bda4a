--------------------------- MODULE Targets_proofs ---------------------------
(***************************************************************************)
(* Proofs about Targets for any command line and any SRV records: types,   *)
(* that parsing loses and repeats no host, which hosts share a target, and *)
(* that each node of a split cluster answers under its own name.           *)
(***************************************************************************)
EXTENDS Targets, SequenceLemmas

\* What a URI, and what a target, may be made of.
AllHosts == Hosts \cup Resolved
URIs == [scheme : {"mongodb", "mongodb+srv"}, hosts : Seq(AllHosts) \ {<<>>}, user : {"none", "uri"}]
Credentials == {"none", "uri", "flags"}
Entry == [host : AllHosts, user : Credentials]

\* The credentials the hosts of a URI get.
Given(f, user) == IF user = "none" /\ f.user THEN "flags" ELSE user

\* The hosts of a URI with the credentials they are served with.
Entries(hosts, user) == [j \in DOMAIN hosts |-> [host |-> hosts[j], user |-> user]]
OfURI(f, u) == Entries(u.hosts, Given(f, u.user))
OfAll(f, us) == FlattenSeq([n \in 1..Len(us) |-> OfURI(f, us[n])])
WantedTo(n) == FlattenSeq([k \in 1..n |-> WantedOf(k)])

\* A mongodb:// before or at element k begins a cluster that is still open.
Opened(k) == LastScheme(k) # 0 /\ list[LastScheme(k)].scheme = "mongodb"

\* What is fixed from the start: the command line and the SRV records.
FixedInv ==
    /\ list \in Seq(Element) /\ Len(list) \in 1..MaxList
    /\ flags \in [split : BOOLEAN, user : BOOLEAN]
    /\ seeds \in [Hosts -> SRVAnswers]
    /\ \A h \in Hosts : flags.split \/ seeds[h] = <<>>

\* What is read so far is what the elements so far ask for.
ReadInv ==
    phase = "read" =>
        /\ i \in 1..Len(list) + 1
        /\ uris \in Seq(URIs) /\ before = <<>> /\ servers = <<>>
        /\ realURI \subseteq URIs /\ \A u, v \in realURI : u = v
        /\ OfAll(flags, Flushed) = WantedTo(i - 1)
        /\ realURI # {} <=> Opened(i - 1)
        /\ \A u \in realURI : u.user = IF list[LastScheme(i - 1)].user THEN "uri" ELSE "none"

\* A target of a split cluster.
Single(u) == u.scheme = "mongodb" /\ Len(u.hosts) = 1

\* The clusters that are split so far have become a target for each of their hosts.
SplitInv ==
    phase = "split" =>
        /\ flags.split /\ realURI = {} /\ servers = <<>>
        /\ uris \in Seq(URIs) /\ before \in Seq(URIs)
        /\ i \in 1..Len(before) + 1
        /\ OfAll(flags, before) = Wanted
        /\ OfAll(flags, uris) = OfAll(flags, SubSeq(before, 1, i - 1))
        /\ \A n \in DOMAIN uris : Single(uris[n])

\* The exporters built so far serve what their URIs hold.
BuildInv ==
    phase \in {"build", "serve"} =>
        /\ realURI = {} /\ uris = <<>> /\ before \in Seq(URIs)
        /\ i \in 1..Len(before) + 1
        /\ OfAll(flags, before) = Wanted
        /\ Len(servers) = i - 1 /\ servers \in Seq(Range(servers))
        /\ \A n \in 1..(i - 1) :
              /\ servers[n].scheme = before[n].scheme
              /\ servers[n].hosts = before[n].hosts
              /\ servers[n].user = Given(flags, before[n].user)
        /\ flags.split => \A n \in DOMAIN before : Single(before[n])
        /\ phase = "serve" => i = Len(before) + 1

\* The hosts up to URI n of us.
Upto(us, n) == Len(FlattenSeq([j \in 1..n |-> us[j].hosts]))

\* The URIs us hold the first m elements, and each begins where a host does not join another.
Clustered(us, m) ==
    /\ Upto(us, Len(us)) = m
    /\ \A n \in 1..Len(us) :
          /\ ~Joined(Upto(us, n - 1) + 1)
          /\ \A k \in Upto(us, n - 1) + 2..Upto(us, n) : Joined(k)

\* Without --split-cluster the URIs are the clusters the command line joins.
ClusterInv ==
    ~flags.split =>
        /\ phase = "read" => Clustered(Flushed, i - 1)
        /\ phase \in {"build", "serve"} => Clustered(before, Len(list))

\* What is left when a URI that cannot be split ends the process.
ExitInv ==
    phase = "exit" =>
        /\ realURI = {} /\ servers = <<>>
        /\ uris \in Seq(URIs) /\ before \in Seq(URIs)
        /\ i \in 1..Len(before) + 1
        /\ OfAll(flags, before) = Wanted
        /\ \A n \in DOMAIN uris : Single(uris[n])

-----------------------------------------------------------------------------
(***************************************************************************)
(* Lemmas on the hosts of URIs.                                            *)
(***************************************************************************)

\* As many entries as hosts, in their order.
LEMMA EntriesType ==
    ASSUME NEW hosts \in Seq(AllHosts), NEW user \in Credentials
    PROVE  /\ Entries(hosts, user) \in Seq(Entry) /\ Len(Entries(hosts, user)) = Len(hosts)
           /\ \A k \in 1..Len(hosts) : Entries(hosts, user)[k] = [host |-> hosts[k], user |-> user]
<1>1. DOMAIN hosts = 1..Len(hosts) /\ Len(hosts) \in Nat
  OBVIOUS
<1>2. \A k \in 1..Len(hosts) : [host |-> hosts[k], user |-> user] \in Entry
  BY DEF Entry
<1>3. Entries(hosts, user) \in [1..Len(hosts) -> Entry]
  BY <1>1, <1>2 DEF Entries
<1>4. QED BY <1>1, <1>3 DEF Entries

\* A host more is an entry more.
LEMMA EntriesAppend ==
    ASSUME NEW hosts \in Seq(AllHosts), NEW h \in AllHosts, NEW user \in Credentials
    PROVE  Entries(Append(hosts, h), user) = Append(Entries(hosts, user), [host |-> h, user |-> user])
<1> DEFINE more == Append(hosts, h)
           f == Entries(more, user)
           g == Entries(hosts, user)
           e == [host |-> h, user |-> user]
<1>1. /\ more \in Seq(AllHosts) /\ Len(more) = Len(hosts) + 1
      /\ (\A k \in 1..Len(hosts) : more[k] = hosts[k]) /\ more[Len(hosts) + 1] = h
  BY AppendProperties
<1>2. Len(hosts) \in Nat
  OBVIOUS
<1> HIDE DEF more
<1>3. /\ f \in Seq(Entry) /\ Len(f) = Len(hosts) + 1
      /\ \A k \in 1..Len(more) : f[k] = [host |-> more[k], user |-> user]
  BY <1>1, EntriesType
<1>4. /\ g \in Seq(Entry) /\ Len(g) = Len(hosts)
      /\ \A k \in 1..Len(hosts) : g[k] = [host |-> hosts[k], user |-> user]
  BY EntriesType
<1>5. e \in Entry
  BY DEF Entry
<1> HIDE DEF f, g
<1>6. f[Len(g) + 1] = e /\ \A k \in 1..Len(g) : f[k] = g[k]
  BY <1>1, <1>2, <1>3, <1>4
<1>7. DOMAIN f = 1..(Len(g) + 1) /\ f = [k \in DOMAIN f |-> f[k]]
  BY <1>3, <1>4
<1> HIDE DEF e
<1>8. f = Append(g, e)
  BY <1>4, <1>5, <1>6, <1>7, LongerByOne
<1>9. QED BY <1>8 DEF f, g, e, more

\* The entries of one URI.
LEMMA OfURIType ==
    ASSUME FixedInv, NEW u \in URIs
    PROVE  /\ Given(flags, u.user) \in Credentials
           /\ OfURI(flags, u) \in Seq(Entry) /\ Len(OfURI(flags, u)) = Len(u.hosts)
           /\ \A k \in 1..Len(u.hosts) : OfURI(flags, u)[k] = [host |-> u.hosts[k], user |-> Given(flags, u.user)]
<1>1. u.hosts \in Seq(AllHosts) /\ u.user \in {"none", "uri"}
  BY DEF URIs
<1>2. Given(flags, u.user) \in Credentials
  BY <1>1 DEF Given, Credentials
<1>3. QED BY <1>1, <1>2, EntriesType DEF OfURI

\* The hosts of each URI.
Each(f, us) == [n \in 1..Len(us) |-> OfURI(f, us[n])]

\* A sequence of entries for each URI.
LEMMA EachType ==
    ASSUME FixedInv, NEW us \in Seq(URIs)
    PROVE  Each(flags, us) \in Seq(Seq(Entry)) /\ Len(Each(flags, us)) = Len(us)
<1>1. Len(us) \in Nat /\ \A n \in 1..Len(us) : us[n] \in URIs
  OBVIOUS
<1>2. \A n \in 1..Len(us) : OfURI(flags, us[n]) \in Seq(Entry)
  BY <1>1, OfURIType
<1>3. Each(flags, us) \in [1..Len(us) -> Seq(Entry)]
  BY <1>2 DEF Each
<1>4. QED BY <1>1, <1>3

\* A URI more is a sequence of entries more.
LEMMA EachAppend ==
    ASSUME FixedInv, NEW us \in Seq(URIs), NEW u \in URIs
    PROVE  Each(flags, Append(us, u)) = Append(Each(flags, us), OfURI(flags, u))
<1> DEFINE more == Append(us, u)
           f == Each(flags, more)
           g == Each(flags, us)
           e == OfURI(flags, u)
           Q == Seq(Entry)
<1>1. /\ more \in Seq(URIs) /\ Len(more) = Len(us) + 1
      /\ (\A k \in 1..Len(us) : more[k] = us[k]) /\ more[Len(us) + 1] = u
  BY AppendProperties
<1>2. Len(us) \in Nat
  OBVIOUS
<1> HIDE DEF more
<1>3. g \in Seq(Q) /\ Len(g) = Len(us) /\ e \in Q
  BY EachType, OfURIType
<1>4. DOMAIN f = 1..(Len(us) + 1) /\ f = [k \in DOMAIN f |-> f[k]]
  BY <1>1 DEF Each
<1>5. f[Len(us) + 1] = e /\ \A k \in 1..Len(us) : f[k] = g[k]
  BY <1>1, <1>2 DEF Each
<1> HIDE DEF f, g, e, Q
<1>6. f = Append(g, e)
  BY <1>3, <1>4, <1>5, LongerByOne
<1>7. QED BY <1>6 DEF f, g, e, more

\* The entries of a URI added come after those of the others.
LEMMA OfAllAppend ==
    ASSUME FixedInv, NEW us \in Seq(URIs), NEW u \in URIs
    PROVE  /\ OfAll(flags, us) \in Seq(Entry)
           /\ OfAll(flags, Append(us, u)) = OfAll(flags, us) \o OfURI(flags, u)
<1>1. \A vs : OfAll(flags, vs) = FlattenSeq(Each(flags, vs))
  BY DEF OfAll, Each
<1>2. Each(flags, us) \in Seq(Seq(Entry)) /\ OfURI(flags, u) \in Seq(Entry)
  BY EachType, OfURIType
<1>3. FlattenSeq(Append(Each(flags, us), OfURI(flags, u))) = FlattenSeq(Each(flags, us)) \o OfURI(flags, u)
  BY <1>2, FlattenAppend
<1>4. QED BY <1>1, <1>2, <1>3, EachAppend, FlattenType

\* No URI, no entry.
LEMMA OfAllEmpty == OfAll(flags, <<>>) = <<>>
<1>1. [n \in 1..Len(<<>>) |-> OfURI(flags, <<>>[n])] = <<>>
  OBVIOUS
<1>2. QED BY <1>1, FlattenEmpty DEF OfAll

-----------------------------------------------------------------------------
(***************************************************************************)
(* Lemmas on what the elements ask for.                                    *)
(***************************************************************************)

\* The scheme written last is that of the element, or the one before it.
LEMMA LastSchemeStep ==
    ASSUME NEW k \in Nat \ {0}
    PROVE  LastScheme(k) = IF list[k].scheme # "none" THEN k ELSE LastScheme(k - 1)
<1> DEFINE Schemed(m) == {j \in 1..m : list[j].scheme # "none"}
<1>1. CASE list[k].scheme # "none"
  <2>1. k \in Schemed(k) /\ \A y \in Schemed(k) : k >= y
    BY <1>1
  <2>2. \A x \in Schemed(k) : (\A y \in Schemed(k) : x >= y) => x = k
    BY <2>1
  <2> DEFINE S == Schemed(k)
  <2>3. S # {} /\ k \in S /\ (\A y \in S : k >= y) /\ \A x \in S : (\A y \in S : x >= y) => x = k
    BY <2>1, <2>2
  <2>4. LastScheme(k) = IF S = {} THEN 0 ELSE Max(S)
    BY DEF LastScheme
  <2> HIDE DEF S
  <2>5. Max(S) = k
    BY <2>3 DEF Max
  <2>6. QED BY <1>1, <2>3, <2>4, <2>5
<1>2. CASE list[k].scheme = "none"
  <2>1. Schemed(k) = Schemed(k - 1)
    BY <1>2
  <2>2. QED BY <1>2, <2>1 DEF LastScheme
<1>3. QED BY <1>1, <1>2

\* No element, no scheme.
LEMMA LastSchemeZero == LastScheme(0) = 0
<1>1. {j \in 1..0 : list[j].scheme # "none"} = {}
  OBVIOUS
<1>2. QED BY <1>1 DEF LastScheme

\* The last scheme is that of an element that has one.
LEMMA LastSchemeType ==
    ASSUME NEW m \in Nat
    PROVE  LastScheme(m) \in 0..m /\ (LastScheme(m) # 0 => list[LastScheme(m)].scheme # "none")
<1> DEFINE S == {n \in Nat : /\ LastScheme(n) \in 0..n
                             /\ LastScheme(n) # 0 => list[LastScheme(n)].scheme # "none"}
<1>1. 0 \in S
  BY LastSchemeZero
<1>2. ASSUME NEW n \in Nat, n \in S PROVE n + 1 \in S
  <2>1. LastScheme(n + 1) = IF list[n + 1].scheme # "none" THEN n + 1 ELSE LastScheme((n + 1) - 1)
    <3>1. n + 1 \in Nat \ {0}
      OBVIOUS
    <3>2. QED BY <3>1, LastSchemeStep
  <2>2. (n + 1) - 1 = n
    OBVIOUS
  <2>3. QED BY <1>2, <2>1, <2>2
<1>3. Nat \subseteq S
  <2> HIDE DEF S
  <2>1. QED BY <1>1, <1>2, NatInd
<1>4. m \in S
  BY <1>3
<1>5. QED BY <1>4

\* Whether an element joins the one before it, and goes on with its cluster.
LEMMA JoinedStep ==
    ASSUME FixedInv, NEW k \in 1..Len(list)
    PROVE  /\ Joined(k) <=> list[k].scheme = "none" /\ Opened(k - 1)
           /\ Joined(k) => LastScheme(k) = LastScheme(k - 1)
           /\ Opened(k) <=> list[k].scheme = "mongodb" \/ Joined(k)
<1>1. k \in Nat \ {0} /\ k - 1 \in Nat
  BY DEF FixedInv
<1>2. LastScheme(k) = IF list[k].scheme # "none" THEN k ELSE LastScheme(k - 1)
  BY <1>1, LastSchemeStep
<1>3. LastScheme(k - 1) \in 0..(k - 1)
  BY <1>1, LastSchemeType
<1>4. QED BY <1>1, <1>2, <1>3 DEF Joined, Opened

\* An SRV record has at most two hosts.
LEMMA SRVAnswersType ==
    ASSUME NEW s \in SRVAnswers
    PROVE  s \in Seq(AllHosts) /\ Len(s) \in 0..2
<1>1. CASE s = <<>>
  BY <1>1
<1>2. CASE s \in {<<h>> : h \in Resolved}
  <2>1. PICK h \in AllHosts : s = <<h>>
    BY <1>2 DEF AllHosts
  <2>2. QED BY <2>1
<1>3. CASE s \in {t \in [1..2 -> Resolved] : t[1] # t[2]}
  <2>1. s \in [1..2 -> AllHosts]
    BY <1>3 DEF AllHosts
  <2>2. s \in Seq(AllHosts) /\ Len(s) = 2
    BY <2>1, FunctionIsSeq
  <2>3. QED BY <2>2
<1>4. QED BY <1>1, <1>2, <1>3 DEF SRVAnswers

\* What one element of the command line asks for.
LEMMA WantedOfIs ==
    ASSUME FixedInv, NEW k \in 1..Len(list)
    PROVE  /\ WantedOf(k) = Entries(HostsOf(k), UserOf(k))
           /\ HostsOf(k) \in Seq(AllHosts) /\ Len(HostsOf(k)) \in {1, 2} /\ UserOf(k) \in Credentials
           /\ WantedOf(k) \in Seq(Entry) /\ Len(WantedOf(k)) \in {1, 2}
           /\ ~flags.split => HostsOf(k) = <<list[k].host>>
<1>1. WantedOf(k) = Entries(HostsOf(k), UserOf(k))
  BY DEF WantedOf, Entries
<1> DEFINE found == IF list[k].scheme = "mongodb+srv" THEN seeds[list[k].host] ELSE <<>>
<1>2. list[k].host \in Hosts
  <2>1. list[k] \in Element
    BY DEF FixedInv
  <2>2. QED BY <2>1 DEF Element
<1>3. found \in Seq(AllHosts) /\ Len(found) \in 0..2
  <2>1. seeds[list[k].host] \in SRVAnswers
    BY <1>2 DEF FixedInv
  <2>2. QED BY <2>1, SRVAnswersType
<1>a. HostsOf(k) = IF found = <<>> THEN <<list[k].host>> ELSE found
  BY DEF HostsOf
<1>b. ~flags.split => found = <<>>
  BY <1>2 DEF FixedInv
<1> HIDE DEF found
<1>4. HostsOf(k) \in Seq(AllHosts) /\ Len(HostsOf(k)) \in {1, 2}
  <2>1. <<list[k].host>> \in Seq(AllHosts) /\ Len(<<list[k].host>>) = 1
    BY <1>2 DEF AllHosts
  <2>2. found # <<>> => Len(found) \in {1, 2}
    BY <1>3
  <2>3. QED BY <1>3, <1>a, <2>1, <2>2
<1>5. UserOf(k) \in Credentials
  BY DEF UserOf, Credentials
<1>6. ~flags.split => HostsOf(k) = <<list[k].host>>
  BY <1>a, <1>b
<1>7. QED BY <1>1, <1>4, <1>5, <1>6, EntriesType

\* What k elements ask for is what k - 1 ask for, and then the last.
LEMMA WantedStep ==
    ASSUME FixedInv, NEW k \in 1..Len(list)
    PROVE  /\ WantedTo(k - 1) \in Seq(Entry)
           /\ WantedTo(k) = WantedTo(k - 1) \o WantedOf(k)
<1> DEFINE f == [n \in 1..k |-> WantedOf(n)]
           g == [n \in 1..(k - 1) |-> WantedOf(n)]
           e == WantedOf(k)
           Q == Seq(Entry)
<1>1. k - 1 \in Nat /\ \A n \in 1..k : WantedOf(n) \in Seq(Entry)
  BY WantedOfIs DEF FixedInv
<1>2. g \in [1..(k - 1) -> Q]
  BY <1>1
<1>3. g \in Seq(Q) /\ Len(g) = k - 1 /\ e \in Q
  BY <1>1, <1>2
<1>4. DOMAIN f = 1..(Len(g) + 1) /\ f = [n \in DOMAIN f |-> f[n]]
  BY <1>1, <1>3
<1>5. (\A n \in 1..Len(g) : f[n] = g[n]) /\ f[Len(g) + 1] = e
  BY <1>1, <1>3
<1>6. FlattenSeq(f) = WantedTo(k) /\ FlattenSeq(g) = WantedTo(k - 1)
  BY DEF WantedTo
<1>7. g \in Seq(Seq(Entry)) /\ e \in Seq(Entry)
  BY <1>3
<1> HIDE DEF f, g, e, Q
<1>8. f = Append(g, e)
  BY <1>3, <1>4, <1>5, LongerByOne
<1>9. FlattenSeq(f) = FlattenSeq(g) \o e /\ FlattenSeq(g) \in Seq(Entry)
  BY <1>7, <1>8, FlattenAppend, FlattenType
<1>10. QED BY <1>6, <1>9 DEF e

\* No element asks for nothing.
LEMMA WantedZero == WantedTo(0) = <<>>
<1>1. [k \in 1..0 |-> WantedOf(k)] = <<>>
  OBVIOUS
<1>2. QED BY <1>1, FlattenEmpty DEF WantedTo

\* An element asks for one or two hosts.
LEMMA WantedLen ==
    ASSUME FixedInv, NEW m \in 0..Len(list)
    PROVE  WantedTo(m) \in Seq(Entry) /\ m <= Len(WantedTo(m)) /\ Len(WantedTo(m)) <= 2 * m
<1> DEFINE Good(n) == WantedTo(n) \in Seq(Entry) /\ n <= Len(WantedTo(n)) /\ Len(WantedTo(n)) <= 2 * n
           S == {n \in Nat : n <= Len(list) => Good(n)}
<1>0. Len(list) \in Nat
  BY DEF FixedInv
<1>1. 0 \in S
  <2>1. <<>> \in Seq(Entry) /\ 0 <= Len(<<>>) /\ Len(<<>>) <= 2 * 0
    OBVIOUS
  <2>2. QED BY <2>1, WantedZero
<1>2. ASSUME NEW n \in Nat, n \in S PROVE n + 1 \in S
  <2> SUFFICES ASSUME n + 1 <= Len(list) PROVE Good(n + 1)
    OBVIOUS
  <2>1. Good(n)
    BY <1>0, <1>2
  <2>2. n + 1 \in 1..Len(list) /\ (n + 1) - 1 = n
    BY <1>0
  <2>3. WantedTo(n + 1) = WantedTo(n) \o WantedOf(n + 1)
    BY <2>2, WantedStep
  <2>4. WantedOf(n + 1) \in Seq(Entry) /\ 1 <= Len(WantedOf(n + 1)) /\ Len(WantedOf(n + 1)) <= 2
    <3>1. WantedOf(n + 1) \in Seq(Entry) /\ Len(WantedOf(n + 1)) \in {1, 2}
      BY <2>2, WantedOfIs
    <3>2. \A x \in {1, 2} : 1 <= x /\ x <= 2
      OBVIOUS
    <3>3. QED BY <3>1, <3>2, Zenon
  <2>5. /\ WantedTo(n + 1) \in Seq(Entry)
        /\ Len(WantedTo(n + 1)) = Len(WantedTo(n)) + Len(WantedOf(n + 1))
    BY <2>1, <2>3, <2>4, ConcatProperties
  <2>6. Len(WantedTo(n)) \in Nat /\ Len(WantedOf(n + 1)) \in Nat
    BY <2>1, <2>4
  <2> DEFINE la == Len(WantedTo(n))
             lb == Len(WantedOf(n + 1))
             lc == Len(WantedTo(n + 1))
  <2>7. /\ n <= la /\ la <= 2 * n /\ 1 <= lb /\ lb <= 2 /\ lc = la + lb
        /\ la \in Nat /\ lb \in Nat
    BY <2>1, <2>4, <2>5, <2>6
  <2> HIDE DEF la, lb, lc
  <2>8. n + 1 <= lc /\ lc <= 2 * (n + 1)
    BY <2>7
  <2>9. QED BY <2>5, <2>8 DEF lc
<1>3. Nat \subseteq S
  <2> HIDE DEF S
  <2>1. QED BY <1>1, <1>2, NatInd
<1>4. m \in S /\ m <= Len(list)
  BY <1>0, <1>3
<1>5. QED BY <1>4

-----------------------------------------------------------------------------
(***************************************************************************)
(* Reading the command line.                                               *)
(***************************************************************************)

\* What no step changes.
CommandLine == <<list, flags, seeds>>

\* What is asked for does not change.
LEMMA WantedSame ==
    ASSUME UNCHANGED CommandLine
    PROVE  /\ \A n : WantedTo(n)' = WantedTo(n) /\ Opened(n)' = Opened(n)
           /\ \A n : LastScheme(n)' = LastScheme(n) /\ Joined(n)' = Joined(n)
           /\ Wanted' = Wanted
<1>1. list' = list /\ flags' = flags /\ seeds' = seeds
  BY DEF CommandLine
<1>2. \A n : LastScheme(n)' = LastScheme(n)
  BY <1>1 DEF LastScheme
<1>3. \A n : Joined(n)' = Joined(n) /\ Opened(n)' = Opened(n)
  BY <1>1, <1>2 DEF Joined, Opened
<1>4. \A n : WantedOf(n)' = WantedOf(n)
  BY <1>1, <1>2, <1>3 DEF WantedOf, HostsOf, UserOf
<1>5. QED BY <1>1, <1>2, <1>3, <1>4 DEF WantedTo, Wanted

\* The URIs read so far, with the one that is still open.
LEMMA FlushedIs ==
    ASSUME ReadInv, phase = "read"
    PROVE  /\ Flushed \in Seq(URIs)
           /\ realURI = {} => Flushed = uris
           /\ \A u \in realURI : realURI = {u} /\ Flushed = Append(uris, u)
<1>1. uris \in Seq(URIs) /\ realURI \subseteq URIs /\ \A u, v \in realURI : u = v
  BY DEF ReadInv
<1>2. ASSUME NEW u \in realURI PROVE realURI = {u} /\ Flushed = Append(uris, u)
  <2>1. realURI = {u}
    BY <1>1
  <2>2. (CHOOSE v \in {u} : TRUE) = u
    OBVIOUS
  <2>3. QED BY <2>1, <2>2 DEF Flushed
<1>3. realURI = {} => Flushed = uris
  BY DEF Flushed
<1>4. ASSUME NEW u \in realURI PROVE Flushed \in Seq(URIs)
  BY <1>1, <1>2, AppendProperties
<1>5. QED BY <1>1, <1>2, <1>3, <1>4

\* The URI that an element alone makes.
LEMMA URIType ==
    ASSUME NEW e \in Element
    PROVE  /\ URI(e).hosts = <<e.host>>
           /\ URI(e).user = IF e.user THEN "uri" ELSE "none"
           /\ e.scheme # "none" => URI(e) \in URIs /\ URI(e).scheme = e.scheme
           /\ [URI(e) EXCEPT !.scheme = "mongodb"] =
                  [scheme |-> "mongodb", hosts |-> URI(e).hosts, user |-> URI(e).user]
           /\ [URI(e) EXCEPT !.scheme = "mongodb"] \in URIs
<1>1. e.scheme \in Schemes /\ e.host \in Hosts /\ e.user \in BOOLEAN
  BY DEF Element
<1>2. <<e.host>> \in Seq(AllHosts) \ {<<>>}
  BY <1>1 DEF AllHosts
<1>3. URI(e) = [scheme |-> e.scheme, hosts |-> <<e.host>>, user |-> IF e.user THEN "uri" ELSE "none"]
  BY DEF URI
<1>4. [URI(e) EXCEPT !.scheme = "mongodb"] =
          [scheme |-> "mongodb", hosts |-> <<e.host>>, user |-> IF e.user THEN "uri" ELSE "none"]
  BY <1>3
<1> DEFINE u == IF e.user THEN "uri" ELSE "none"
           hosts == <<e.host>>
<1>5. u \in {"none", "uri"} /\ hosts \in Seq(AllHosts) \ {<<>>}
  BY <1>2
<1> HIDE DEF u, hosts
<1>6. \A s \in {"mongodb", "mongodb+srv"} : [scheme |-> s, hosts |-> hosts, user |-> u] \in URIs
  BY <1>5 DEF URIs
<1>7. e.scheme # "none" => URI(e) \in URIs
  BY <1>1, <1>3, <1>6 DEF u, hosts, Schemes
<1>8. [URI(e) EXCEPT !.scheme = "mongodb"] \in URIs
  BY <1>4, <1>6 DEF u, hosts
<1>9. QED BY <1>3, <1>4, <1>7, <1>8

\* An element that joins no cluster makes a URI of what it asks for.
LEMMA ElementAlone ==
    ASSUME FixedInv, NEW k \in 1..Len(list), ~Joined(k),
           NEW u \in URIs, u.hosts = HostsOf(k),
           u.user = IF list[k].user THEN "uri" ELSE "none"
    PROVE  OfURI(flags, u) = WantedOf(k)
<1>1. WantedOf(k) = Entries(HostsOf(k), UserOf(k))
  BY WantedOfIs
<1>2. UserOf(k) = Given(flags, u.user)
  BY DEF UserOf, Given
<1>3. QED BY <1>1, <1>2 DEF OfURI

\* A URI of what the next element asks for is a step ahead.
LEMMA OneMore ==
    ASSUME FixedInv, ReadInv, phase = "read", i <= Len(list),
           NEW u \in URIs, OfURI(flags, u) = WantedOf(i)
    PROVE  /\ Append(Flushed, u) \in Seq(URIs)
           /\ OfAll(flags, Append(Flushed, u)) = WantedTo(i)
<1>1. i \in 1..Len(list) /\ OfAll(flags, Flushed) = WantedTo(i - 1)
  BY DEF ReadInv, FixedInv
<1>2. Flushed \in Seq(URIs)
  BY FlushedIs
<1>3. OfAll(flags, Append(Flushed, u)) = OfAll(flags, Flushed) \o OfURI(flags, u)
  BY <1>2, OfAllAppend
<1>4. WantedTo(i) = WantedTo(i - 1) \o WantedOf(i)
  BY <1>1, WantedStep
<1>5. Append(Flushed, u) \in Seq(URIs)
  BY <1>2, AppendProperties
<1>6. QED BY <1>1, <1>3, <1>4, <1>5

\* What a mongodb+srv:// element becomes.
LEMMA SRVHosts ==
    ASSUME FixedInv, NEW k \in 1..Len(list), list[k].scheme = "mongodb+srv",
           NEW u, u = IF flags.split THEN SeedList(URI(list[k])) ELSE URI(list[k])
    PROVE  u \in URIs /\ u.hosts = HostsOf(k) /\ u.user = IF list[k].user THEN "uri" ELSE "none"
<1> DEFINE uri == URI(list[k])
           found == seeds[list[k].host]
<1>1. list[k] \in Element
  BY DEF FixedInv
<1>2. /\ uri.hosts = <<list[k].host>> /\ uri \in URIs
      /\ uri.user = IF list[k].user THEN "uri" ELSE "none"
  BY <1>1, URIType
<1>3. list[k].host \in Hosts
  BY <1>1 DEF Element
<1>4. HostsOf(k) = IF found = <<>> THEN <<list[k].host>> ELSE found
  BY DEF HostsOf
<1>5. found \in Seq(AllHosts)
  BY <1>3, SRVAnswersType DEF FixedInv
<1>6. ~flags.split => found = <<>>
  BY <1>3 DEF FixedInv
<1>7. uri.hosts[1] = list[k].host
  BY <1>2
<1> HIDE DEF uri
<1>8. SeedList(uri) = IF found = <<>> THEN uri ELSE [uri EXCEPT !.scheme = "mongodb", !.hosts = found]
  BY <1>7 DEF SeedList
<1> HIDE DEF found
<1>9. CASE found = <<>>
  BY <1>2, <1>4, <1>8, <1>9 DEF uri
<1>10. CASE found # <<>>
  <2>1. u = [uri EXCEPT !.scheme = "mongodb", !.hosts = found]
    BY <1>6, <1>8, <1>10 DEF uri
  <2>2. u \in URIs /\ u.hosts = found /\ u.user = uri.user
    BY <1>2, <1>5, <1>10, <2>1 DEF URIs
  <2>3. QED BY <1>2, <1>4, <1>10, <2>2
<1>11. QED BY <1>9, <1>10

\* Reading an element adds the hosts it asks for, in the URI they belong to.
LEMMA ReadElementKeeps ==
    ASSUME FixedInv, ReadInv, ReadElement
    PROVE  ReadInv'
<1>1. /\ phase = "read" /\ phase' = "read" /\ i \in 1..Len(list) /\ i' = i + 1 /\ Len(list) \in Nat
      /\ UNCHANGED <<list, flags, seeds, before, servers>> /\ before = <<>> /\ servers = <<>>
      /\ uris \in Seq(URIs) /\ realURI \subseteq URIs /\ \A u, v \in realURI : u = v
      /\ realURI # {} <=> Opened(i - 1)
      /\ OfAll(flags, Flushed) = WantedTo(i - 1)
      /\ \A u \in realURI : u.user = IF list[LastScheme(i - 1)].user THEN "uri" ELSE "none"
  BY DEF ReadElement, ReadInv, FixedInv
<1>2. list[i] \in Element
  BY <1>1 DEF FixedInv
<1>3. UNCHANGED CommandLine
  BY <1>1 DEF CommandLine
<1>4. /\ Joined(i) <=> list[i].scheme = "none" /\ Opened(i - 1)
      /\ Joined(i) => LastScheme(i) = LastScheme(i - 1)
      /\ Opened(i) <=> list[i].scheme = "mongodb" \/ Joined(i)
      /\ list[i].scheme # "none" => LastScheme(i) = i
  BY <1>1, JoinedStep, LastSchemeStep
<1>5. list[i].scheme # "mongodb+srv" => HostsOf(i) = <<list[i].host>>
  BY DEF HostsOf
<1>6. SUFFICES /\ uris' \in Seq(URIs)
               /\ realURI' \subseteq URIs /\ \A u, v \in realURI' : u = v
               /\ OfAll(flags, Flushed') = WantedTo(i)
               /\ realURI' # {} <=> Opened(i)
               /\ \A u \in realURI' : u.user = IF list[LastScheme(i)].user THEN "uri" ELSE "none"
  <2>1. (i' - 1) = i /\ i' \in 1..Len(list) + 1
    BY <1>1
  <2>2. WantedTo(i - 1)' = WantedTo(i) /\ LastScheme(i - 1)' = LastScheme(i) /\ Opened(i - 1)' = Opened(i)
    <3>1. LastScheme(i - 1)' = LastScheme(i)
      BY <1>1, <2>1 DEF LastScheme
    <3>2. Opened(i - 1)' = Opened(i)
      BY <1>1, <2>1, <3>1 DEF Opened
    <3>3. \A n : WantedOf(n)' = WantedOf(n)
      BY <1>1, <1>3, WantedSame DEF WantedOf, HostsOf, UserOf
    <3>4. WantedTo(i - 1)' = WantedTo(i)
      BY <1>1, <2>1, <3>3 DEF WantedTo
    <3>5. QED BY <3>1, <3>2, <3>4
  <2>3. QED BY <1>1, <1>6, <2>1, <2>2 DEF ReadInv
<1>7. CASE MeetScheme
  <2> DEFINE u == URI(list[i])
  <2>1. list[i].scheme = "mongodb" /\ uris' = Flushed /\ realURI' = {u}
    BY <1>7 DEF MeetScheme
  <2>2. /\ u \in URIs /\ u.hosts = HostsOf(i)
        /\ u.user = IF list[i].user THEN "uri" ELSE "none"
    BY <1>2, <1>5, <2>1, URIType
  <2> HIDE DEF u
  <2>3. OfURI(flags, u) = WantedOf(i)
    BY <1>1, <1>4, <2>1, <2>2, ElementAlone
  <2>4. OfAll(flags, Append(Flushed, u)) = WantedTo(i) /\ Flushed \in Seq(URIs)
    BY <1>1, <2>2, <2>3, OneMore, FlushedIs
  <2>5. Flushed' = Append(Flushed, u)
    <3>1. (CHOOSE v \in {u} : TRUE) = u
      OBVIOUS
    <3>2. QED BY <2>1, <3>1 DEF Flushed
  <2>6. QED BY <1>4, <2>1, <2>2, <2>4, <2>5
<1>8. CASE MeetSRV
  <2> DEFINE u == IF flags.split THEN SeedList(URI(list[i])) ELSE URI(list[i])
  <2>1. list[i].scheme = "mongodb+srv" /\ uris' = Append(Flushed, u) /\ realURI' = {}
    BY <1>8 DEF MeetSRV
  <2>2. /\ u \in URIs /\ u.hosts = HostsOf(i)
        /\ u.user = IF list[i].user THEN "uri" ELSE "none"
    BY <1>1, <2>1, SRVHosts
  <2> HIDE DEF u
  <2>3. OfURI(flags, u) = WantedOf(i)
    BY <1>1, <1>4, <2>1, <2>2, ElementAlone
  <2>4. OfAll(flags, Append(Flushed, u)) = WantedTo(i) /\ Append(Flushed, u) \in Seq(URIs)
    BY <1>1, <2>2, <2>3, OneMore
  <2>5. Flushed' = Append(Flushed, u)
    BY <2>1 DEF Flushed
  <2>6. QED BY <1>4, <2>1, <2>4, <2>5
<1>9. CASE MeetStandalone
  <2> DEFINE u == [URI(list[i]) EXCEPT !.scheme = "mongodb"]
  <2>1. list[i].scheme = "none" /\ realURI = {} /\ uris' = Append(uris, u) /\ realURI' = {}
    BY <1>9 DEF MeetStandalone
  <2>2. /\ u \in URIs /\ u.hosts = HostsOf(i)
        /\ u.user = IF list[i].user THEN "uri" ELSE "none"
    <3>1. PICK e \in Element : e = list[i]
      BY <1>2
    <3>2. /\ u = [scheme |-> "mongodb", hosts |-> URI(e).hosts, user |-> URI(e).user] /\ u \in URIs
          /\ URI(e).hosts = <<e.host>> /\ URI(e).user = IF e.user THEN "uri" ELSE "none"
      BY <3>1, URIType
    <3>3. u.hosts = URI(e).hosts /\ u.user = URI(e).user
      BY <3>2
    <3>4. QED BY <1>5, <2>1, <3>1, <3>2, <3>3
  <2> HIDE DEF u
  <2>3. OfURI(flags, u) = WantedOf(i)
    BY <1>1, <1>4, <2>1, <2>2, ElementAlone
  <2>4. OfAll(flags, Append(Flushed, u)) = WantedTo(i) /\ Append(Flushed, u) \in Seq(URIs)
    BY <1>1, <2>2, <2>3, OneMore
  <2>5. Flushed' = Append(uris, u) /\ Flushed = uris
    BY <2>1 DEF Flushed
  <2>6. QED BY <1>1, <1>4, <2>1, <2>4, <2>5
<1>10. CASE MeetMember
  <2>1. /\ list[i].scheme = "none" /\ realURI # {} /\ uris' = uris
        /\ realURI' = {[u EXCEPT !.hosts = Append(@, list[i].host)] : u \in realURI}
    BY <1>10 DEF MeetMember
  <2>2. PICK u \in realURI : realURI = {u} /\ Flushed = Append(uris, u)
    BY <1>1, <2>1, FlushedIs
  <2> DEFINE h == list[i].host
             w == [u EXCEPT !.hosts = Append(@, h)]
             e == [host |-> h, user |-> Given(flags, u.user)]
  <2>3. realURI' = {w}
    BY <2>1, <2>2
  <2>4. u \in URIs /\ h \in AllHosts /\ u.hosts \in Seq(AllHosts)
    BY <1>1, <1>2, <2>2 DEF Element, AllHosts, URIs
  <2>5. w \in URIs /\ w.hosts = Append(u.hosts, h) /\ w.user = u.user
    <3>1. Append(u.hosts, h) \in Seq(AllHosts) \ {<<>>}
      BY <2>4, AppendProperties
    <3>2. QED BY <2>4, <3>1 DEF URIs
  <2>6. Joined(i) /\ LastScheme(i) = LastScheme(i - 1)
    BY <1>1, <1>4, <2>1
  <2>7. UserOf(i) = Given(flags, u.user)
    BY <1>1, <2>2, <2>6 DEF UserOf, Given
  <2>8. WantedOf(i) = <<e>>
    <3>1. HostsOf(i) = <<h>>
      BY <1>5, <2>1
    <3>2. QED BY <2>7, <3>1 DEF WantedOf
  <2>9. Given(flags, u.user) \in Credentials /\ OfURI(flags, u) \in Seq(Entry)
    BY <2>4, OfURIType
  <2>10. OfURI(flags, w) = Append(OfURI(flags, u), e)
    BY <2>4, <2>5, <2>9, EntriesAppend DEF OfURI
  <2>11. e \in Entry
    BY <2>4, <2>9 DEF Entry
  <2> HIDE DEF w, e, h
  <2>12. Flushed' = Append(uris, w)
    <3>1. (CHOOSE v \in {w} : TRUE) = w
      OBVIOUS
    <3>2. QED BY <2>1, <2>3, <3>1 DEF Flushed
  <2>13. /\ OfAll(flags, Append(uris, w)) = OfAll(flags, uris) \o OfURI(flags, w)
         /\ OfAll(flags, Append(uris, u)) = OfAll(flags, uris) \o OfURI(flags, u)
         /\ OfAll(flags, uris) \in Seq(Entry)
    BY <1>1, <2>4, <2>5, OfAllAppend
  <2>14. OfAll(flags, Append(uris, w)) = Append(WantedTo(i - 1), e)
    <3>1. OfAll(flags, uris) \o Append(OfURI(flags, u), e)
              = Append(OfAll(flags, uris) \o OfURI(flags, u), e)
      BY <2>9, <2>11, <2>13, AppendToConcat
    <3>2. QED BY <1>1, <2>2, <2>10, <2>13, <3>1
  <2>15. WantedTo(i) = Append(WantedTo(i - 1), e)
    <3>1. WantedTo(i - 1) \in Seq(Entry) /\ WantedTo(i) = WantedTo(i - 1) \o <<e>>
      BY <1>1, <2>8, WantedStep
    <3>2. QED BY <2>11, <3>1, AppendIsConcat
  <2>16. QED BY <1>1, <1>4, <2>1, <2>2, <2>3, <2>5, <2>6, <2>12, <2>14, <2>15
<1>11. QED BY <1>7, <1>8, <1>9, <1>10 DEF ReadElement

-----------------------------------------------------------------------------
(***************************************************************************)
(* Splitting clusters.                                                     *)
(***************************************************************************)

\* All that is asked for is what all elements ask for.
LEMMA WantedWhole == ASSUME FixedInv PROVE Wanted = WantedTo(Len(list))
<1>1. DOMAIN list = 1..Len(list)
  BY DEF FixedInv
<1>2. QED BY <1>1 DEF Wanted, WantedTo

\* The URI that is still open is not forgotten at the end of the list.
LEMMA EndOfListKeeps ==
    ASSUME FixedInv, ReadInv, EndOfList
    PROVE  SplitInv' /\ BuildInv' /\ ReadInv' /\ ExitInv'
<1>1. /\ phase = "read" /\ i = Len(list) + 1 /\ Len(list) \in Nat /\ servers = <<>>
      /\ before' = Flushed /\ realURI' = {} /\ uris' = <<>> /\ i' = 1 /\ servers' = servers
      /\ phase' = IF flags.split THEN "split" ELSE "build"
      /\ OfAll(flags, Flushed) = WantedTo(i - 1) /\ flags' = flags
      /\ UNCHANGED CommandLine
  BY DEF EndOfList, ReadInv, FixedInv, CommandLine
<1>2. Wanted' = Wanted /\ OfAll(flags, before') = Wanted
  BY <1>1, WantedSame, WantedWhole
<1>3. before' \in Seq(URIs) /\ Len(before') \in Nat
  BY <1>1, FlushedIs
<1>4. SubSeq(before', 1, 0) = <<>>
  BY <1>3, SubSeqEmpty
<1>5. <<>> \in Seq(URIs) /\ <<>> \in Seq(Range(<<>>)) /\ Len(<<>>) = 0
  OBVIOUS
<1>6. SplitInv'
  <2>1. i' - 1 = 0 /\ i' \in 1..Len(before') + 1
    BY <1>1, <1>3
  <2>2. OfAll(flags, uris') = OfAll(flags, SubSeq(before', 1, i' - 1))
    BY <1>1, <1>4, <2>1
  <2>3. QED BY <1>1, <1>2, <1>3, <1>5, <2>1, <2>2 DEF SplitInv
<1>7. BuildInv'
  BY <1>1, <1>2, <1>3, <1>5 DEF BuildInv
<1>8. ReadInv' /\ ExitInv'
  BY <1>1 DEF ReadInv, ExitInv
<1>9. QED BY <1>6, <1>7, <1>8

\* The targets of the hosts of a cluster.
TargetsOf(u) == [k \in DOMAIN u.hosts |-> OfHost(u, u.hosts[k])]

\* The targets of a split cluster are its hosts, in their order.
LEMMA SplitOne ==
    ASSUME FixedInv, NEW us \in Seq(URIs), NEW u \in URIs
    PROVE  /\ TargetsOf(u) \in Seq(URIs)
           /\ \A k \in 1..Len(TargetsOf(u)) : Single(TargetsOf(u)[k])
           /\ us \o TargetsOf(u) \in Seq(URIs)
           /\ OfAll(flags, us \o TargetsOf(u)) = OfAll(flags, us) \o OfURI(flags, u)
<1>1. /\ u.hosts \in Seq(AllHosts) /\ DOMAIN u.hosts = 1..Len(u.hosts) /\ Len(u.hosts) \in Nat
      /\ u.user \in {"none", "uri"}
  BY DEF URIs
<1> DEFINE t == TargetsOf(u)
           n == Len(u.hosts)
           hosts == u.hosts
<1>2. \A k \in 1..n : OfHost(u, hosts[k]) \in URIs /\ Single(OfHost(u, hosts[k]))
  <2> SUFFICES ASSUME NEW k \in 1..n PROVE OfHost(u, hosts[k]) \in URIs /\ Single(OfHost(u, hosts[k]))
    OBVIOUS
  <2>1. hosts[k] \in AllHosts
    BY <1>1
  <2>2. PICK h \in AllHosts : h = hosts[k]
    BY <2>1
  <2>3. <<h>> \in Seq(AllHosts) \ {<<>>} /\ Len(<<h>>) = 1
    OBVIOUS
  <2>4. OfHost(u, h) \in URIs /\ Single(OfHost(u, h))
    BY <1>1, <2>3 DEF OfHost, URIs, Single
  <2>5. QED BY <2>2, <2>4
<1>3. t \in [1..n -> URIs] /\ \A k \in 1..n : t[k] = OfHost(u, hosts[k])
  BY <1>1, <1>2 DEF TargetsOf
<1>4. t \in Seq(URIs) /\ Len(t) = n
  BY <1>1, <1>3, FunctionIsSeq
<1>5. OfURI(flags, u) \in Seq(Entry) /\ Len(OfURI(flags, u)) = n
      /\ \A k \in 1..n : OfURI(flags, u)[k] = [host |-> hosts[k], user |-> Given(flags, u.user)]
  BY OfURIType
<1>6. Each(flags, t) = [k \in 1..n |-> <<OfURI(flags, u)[k]>>]
  <2>1. ASSUME NEW k \in 1..n PROVE OfURI(flags, t[k]) = <<OfURI(flags, u)[k]>>
    <3>1. PICK h : h = hosts[k]
      OBVIOUS
    <3>2. t[k] = [scheme |-> "mongodb", hosts |-> <<h>>, user |-> u.user]
      BY <1>3, <2>1, <3>1 DEF OfHost
    <3>3. OfURI(flags, t[k]) = Entries(<<h>>, Given(flags, u.user))
      BY <3>2 DEF OfURI
    <3>4. Entries(<<h>>, Given(flags, u.user)) = <<[host |-> h, user |-> Given(flags, u.user)]>>
      BY DEF Entries
    <3>5. QED BY <1>5, <2>1, <3>1, <3>3, <3>4
  <2> HIDE DEF t, n
  <2>2. QED BY <1>4, <2>1 DEF Each
<1>7. FlattenSeq(Each(flags, t)) = OfURI(flags, u)
  BY <1>5, <1>6, FlattenSingletons
<1>8. /\ us \o t \in Seq(URIs) /\ Len(us \o t) = Len(us) + Len(t)
      /\ \A k \in 1..Len(us) + Len(t) : (us \o t)[k] = IF k <= Len(us) THEN us[k] ELSE t[k - Len(us)]
  BY <1>4, ConcatProperties
<1>9. Each(flags, us \o t) = Each(flags, us) \o Each(flags, t)
  <2> DEFINE Q == Seq(Entry)
             vs == us \o t
  <2>1. /\ Each(flags, us) \in Seq(Q) /\ Len(Each(flags, us)) = Len(us)
        /\ Each(flags, t) \in Seq(Q) /\ Len(Each(flags, t)) = Len(t)
        /\ Each(flags, vs) \in Seq(Q) /\ Len(Each(flags, vs)) = Len(us) + Len(t)
    BY <1>4, <1>8, EachType
  <2>2. Len(us) \in Nat /\ Len(t) \in Nat
    BY <1>4
  <2>3. ASSUME NEW k \in 1..Len(us) PROVE Each(flags, vs)[k] = Each(flags, us)[k]
    <3>1. vs[k] = us[k] /\ k \in 1..Len(vs)
      BY <1>8, <2>2
    <3> HIDE DEF vs, t
    <3>2. QED BY <3>1 DEF Each
  <2>4. ASSUME NEW k \in 1..Len(t) PROVE Each(flags, vs)[Len(us) + k] = Each(flags, t)[k]
    <3>1. Len(us) + k \in 1..Len(us) + Len(t) /\ ~(Len(us) + k <= Len(us))
          /\ (Len(us) + k) - Len(us) = k
      BY <2>2
    <3>2. vs[Len(us) + k] = t[k] /\ Len(us) + k \in 1..Len(vs)
      BY <1>8, <3>1
    <3> HIDE DEF vs, t
    <3>3. QED BY <3>2 DEF Each
  <2> HIDE DEF Q, vs, t
  <2>5. /\ \A k \in 1..Len(Each(flags, us)) : Each(flags, vs)[k] = Each(flags, us)[k]
        /\ \A k \in 1..Len(Each(flags, t)) :
              Each(flags, vs)[Len(Each(flags, us)) + k] = Each(flags, t)[k]
        /\ Len(Each(flags, vs)) = Len(Each(flags, us)) + Len(Each(flags, t))
    BY <2>1, <2>3, <2>4
  <2>a. Each(flags, vs) = Each(flags, us) \o Each(flags, t)
    BY <2>1, <2>5, ConcatIs
  <2>6. QED BY <2>a DEF vs
<1>10. Each(flags, us) \in Seq(Seq(Entry)) /\ Each(flags, t) \in Seq(Seq(Entry))
  BY <1>4, EachType
<1>11. OfAll(flags, us \o t) = OfAll(flags, us) \o OfURI(flags, u)
  <2>1. \A vs : OfAll(flags, vs) = FlattenSeq(Each(flags, vs))
    BY DEF OfAll, Each
  <2> HIDE DEF t
  <2>2. FlattenSeq(Each(flags, us) \o Each(flags, t))
            = FlattenSeq(Each(flags, us)) \o FlattenSeq(Each(flags, t))
    BY <1>10, FlattenConcat
  <2>3. QED BY <1>7, <1>9, <2>1, <2>2
<1>12. QED BY <1>2, <1>3, <1>4, <1>8, <1>11

\* One more of a sequence.
LEMMA SubSeqStep ==
    ASSUME NEW S, NEW s \in Seq(S), NEW k \in 1..Len(s)
    PROVE  /\ SubSeq(s, 1, k - 1) \in Seq(S)
           /\ SubSeq(s, 1, k) = Append(SubSeq(s, 1, k - 1), s[k])
           /\ s[k] \in S
<1>1. s[k] \in S /\ Len(s) \in Nat
  OBVIOUS
<1>2. SubSeq(s, 1, k - 1) \in Seq(S)
  BY SubSeqProperties
<1>3. SubSeq(s, 1, k) = SubSeq(s, 1, k - 1) \o <<s[k]>>
  <2>1. 1 \in 1..Len(s) /\ k \in 1..Len(s)
    BY <1>1
  <2>2. QED BY <2>1, SubSeqRecursiveSecond
<1>4. QED BY <1>1, <1>2, <1>3, AppendIsConcat

\* Splitting one URI after another adds the hosts of each.
LEMMA SplitURIKeeps ==
    ASSUME FixedInv, SplitInv, SplitURI
    PROVE  SplitInv' /\ BuildInv' /\ ReadInv' /\ ExitInv'
<1>1. /\ phase = "split" /\ i \in 1..Len(before) /\ i' = i + 1
      /\ flags.split /\ realURI = {} /\ servers = <<>>
      /\ uris \in Seq(URIs) /\ before \in Seq(URIs) /\ Len(before) \in Nat
      /\ OfAll(flags, before) = Wanted
      /\ OfAll(flags, uris) = OfAll(flags, SubSeq(before, 1, i - 1))
      /\ \A n \in DOMAIN uris : Single(uris[n])
      /\ UNCHANGED <<realURI, before, servers, flags>> /\ UNCHANGED CommandLine
  BY DEF SplitInv, SplitURI, CommandLine
<1>2. Wanted' = Wanted
  BY <1>1, WantedSame
<1>3. CASE ~Parses(before[i].hosts)
  <2>1. phase' = "exit" /\ uris' = uris
    BY <1>3 DEF SplitURI
  <2>2. ExitInv'
    BY <1>1, <1>2, <2>1 DEF ExitInv
  <2>3. QED BY <2>1, <2>2 DEF SplitInv, BuildInv, ReadInv
<1>4. CASE Parses(before[i].hosts)
  <2> DEFINE u == before[i]
             t == TargetsOf(u)
  <2>1. phase' = "split" /\ uris' = uris \o t
    BY <1>1, <1>4 DEF SplitURI, TargetsOf
  <2>2. u \in URIs /\ SubSeq(before, 1, i - 1) \in Seq(URIs)
        /\ SubSeq(before, 1, i) = Append(SubSeq(before, 1, i - 1), u)
    BY <1>1, SubSeqStep
  <2>3. t \in Seq(URIs) /\ \A k \in 1..Len(t) : Single(t[k])
    BY <2>2, SplitOne
  <2>4. uris' \in Seq(URIs) /\ OfAll(flags, uris') = OfAll(flags, uris) \o OfURI(flags, u)
    BY <1>1, <2>1, <2>2, SplitOne
  <2> HIDE DEF u, t
  <2>5. OfAll(flags, SubSeq(before, 1, i)) = OfAll(flags, SubSeq(before, 1, i - 1)) \o OfURI(flags, u)
    BY <2>2, OfAllAppend
  <2>6. \A n \in DOMAIN uris' : Single(uris'[n])
    <3>1. /\ Len(uris \o t) = Len(uris) + Len(t)
          /\ \A k \in 1..Len(uris) + Len(t) :
                (uris \o t)[k] = IF k <= Len(uris) THEN uris[k] ELSE t[k - Len(uris)]
      BY <1>1, <2>3, ConcatProperties
    <3>2. DOMAIN uris' = 1..Len(uris) + Len(t) /\ DOMAIN uris = 1..Len(uris)
          /\ Len(uris) \in Nat /\ Len(t) \in Nat
      BY <1>1, <2>1, <2>3, <2>4, <3>1
    <3>3. QED BY <1>1, <2>1, <2>3, <3>1, <3>2
  <2>7. SplitInv'
    <3>1. i' - 1 = i /\ i' \in 1..Len(before) + 1
      BY <1>1
    <3>2. QED BY <1>1, <1>2, <2>1, <2>4, <2>5, <2>6, <3>1 DEF SplitInv
  <2>8. QED BY <2>1, <2>7 DEF ExitInv, BuildInv, ReadInv
<1>5. QED BY <1>3, <1>4

\* Once all are split the targets hold all that is asked for.
LEMMA EndOfSplitKeeps ==
    ASSUME FixedInv, SplitInv, EndOfSplit
    PROVE  SplitInv' /\ BuildInv' /\ ReadInv' /\ ExitInv'
<1>1. /\ phase = "split" /\ i = Len(before) + 1 /\ i' = 1 /\ phase' = "build"
      /\ before' = uris /\ uris' = <<>> /\ realURI' = {} /\ servers' = <<>>
      /\ uris \in Seq(URIs) /\ before \in Seq(URIs) /\ Len(before) \in Nat /\ Len(uris) \in Nat
      /\ OfAll(flags, before) = Wanted
      /\ OfAll(flags, uris) = OfAll(flags, SubSeq(before, 1, i - 1))
      /\ \A n \in DOMAIN uris : Single(uris[n])
      /\ flags' = flags /\ UNCHANGED CommandLine
  BY DEF SplitInv, EndOfSplit, CommandLine
<1>2. Wanted' = Wanted
  BY <1>1, WantedSame
<1>3. SubSeq(before, 1, i - 1) = before
  <2>1. i - 1 = Len(before)
    BY <1>1
  <2>2. QED BY <1>1, <2>1, SubSeqFull
<1>4. <<>> \in Seq(Range(<<>>)) /\ Len(<<>>) = 0
  OBVIOUS
<1>5. BuildInv'
  <2>1. i' - 1 = 0 /\ i' \in 1..Len(before') + 1 /\ Len(servers') = 0
    BY <1>1, <1>4
  <2>2. OfAll(flags, before') = Wanted
    BY <1>1, <1>3
  <2>3. \A n \in DOMAIN before' : Single(before'[n])
    BY <1>1
  <2>4. servers' \in Seq(Range(servers'))
    BY <1>1, <1>4
  <2>5. QED BY <1>1, <1>2, <2>1, <2>2, <2>3, <2>4 DEF BuildInv
<1>6. QED BY <1>1, <1>5 DEF SplitInv, ReadInv, ExitInv

\* An exporter takes the hosts and the credentials of its URI.
LEMMA BuildExporterKeeps ==
    ASSUME FixedInv, BuildInv, BuildExporter
    PROVE  SplitInv' /\ BuildInv' /\ ReadInv' /\ ExitInv'
<1>1. /\ phase = "build" /\ phase' = "build" /\ i \in 1..Len(before) /\ i' = i + 1 /\ Len(before) \in Nat
      /\ realURI' = {} /\ uris' = <<>> /\ before' = before /\ before \in Seq(URIs)
      /\ OfAll(flags, before) = Wanted
      /\ Len(servers) = i - 1 /\ servers \in Seq(Range(servers))
      /\ \A n \in 1..(i - 1) :
            /\ servers[n].scheme = before[n].scheme
            /\ servers[n].hosts = before[n].hosts
            /\ servers[n].user = Given(flags, before[n].user)
      /\ flags.split => \A n \in DOMAIN before : Single(before[n])
      /\ flags' = flags /\ UNCHANGED CommandLine
  BY DEF BuildInv, BuildExporter, CommandLine
<1>2. Wanted' = Wanted
  BY <1>1, WantedSame
<1>3. PICK e : /\ servers' = Append(servers, e)
               /\ e.scheme = before[i].scheme /\ e.hosts = before[i].hosts
               /\ e.user = Given(flags, before[i].user)
  BY DEF BuildExporter, Given
<1> DEFINE S == Range(servers) \cup {e}
<1>4. servers \in Seq(S) /\ e \in S
  BY <1>1
<1>5. /\ servers' \in Seq(S) /\ Len(servers') = i /\ servers'[i] = e
      /\ \A n \in 1..(i - 1) : servers'[n] = servers[n]
  <2>1. (i - 1) + 1 = i
    BY <1>1
  <2> HIDE DEF S
  <2>2. QED BY <1>1, <1>3, <1>4, <2>1, AppendProperties
<1>6. servers' \in Seq(Range(servers'))
  <2>1. DOMAIN servers' = 1..Len(servers') /\ Len(servers') \in Nat
        /\ servers' = [n \in 1..Len(servers') |-> servers'[n]]
    BY <1>5
  <2>2. servers' \in [1..Len(servers') -> Range(servers')]
    BY <2>1 DEF Range
  <2>3. QED BY <2>1, <2>2, FunctionIsSeq
<1>7. ASSUME NEW n \in 1..i
      PROVE  /\ servers'[n].scheme = before[n].scheme
             /\ servers'[n].hosts = before[n].hosts
             /\ servers'[n].user = Given(flags, before[n].user)
  <2>1. n = i \/ n \in 1..(i - 1)
    BY <1>1, <1>7
  <2>2. QED BY <1>1, <1>3, <1>5, <2>1
<1>8. i' - 1 = i /\ i' \in 1..Len(before') + 1
  BY <1>1
<1>9. BuildInv'
  BY <1>1, <1>2, <1>5, <1>6, <1>7, <1>8 DEF BuildInv
<1>10. QED BY <1>1, <1>9 DEF SplitInv, ReadInv, ExitInv

\* The web server begins when each URI has its exporter.
LEMMA RunWebServerKeeps ==
    ASSUME FixedInv, BuildInv, RunWebServer
    PROVE  SplitInv' /\ BuildInv' /\ ReadInv' /\ ExitInv'
<1>1. /\ phase = "build" /\ i = Len(before) + 1 /\ phase' = "serve"
      /\ UNCHANGED <<i, realURI, uris, before, servers, flags>> /\ UNCHANGED CommandLine
  <2>1. i \in 1..Len(before) + 1 /\ i > Len(before) /\ Len(before) \in Nat
    BY DEF BuildInv, RunWebServer
  <2>2. QED BY <2>1 DEF RunWebServer, CommandLine
<1>2. Wanted' = Wanted
  BY <1>1, WantedSame
<1>3. BuildInv'
  BY <1>1, <1>2 DEF BuildInv
<1>4. QED BY <1>1, <1>3 DEF SplitInv, ReadInv, ExitInv

-----------------------------------------------------------------------------
(***************************************************************************)
(* What is read, split and built.                                          *)
(***************************************************************************)

\* The inductive invariant.
Inv ==
    /\ FixedInv
    /\ phase \in {"read", "split", "build", "serve", "exit"}
    /\ ReadInv /\ SplitInv /\ BuildInv /\ ExitInv

\* It holds of the command line before the first element is read.
LEMMA InitInv == Init => Inv
<1> SUFFICES ASSUME Init PROVE Inv
  OBVIOUS
<1>1. list \in Lists /\ MaxList \in Nat
  BY TargetsAssumption DEF Init
<1>2. PICK n \in 1..MaxList : list \in [1..n -> Element]
  BY <1>1 DEF Lists
<1>3. list \in Seq(Element) /\ Len(list) \in 1..MaxList
  BY <1>1, <1>2, FunctionIsSeq
<1>4. FixedInv
  BY <1>3 DEF FixedInv, Init
<1>5. i = 1 /\ uris = <<>> /\ realURI = {} /\ before = <<>> /\ servers = <<>> /\ phase = "read"
  BY DEF Init
<1>6. OfAll(flags, Flushed) = WantedTo(i - 1)
  BY <1>5, OfAllEmpty, WantedZero DEF Flushed
<1>7. ~Opened(i - 1)
  BY <1>5, LastSchemeZero DEF Opened
<1>8. i \in 1..Len(list) + 1
  BY <1>3, <1>5
<1>9. <<>> \in Seq(URIs)
  OBVIOUS
<1>10. ReadInv
  BY <1>5, <1>6, <1>7, <1>8, <1>9 DEF ReadInv
<1>11. QED BY <1>4, <1>5, <1>10 DEF Inv, SplitInv, BuildInv, ExitInv

\* Every step keeps it.
LEMMA NextInv == Inv /\ [Next]_vars => Inv'
<1> SUFFICES ASSUME Inv, [Next]_vars PROVE Inv'
  OBVIOUS
<1> USE DEF Inv
<1>1. FixedInv'
  BY DEF FixedInv, vars, Next, ReadElement, EndOfList, SplitURI, EndOfSplit, BuildExporter, RunWebServer
<1>2. CASE ReadElement
  <2>1. phase = "read" /\ phase' = "read"
    BY <1>2 DEF ReadElement
  <2>2. ReadInv'
    BY <1>2, ReadElementKeeps
  <2>3. QED BY <1>1, <2>1, <2>2 DEF SplitInv, BuildInv, ExitInv
<1>3. CASE EndOfList
  <2>1. phase' \in {"split", "build"}
    BY <1>3 DEF EndOfList
  <2>2. QED BY <1>1, <1>3, <2>1, EndOfListKeeps
<1>4. CASE SplitURI
  <2>1. phase' \in {"split", "exit"}
    BY <1>4 DEF SplitURI
  <2>2. QED BY <1>1, <1>4, <2>1, SplitURIKeeps
<1>5. CASE EndOfSplit
  <2>1. phase' = "build"
    BY <1>5 DEF EndOfSplit
  <2>2. QED BY <1>1, <1>5, <2>1, EndOfSplitKeeps
<1>6. CASE BuildExporter
  <2>1. phase' = "build"
    BY <1>6 DEF BuildExporter
  <2>2. QED BY <1>1, <1>6, <2>1, BuildExporterKeeps
<1>7. CASE RunWebServer
  <2>1. phase' = "serve"
    BY <1>7 DEF RunWebServer
  <2>2. QED BY <1>1, <1>7, <2>1, RunWebServerKeeps
<1>8. CASE UNCHANGED vars
  <2>1. /\ UNCHANGED <<phase, i, realURI, uris, before, servers, flags, list>>
        /\ UNCHANGED CommandLine
    BY <1>8 DEF vars, CommandLine
  <2>2. /\ Wanted' = Wanted
        /\ \A n : WantedTo(n)' = WantedTo(n) /\ Opened(n)' = Opened(n) /\ LastScheme(n)' = LastScheme(n)
    BY <2>1, WantedSame
  <2>3. Flushed' = Flushed
    BY <2>1 DEF Flushed
  <2>4. ReadInv'
    <3>1. /\ WantedTo(i - 1)' = WantedTo(i - 1) /\ LastScheme(i - 1)' = LastScheme(i - 1)
          /\ Opened(i - 1)' = Opened(i - 1)
      BY <2>1, <2>2
    <3>2. QED BY <2>1, <2>3, <3>1 DEF ReadInv
  <2>5. SplitInv' /\ BuildInv' /\ ExitInv'
    BY <2>1, <2>2 DEF SplitInv, BuildInv, ExitInv
  <2>6. QED BY <1>1, <2>1, <2>4, <2>5
<1>9. QED BY <1>2, <1>3, <1>4, <1>5, <1>6, <1>7, <1>8 DEF Next

\* The invariant holds for any command line and any SRV records.
THEOREM InvHolds == Spec => []Inv
BY InitInv, NextInv, PTL DEF Spec

\* What the exporters serve is what their URIs hold.
LEMMA ServedIs ==
    ASSUME FixedInv, BuildInv, phase = "serve"
    PROVE  Served = OfAll(flags, before)
<1>1. /\ i = Len(before) + 1 /\ Len(before) \in Nat
      /\ Len(servers) = i - 1 /\ servers \in Seq(Range(servers))
  BY DEF BuildInv
<1>2. DOMAIN servers = 1..Len(before)
  BY <1>1
<1>3. ASSUME NEW n \in 1..Len(before)
      PROVE  [j \in DOMAIN servers[n].hosts |-> [host |-> servers[n].hosts[j], user |-> servers[n].user]]
                 = OfURI(flags, before[n])
  <2>1. servers[n].hosts = before[n].hosts /\ servers[n].user = Given(flags, before[n].user)
    BY <1>1 DEF BuildInv
  <2>2. QED BY <2>1 DEF OfURI, Entries
<1>4. QED BY <1>2, <1>3 DEF Served, OfAll

\* However the command line is written, and whatever SRV records say: the exporters serve each
\* host asked for, in the order of the command line, with its credentials, and no other.
THEOREM EveryHostServedCorrect == Spec => []EveryHostServed
<1>1. Inv => EveryHostServed
  <2>1. ASSUME Inv, phase = "serve" PROVE Served = Wanted
    BY <2>1, ServedIs DEF Inv, BuildInv
  <2>2. QED BY <2>1 DEF EveryHostServed
<1>2. QED BY <1>1, InvHolds, PTL

-----------------------------------------------------------------------------
(***************************************************************************)
(* Which hosts share a target.                                             *)
(***************************************************************************)

\* A URI has at least one host.
LEMMA HostsType ==
    ASSUME NEW us \in Seq(URIs), NEW n \in 1..Len(us)
    PROVE  us[n] \in URIs /\ us[n].hosts \in Seq(AllHosts) /\ Len(us[n].hosts) \in Nat \ {0}
<1>1. us[n] \in URIs
  OBVIOUS
<1>2. us[n].hosts \in Seq(AllHosts) \ {<<>>}
  BY <1>1 DEF URIs
<1>3. Len(us[n].hosts) \in Nat \ {0}
  BY <1>2
<1>4. QED BY <1>1, <1>2, <1>3

\* URI n adds its hosts to those of the URIs before it.
LEMMA UptoStep ==
    ASSUME NEW us \in Seq(URIs)
    PROVE  /\ Upto(us, 0) = 0
           /\ \A n \in 1..Len(us) : /\ Upto(us, n - 1) \in Nat
                                    /\ Upto(us, n) = Upto(us, n - 1) + Len(us[n].hosts)
<1>1. Upto(us, 0) = 0
  <2>1. [j \in 1..0 |-> us[j].hosts] = <<>>
    OBVIOUS
  <2>2. QED BY <2>1, FlattenEmpty DEF Upto
<1>2. ASSUME NEW n \in 1..Len(us)
      PROVE  Upto(us, n - 1) \in Nat /\ Upto(us, n) = Upto(us, n - 1) + Len(us[n].hosts)
  <2> DEFINE f == [j \in 1..n |-> us[j].hosts]
             g == [j \in 1..(n - 1) |-> us[j].hosts]
             e == us[n].hosts
             Q == Seq(AllHosts)
  <2>1. n - 1 \in Nat /\ \A j \in 1..n : us[j].hosts \in Seq(AllHosts)
    BY HostsType
  <2>2. g \in [1..(n - 1) -> Q]
    BY <2>1
  <2>3. g \in Seq(Q) /\ Len(g) = n - 1 /\ e \in Q
    BY <2>1, <2>2
  <2>4. DOMAIN f = 1..(Len(g) + 1) /\ f = [j \in DOMAIN f |-> f[j]]
    BY <2>1, <2>3
  <2>5. (\A j \in 1..Len(g) : f[j] = g[j]) /\ f[Len(g) + 1] = e
    BY <2>1, <2>3
  <2>6. g \in Seq(Seq(AllHosts)) /\ e \in Seq(AllHosts)
    BY <2>3
  <2>7. Upto(us, n) = Len(FlattenSeq(f)) /\ Upto(us, n - 1) = Len(FlattenSeq(g))
    BY DEF Upto
  <2>x. us[n].hosts = e
    OBVIOUS
  <2> HIDE DEF f, g, e, Q
  <2>8. f = Append(g, e)
    BY <2>3, <2>4, <2>5, LongerByOne
  <2>9. FlattenSeq(f) = FlattenSeq(g) \o e /\ FlattenSeq(g) \in Seq(AllHosts)
    BY <2>6, <2>8, FlattenAppend, FlattenType
  <2>10. Len(FlattenSeq(g) \o e) = Len(FlattenSeq(g)) + Len(e)
    BY <2>6, <2>9, ConcatProperties
  <2>11. Len(FlattenSeq(g)) \in Nat
    BY <2>9
  <2>12. QED BY <2>7, <2>x, <2>9, <2>10, <2>11
<1>3. QED BY <1>1, <1>2

\* The hosts before URI n do not depend on the URIs after it.
LEMMA UptoAppend ==
    ASSUME NEW us \in Seq(URIs), NEW u \in URIs
    PROVE  /\ Append(us, u) \in Seq(URIs) /\ Len(Append(us, u)) = Len(us) + 1
           /\ \A n \in 0..Len(us) : Upto(Append(us, u), n) = Upto(us, n)
           /\ Upto(us, Len(us)) \in Nat
           /\ Upto(Append(us, u), Len(us) + 1) = Upto(us, Len(us)) + Len(u.hosts)
<1> DEFINE more == Append(us, u)
<1>1. /\ more \in Seq(URIs) /\ Len(more) = Len(us) + 1 /\ Len(us) \in Nat
      /\ (\A k \in 1..Len(us) : more[k] = us[k]) /\ more[Len(us) + 1] = u
  BY AppendProperties
<1> HIDE DEF more
<1>2. ASSUME NEW n \in 0..Len(us) PROVE Upto(more, n) = Upto(us, n)
  <2>1. [j \in 1..n |-> more[j].hosts] = [j \in 1..n |-> us[j].hosts]
    BY <1>1
  <2>2. QED BY <2>1 DEF Upto
<1>3. Len(us) + 1 \in 1..Len(more) /\ (Len(us) + 1) - 1 = Len(us) /\ Len(us) \in 0..Len(us)
  BY <1>1
<1>4. /\ Upto(more, Len(us)) \in Nat
      /\ Upto(more, Len(us) + 1) = Upto(more, Len(us)) + Len(more[Len(us) + 1].hosts)
  <2>1. \A n \in 1..Len(more) : /\ Upto(more, n - 1) \in Nat
                                /\ Upto(more, n) = Upto(more, n - 1) + Len(more[n].hosts)
    BY <1>1, UptoStep
  <2>2. QED BY <1>3, <2>1
<1>5. Upto(more, Len(us)) = Upto(us, Len(us))
  BY <1>2, <1>3
<1>6. QED BY <1>1, <1>2, <1>4, <1>5 DEF more

\* The hosts never become fewer.
LEMMA UptoMonotone ==
    ASSUME NEW us \in Seq(URIs), NEW a \in 0..Len(us), NEW b \in 0..Len(us), a <= b
    PROVE  Upto(us, a) \in Nat /\ Upto(us, b) \in Nat /\ Upto(us, a) <= Upto(us, b)
<1> DEFINE Good(n) == Upto(us, n) \in Nat /\ (a <= n => Upto(us, a) <= Upto(us, n))
           S == {n \in Nat : n <= Len(us) => Good(n)}
<1>0. Len(us) \in Nat /\ \A n \in 1..Len(us) : Len(us[n].hosts) \in Nat
  <2>1. Len(us) \in Nat
    OBVIOUS
  <2>2. QED BY <2>1, HostsType
<1>1. 0 \in S
  <2>1. Upto(us, 0) = 0
    BY UptoStep
  <2>2. a <= 0 => a = 0
    OBVIOUS
  <2>3. QED BY <2>1, <2>2
<1>2. ASSUME NEW n \in Nat, n \in S PROVE n + 1 \in S
  <2> SUFFICES ASSUME n + 1 <= Len(us) PROVE Good(n + 1)
    OBVIOUS
  <2>1. Good(n)
    BY <1>0, <1>2
  <2>2. n + 1 \in 1..Len(us) /\ (n + 1) - 1 = n
    BY <1>0
  <2>3. Upto(us, n + 1) = Upto(us, n) + Len(us[n + 1].hosts)
    <3>1. \A m \in 1..Len(us) : Upto(us, m) = Upto(us, m - 1) + Len(us[m].hosts)
      BY UptoStep
    <3>2. QED BY <2>2, <3>1
  <2>4. a <= n + 1 => a <= n \/ a = n + 1
    OBVIOUS
  <2>5. Len(us[n + 1].hosts) \in Nat
    BY <1>0, <2>2
  <2>6. Upto(us, n + 1) \in Nat /\ Upto(us, n) <= Upto(us, n + 1)
    BY <2>1, <2>3, <2>5
  <2>7. CASE a = n + 1
    BY <2>6, <2>7
  <2>8. CASE a # n + 1
    <3>1. a <= n + 1 => Upto(us, a) <= Upto(us, n)
      BY <2>1, <2>4, <2>8
    <3> DEFINE x == Upto(us, n)
               y == Upto(us, n + 1)
               z == Upto(us, a)
    <3>2. CASE a <= n + 1
      <4>1. a \in 1..Len(us) \/ a = 0
        OBVIOUS
      <4>2. z \in Nat
        <5>1. CASE a = 0
          BY <5>1, UptoStep
        <5>2. CASE a \in 1..Len(us)
          <6>1. Upto(us, a) = Upto(us, a - 1) + Len(us[a].hosts) /\ Upto(us, a - 1) \in Nat
            BY <5>2, UptoStep
          <6>2. QED BY <1>0, <5>2, <6>1
        <5>3. QED BY <4>1, <5>1, <5>2
      <4>3. x \in Nat /\ y \in Nat /\ z <= x /\ x <= y
        BY <2>1, <2>6, <3>1, <3>2
      <4> HIDE DEF x, y, z
      <4>4. z <= y
        BY <4>2, <4>3
      <4>5. QED BY <2>6, <4>4 DEF y, z
    <3>3. QED BY <2>6, <3>2
  <2>9. QED BY <2>7, <2>8
<1>3. Nat \subseteq S
  <2> HIDE DEF S
  <2>1. QED BY <1>1, <1>2, NatInd
<1>4. Good(a) /\ Good(b)
  <2>1. a \in S /\ b \in S /\ a <= Len(us) /\ b <= Len(us)
    <3> HIDE DEF S
    <3>1. QED BY <1>0, <1>3
  <2>2. QED BY <2>1
<1>5. QED BY <1>4

\* A URI of one host that joins nothing begins a cluster.
LEMMA ClusteredMore ==
    ASSUME NEW us \in Seq(URIs), NEW u \in URIs, NEW m \in Nat,
           Clustered(us, m), Len(u.hosts) = 1, ~Joined(m + 1)
    PROVE  Clustered(Append(us, u), m + 1)
<1> DEFINE more == Append(us, u)
<1>0. Len(us) \in Nat
  OBVIOUS
<1>1. /\ more \in Seq(URIs) /\ Len(more) = Len(us) + 1 /\ Len(us) \in Nat
      /\ \A n \in 0..Len(us) : Upto(more, n) = Upto(us, n)
      /\ Upto(more, Len(us) + 1) = Upto(us, Len(us)) + Len(u.hosts)
  BY <1>0, UptoAppend
<1>2. Upto(us, Len(us)) = m
  BY DEF Clustered
<1> HIDE DEF more
<1>3. Upto(more, Len(more)) = m + 1 /\ Upto(more, Len(us)) = m
  BY <1>1, <1>2
<1>4. ASSUME NEW n \in 1..Len(more)
      PROVE  /\ ~Joined(Upto(more, n - 1) + 1)
             /\ \A k \in Upto(more, n - 1) + 2..Upto(more, n) : Joined(k)
  <2>1. CASE n \in 1..Len(us)
    <3>1. n \in 0..Len(us) /\ n - 1 \in 0..Len(us)
      BY <2>1
    <3>2. Upto(more, n) = Upto(us, n) /\ Upto(more, n - 1) = Upto(us, n - 1)
      BY <1>1, <3>1
    <3>3. QED BY <2>1, <3>2 DEF Clustered
  <2>2. CASE n = Len(more)
    <3>1. n - 1 = Len(us)
      BY <1>1, <2>2
    <3>2. Upto(more, n - 1) = m /\ Upto(more, n) = m + 1
      BY <1>3, <2>2, <3>1
    <3>3. m + 2..m + 1 = {}
      OBVIOUS
    <3>4. QED BY <3>2, <3>3
  <2>3. QED BY <1>1, <2>1, <2>2
<1>5. QED BY <1>3, <1>4 DEF Clustered, more

\* A host that joins continues the last cluster.
LEMMA ClusteredLonger ==
    ASSUME NEW us \in Seq(URIs), NEW u \in URIs, NEW w \in URIs, NEW m \in Nat,
           Clustered(Append(us, u), m), Len(w.hosts) = Len(u.hosts) + 1, Joined(m + 1)
    PROVE  Clustered(Append(us, w), m + 1)
<1> DEFINE old == Append(us, u)
           new == Append(us, w)
           before0 == Upto(us, Len(us))
<1>1. /\ old \in Seq(URIs) /\ Len(old) = Len(us) + 1 /\ Len(us) \in Nat
      /\ \A n \in 0..Len(us) : Upto(old, n) = Upto(us, n)
      /\ Upto(old, Len(us) + 1) = before0 + Len(u.hosts) /\ before0 \in Nat
  BY UptoAppend
<1>2. /\ new \in Seq(URIs) /\ Len(new) = Len(us) + 1
      /\ \A n \in 0..Len(us) : Upto(new, n) = Upto(us, n)
      /\ Upto(new, Len(us) + 1) = before0 + Len(w.hosts)
  BY UptoAppend
<1>3. u.hosts \in Seq(AllHosts) \ {<<>>}
  BY DEF URIs
<1>4. Len(u.hosts) \in Nat \ {0}
  BY <1>3
<1>5. /\ Upto(old, Len(old)) = m
      /\ \A n \in 1..Len(old) :
            /\ ~Joined(Upto(old, n - 1) + 1)
            /\ \A k \in Upto(old, n - 1) + 2..Upto(old, n) : Joined(k)
  BY DEF Clustered
<1> HIDE DEF old, new, before0
<1>6. m = before0 + Len(u.hosts) /\ Upto(new, Len(new)) = m + 1
  <2>1. m = before0 + Len(u.hosts)
    BY <1>1, <1>5
  <2>2. Upto(new, Len(new)) = before0 + Len(w.hosts)
    BY <1>2
  <2>3. QED BY <1>1, <1>4, <2>1, <2>2
<1>7. ASSUME NEW n \in 1..Len(new)
      PROVE  /\ ~Joined(Upto(new, n - 1) + 1)
             /\ \A k \in Upto(new, n - 1) + 2..Upto(new, n) : Joined(k)
  <2>0. n \in 1..Len(old) /\ n - 1 \in 0..Len(us)
    BY <1>1, <1>2
  <2>1. Upto(new, n - 1) = Upto(old, n - 1)
    BY <1>1, <1>2, <2>0
  <2>2. CASE n \in 1..Len(us)
    <3>1. n \in 0..Len(us)
      BY <2>2
    <3>2. Upto(new, n) = Upto(old, n)
      BY <1>1, <1>2, <3>1
    <3>3. QED BY <1>5, <2>0, <2>1, <3>2
  <2>3. CASE n = Len(us) + 1
    <3>1. Upto(new, n - 1) = before0
      <4>1. n - 1 = Len(us) /\ Len(us) \in 0..Len(us)
        BY <1>1, <2>3
      <4>2. QED BY <1>2, <4>1 DEF before0
    <3>2. Upto(new, n) = m + 1 /\ Upto(old, n) = m
      BY <1>1, <1>2, <1>5, <1>6, <2>3
    <3>3. ASSUME NEW k \in before0 + 2..m + 1 PROVE Joined(k)
      <4>1. k = m + 1 \/ k \in before0 + 2..m
        BY <1>1, <1>4, <1>6
      <4>2. ASSUME k \in before0 + 2..m PROVE Joined(k)
        BY <1>5, <2>0, <2>1, <3>1, <3>2, <4>2
      <4>3. QED BY <4>1, <4>2
    <3>4. QED BY <1>5, <2>0, <2>1, <3>1, <3>2, <3>3
  <2>4. QED BY <1>2, <2>2, <2>3
<1>8. QED BY <1>6, <1>7 DEF Clustered, new

\* The clusters do not change with the steps.
LEMMA ClusterSame ==
    ASSUME UNCHANGED CommandLine
    PROVE  \A us, m : Clustered(us, m)' <=> Clustered(us, m)
<1>1. \A n : Joined(n)' = Joined(n)
  BY WantedSame
<1>2. QED BY <1>1 DEF Clustered

\* An element joins the cluster that is still open, or begins one.
LEMMA ReadElementClusters ==
    ASSUME FixedInv, ReadInv, ClusterInv, ReadElement, ~flags.split
    PROVE  Clustered(Flushed', i)
<1>1. /\ phase = "read" /\ i \in 1..Len(list) /\ Len(list) \in Nat
      /\ uris \in Seq(URIs) /\ realURI \subseteq URIs /\ \A u, v \in realURI : u = v
      /\ realURI # {} <=> Opened(i - 1)
      /\ Clustered(Flushed, i - 1)
      /\ list[i] \in Element
  BY DEF ReadElement, ReadInv, FixedInv, ClusterInv
<1>2. i - 1 \in Nat /\ (i - 1) + 1 = i
  BY <1>1
<1>3. Joined(i) <=> list[i].scheme = "none" /\ Opened(i - 1)
  BY <1>1, JoinedStep
<1>4. Flushed \in Seq(URIs)
  BY <1>1, FlushedIs
<1> DEFINE first == URI(list[i])
<1>5. /\ first \in URIs \/ list[i].scheme = "none"
      /\ [first EXCEPT !.scheme = "mongodb"] \in URIs
      /\ Len(first.hosts) = 1 /\ Len([first EXCEPT !.scheme = "mongodb"].hosts) = 1
  <2>1. list[i].host \in AllHosts /\ list[i].scheme \in Schemes /\ list[i].user \in BOOLEAN
    BY <1>1 DEF Element, AllHosts
  <2>2. PICK h \in AllHosts : h = list[i].host
    BY <2>1
  <2>3. <<h>> \in Seq(AllHosts) \ {<<>>} /\ Len(<<h>>) = 1
    OBVIOUS
  <2>4. QED BY <2>1, <2>2, <2>3 DEF URI, URIs, Schemes
<1>6. ASSUME NEW u \in URIs, Len(u.hosts) = 1, ~Joined(i) PROVE Clustered(Append(Flushed, u), i)
  BY <1>1, <1>2, <1>4, <1>6, ClusteredMore
<1> HIDE DEF first
<1>7. CASE MeetScheme
  <2>1. /\ list[i].scheme = "mongodb" /\ uris' = Flushed /\ realURI' = {first}
    BY <1>7 DEF MeetScheme, first
  <2>2. Flushed' = Append(Flushed, first)
    <3>1. (CHOOSE v \in {first} : TRUE) = first
      OBVIOUS
    <3>2. QED BY <2>1, <3>1 DEF Flushed
  <2>3. QED BY <1>3, <1>5, <1>6, <2>1, <2>2
<1>8. CASE MeetSRV
  <2>1. /\ list[i].scheme = "mongodb+srv" /\ uris' = Append(Flushed, first) /\ realURI' = {}
    BY <1>8 DEF MeetSRV, first
  <2>2. Flushed' = Append(Flushed, first)
    BY <2>1 DEF Flushed
  <2>3. QED BY <1>3, <1>5, <1>6, <2>1, <2>2
<1>9. CASE MeetStandalone
  <2> DEFINE u == [first EXCEPT !.scheme = "mongodb"]
  <2>1. /\ list[i].scheme = "none" /\ realURI = {} /\ uris' = Append(uris, u) /\ realURI' = {}
    BY <1>9 DEF MeetStandalone, first
  <2>2. u \in URIs /\ Len(u.hosts) = 1
    BY <1>5
  <2> HIDE DEF u
  <2>3. Flushed' = Append(Flushed, u)
    BY <2>1 DEF Flushed
  <2>4. ~Joined(i)
    BY <1>1, <1>3, <2>1
  <2>5. QED BY <1>6, <2>2, <2>3, <2>4
<1>10. CASE MeetMember
  <2>1. /\ list[i].scheme = "none" /\ realURI # {} /\ uris' = uris
        /\ realURI' = {[u EXCEPT !.hosts = Append(@, list[i].host)] : u \in realURI}
    BY <1>10 DEF MeetMember
  <2>2. PICK u \in realURI : realURI = {u} /\ Flushed = Append(uris, u)
    BY <1>1, <2>1, FlushedIs
  <2> DEFINE h == list[i].host
             w == [u EXCEPT !.hosts = Append(@, h)]
  <2>3. realURI' = {w}
    BY <2>1, <2>2
  <2>4. u \in URIs /\ h \in AllHosts /\ u.hosts \in Seq(AllHosts)
    BY <1>1, <2>2 DEF Element, AllHosts, URIs
  <2>5. w \in URIs /\ Len(w.hosts) = Len(u.hosts) + 1
    <3>1. Append(u.hosts, h) \in Seq(AllHosts) \ {<<>>} /\ Len(Append(u.hosts, h)) = Len(u.hosts) + 1
      BY <2>4, AppendProperties
    <3>2. w.hosts = Append(u.hosts, h)
      BY <2>4 DEF URIs
    <3>3. QED BY <2>4, <3>1, <3>2 DEF URIs
  <2>6. Joined(i)
    BY <1>1, <1>3, <2>1
  <2> HIDE DEF w
  <2>7. Flushed' = Append(uris, w)
    <3>1. (CHOOSE v \in {w} : TRUE) = w
      OBVIOUS
    <3>2. QED BY <2>1, <2>3, <3>1 DEF Flushed
  <2>8. Clustered(Append(uris, u), i - 1)
    BY <1>1, <2>2
  <2>9. Clustered(Append(uris, w), i)
    BY <1>1, <1>2, <2>4, <2>5, <2>6, <2>8, ClusteredLonger
  <2>10. QED BY <2>7, <2>9
<1>11. QED BY <1>7, <1>8, <1>9, <1>10 DEF ReadElement

\* The clusters are those of the command line in every state.
LEMMA ClusterHolds == Spec => []ClusterInv
<1>1. Init => ClusterInv
  <2> SUFFICES ASSUME Init PROVE ClusterInv
    OBVIOUS
  <2>1. Flushed = <<>> /\ i - 1 = 0 /\ phase = "read"
    BY DEF Init, Flushed
  <2>2. <<>> \in Seq(URIs) /\ Len(<<>>) = 0
    OBVIOUS
  <2>3. Upto(<<>>, 0) = 0
    BY <2>2, UptoStep
  <2>4. Clustered(<<>>, 0)
    BY <2>2, <2>3 DEF Clustered
  <2>5. QED BY <2>1, <2>4 DEF ClusterInv
<1>2. Inv /\ ClusterInv /\ [Next]_vars => ClusterInv'
  <2> SUFFICES ASSUME Inv, ClusterInv, [Next]_vars, ~flags.split, flags' = flags PROVE ClusterInv'
    <3>1. ASSUME [Next]_vars PROVE flags' = flags
      BY <3>1 DEF vars, Next, ReadElement, EndOfList, SplitURI, EndOfSplit, BuildExporter, RunWebServer
    <3>2. QED BY <3>1 DEF ClusterInv
  <2>0. UNCHANGED CommandLine
    BY DEF CommandLine, vars, Next, ReadElement, EndOfList, SplitURI, EndOfSplit, BuildExporter, RunWebServer
  <2>a. \A us, m : Clustered(us, m)' <=> Clustered(us, m)
    BY <2>0, ClusterSame
  <2>b. list' = list
    BY <2>0 DEF CommandLine
  <2>1. CASE ReadElement
    <3>1. phase' = "read" /\ i' = i + 1 /\ i \in Nat
      BY <2>1 DEF ReadElement, Inv, ReadInv, FixedInv
    <3>2. Clustered(Flushed', i)
      BY <2>1, ReadElementClusters DEF Inv
    <3>3. i' - 1 = i
      BY <3>1
    <3>4. Clustered(Flushed, i - 1)'
      BY <2>a, <2>b, <3>2, <3>3 DEF Clustered, Upto
    <3>5. QED BY <3>1, <3>4 DEF ClusterInv
  <2>2. CASE EndOfList
    <3>1. phase = "read" /\ phase' = "build" /\ before' = Flushed /\ i - 1 = Len(list)
      <4>1. i \in 1..Len(list) + 1 /\ Len(list) \in Nat /\ i > Len(list)
        BY <2>2 DEF EndOfList, Inv, ReadInv, FixedInv
      <4>2. QED BY <2>2, <4>1 DEF EndOfList
    <3>2. Clustered(before', Len(list))
      BY <3>1 DEF ClusterInv
    <3>3. Clustered(before, Len(list))'
      BY <2>a, <2>b, <3>2
    <3>4. QED BY <3>1, <3>3 DEF ClusterInv
  <2>3. CASE SplitURI
    BY <2>3 DEF SplitURI, Inv, SplitInv
  <2>4. CASE EndOfSplit
    BY <2>4 DEF EndOfSplit, Inv, SplitInv
  <2>5. CASE BuildExporter \/ RunWebServer
    <3>1. phase = "build" /\ phase' \in {"build", "serve"} /\ before' = before
      BY <2>5 DEF BuildExporter, RunWebServer
    <3>2. Clustered(before, Len(list))'
      BY <2>a, <2>b, <3>1 DEF ClusterInv
    <3>3. QED BY <3>1, <3>2 DEF ClusterInv
  <2>6. CASE UNCHANGED vars
    <3>1. UNCHANGED <<phase, before, uris, realURI, i>>
      BY <2>6 DEF vars
    <3>2. Flushed' = Flushed
      BY <3>1 DEF Flushed
    <3>3. Clustered(before, Len(list))' <=> Clustered(before, Len(list))
      BY <2>a, <2>b, <3>1
    <3>4. Clustered(Flushed, i - 1)' <=> Clustered(Flushed, i - 1)
      BY <2>a, <3>1, <3>2
    <3>5. QED BY <3>1, <3>3, <3>4 DEF ClusterInv
  <2>7. QED BY <2>1, <2>2, <2>3, <2>4, <2>5, <2>6 DEF Next
<1>3. QED BY <1>1, <1>2, InvHolds, PTL DEF Spec

\* Every host belongs to one URI.
LEMMA OwnerExists ==
    ASSUME NEW us \in Seq(URIs), NEW k \in 1..Upto(us, Len(us))
    PROVE  \E n \in 1..Len(us) : Upto(us, n - 1) < k /\ k <= Upto(us, n)
<1>0. Len(us) \in Nat /\ Upto(us, Len(us)) \in Nat /\ Upto(us, 0) = 0
  <2>1. Len(us) \in Nat
    OBVIOUS
  <2>2. QED BY <2>1, UptoMonotone, UptoStep
<1> DEFINE S == {n \in 0..Len(us) : k <= Upto(us, n)}
<1>1. S \in SUBSET Nat /\ Len(us) \in S
  BY <1>0
<1>2. PICK n \in S : \A m \in S : n <= m
  BY <1>1, Least
<1>3. n # 0
  BY <1>0, <1>2
<1>4. n \in 1..Len(us) /\ n - 1 \in 0..Len(us) /\ n - 1 \notin S
  BY <1>0, <1>2, <1>3
<1>5. Upto(us, n - 1) \in Nat
  BY <1>4, UptoMonotone
<1>6. ~(k <= Upto(us, n - 1))
  BY <1>4
<1>7. QED BY <1>2, <1>4, <1>5, <1>6

\* A host is in one URI only.
LEMMA OwnerUnique ==
    ASSUME NEW us \in Seq(URIs), NEW k \in Nat, NEW n \in 1..Len(us), NEW m \in 1..Len(us),
           Upto(us, n - 1) < k, k <= Upto(us, n), Upto(us, m - 1) < k, k <= Upto(us, m)
    PROVE  n = m
<1>0. Len(us) \in Nat
  OBVIOUS
<1>1. ASSUME NEW a \in 1..Len(us), NEW b \in 1..Len(us), a < b,
             k <= Upto(us, a), Upto(us, b - 1) < k
      PROVE  FALSE
  <2>1. a \in 0..Len(us) /\ b - 1 \in 0..Len(us) /\ a <= b - 1
    BY <1>0, <1>1
  <2>2. Upto(us, a) \in Nat /\ Upto(us, b - 1) \in Nat /\ Upto(us, a) <= Upto(us, b - 1)
    BY <2>1, UptoMonotone
  <2>3. QED BY <1>1, <2>2
<1>2. ~(n < m) /\ ~(m < n)
  BY <1>1
<1>3. QED BY <1>0, <1>2

\* The target that holds host k.
LEMMA OwnerIs ==
    ASSUME FixedInv, BuildInv, phase = "serve", NEW k \in 1..Upto(before, Len(before))
    PROVE  /\ Owner(k) \in 1..Len(before)
           /\ Upto(before, Owner(k) - 1) < k /\ k <= Upto(before, Owner(k))
<1>1. /\ i = Len(before) + 1 /\ Len(before) \in Nat /\ before \in Seq(URIs)
      /\ Len(servers) = i - 1 /\ servers \in Seq(Range(servers))
      /\ \A n \in 1..(i - 1) : servers[n].hosts = before[n].hosts
  BY DEF BuildInv
<1>2. DOMAIN servers = 1..Len(before)
  BY <1>1
<1> DEFINE P(n) == Upto(before, n - 1) < k /\ k <= Upto(before, n)
<1>3. ASSUME NEW n \in 0..Len(before)
      PROVE  Len(FlattenSeq([j \in 1..n |-> servers[j].hosts])) = Upto(before, n)
  <2>1. [j \in 1..n |-> servers[j].hosts] = [j \in 1..n |-> before[j].hosts]
    BY <1>1
  <2>2. QED BY <2>1 DEF Upto
<1>4. \A n \in 1..Len(before) : n \in 0..Len(before) /\ n - 1 \in 0..Len(before)
  BY <1>1
<1>5. Owner(k) = CHOOSE n \in 1..Len(before) :
                    /\ Len(FlattenSeq([j \in 1..(n - 1) |-> servers[j].hosts])) < k
                    /\ k <= Len(FlattenSeq([j \in 1..n |-> servers[j].hosts]))
  BY <1>2 DEF Owner
<1>6. \E n \in 1..Len(before) : P(n)
  BY <1>1, OwnerExists
<1>7. \E n \in 1..Len(before) :
          /\ Len(FlattenSeq([j \in 1..(n - 1) |-> servers[j].hosts])) < k
          /\ k <= Len(FlattenSeq([j \in 1..n |-> servers[j].hosts]))
  <2>1. PICK n \in 1..Len(before) : P(n)
    BY <1>6
  <2>2. QED BY <1>3, <1>4, <2>1
<1>8. /\ Owner(k) \in 1..Len(before)
      /\ Len(FlattenSeq([j \in 1..(Owner(k) - 1) |-> servers[j].hosts])) < k
      /\ k <= Len(FlattenSeq([j \in 1..Owner(k) |-> servers[j].hosts]))
  <2> DEFINE Q(n) == /\ Len(FlattenSeq([j \in 1..(n - 1) |-> servers[j].hosts])) < k
                     /\ k <= Len(FlattenSeq([j \in 1..n |-> servers[j].hosts]))
  <2>1. Owner(k) = CHOOSE n \in 1..Len(before) : Q(n)
    BY <1>5
  <2>2. \E n \in 1..Len(before) : Q(n)
    BY <1>7
  <2> HIDE DEF Q
  <2>3. Owner(k) \in 1..Len(before) /\ Q(Owner(k))
    BY <2>1, <2>2
  <2>4. QED BY <2>3 DEF Q
<1>9. QED BY <1>3, <1>4, <1>8

\* Without --split-cluster an element shares the target of the one before it exactly when it
\* has no scheme of its own and goes on with a mongodb:// cluster.
THEOREM GroupedByRuleCorrect == Spec => []GroupedByRule
<1>1. ASSUME Inv, ClusterInv, phase = "serve", ~flags.split, NEW k \in 2..Len(list)
      PROVE  Owner(k) = Owner(k - 1) <=> Joined(k)
  <2> DEFINE n == Owner(k)
             U(a) == Upto(before, a)
  <2>1. before \in Seq(URIs) /\ Len(before) \in Nat /\ Len(list) \in Nat
    BY <1>1 DEF Inv, BuildInv, FixedInv
  <2>2. U(Len(before)) = Len(list)
        /\ \A m \in 1..Len(before) : /\ ~Joined(U(m - 1) + 1)
                                     /\ \A j \in U(m - 1) + 2..U(m) : Joined(j)
    BY <1>1 DEF ClusterInv, Clustered
  <2>3. k \in 1..U(Len(before)) /\ k - 1 \in 1..U(Len(before))
    BY <1>1, <2>1, <2>2
  <2>4. n \in 1..Len(before) /\ U(n - 1) < k /\ k <= U(n)
    BY <1>1, <2>3, OwnerIs DEF Inv
  <2>5. Owner(k - 1) \in 1..Len(before) /\ U(Owner(k - 1) - 1) < k - 1 /\ k - 1 <= U(Owner(k - 1))
    BY <1>1, <2>3, OwnerIs DEF Inv
  <2>6. U(n - 1) \in Nat /\ U(n) \in Nat
    <3>1. n \in 0..Len(before) /\ n - 1 \in 0..Len(before)
      BY <2>1, <2>4
    <3>2. QED BY <2>1, <3>1, UptoMonotone
  <2> HIDE DEF n, U
  <2>7. CASE k = U(n - 1) + 1
    <3>1. ~Joined(k)
      BY <2>2, <2>4, <2>7
    <3>2. Owner(k - 1) # n
      BY <1>1, <2>5, <2>6, <2>7
    <3>3. QED BY <3>1, <3>2 DEF n
  <2>8. CASE k # U(n - 1) + 1
    <3>1. k \in U(n - 1) + 2..U(n) /\ U(n - 1) < k - 1 /\ k - 1 <= U(n) /\ k - 1 \in Nat
      BY <1>1, <2>4, <2>6, <2>8
    <3>2. Joined(k)
      BY <2>2, <2>4, <3>1
    <3>3. Owner(k - 1) = n
      BY <2>1, <2>4, <2>5, <3>1, OwnerUnique DEF U
    <3>4. QED BY <3>2, <3>3 DEF n
  <2>9. QED BY <2>7, <2>8
<1>2. Inv /\ ClusterInv => GroupedByRule
  BY <1>1 DEF GroupedByRule
<1>3. QED BY <1>2, InvHolds, ClusterHolds, PTL

\* Where the rule of the code is the documented one, that is of every element but those after
\* a mongodb+srv://, the elements are grouped as README.md:123 says.
THEOREM ClustersTogetherCorrect == Spec => []ClustersTogether
<1>1. ASSUME Inv, GroupedByRule, phase = "serve", ~flags.split,
             NEW k \in 2..Len(list), ~AfterSRV(k)
      PROVE  Owner(k) = Owner(k - 1) <=> LastScheme(k) \notin {0, k}
  <2>1. list \in Seq(Element) /\ Len(list) \in Nat
    BY <1>1 DEF Inv, FixedInv
  <2>2. LastScheme(k) \in 0..k /\ (LastScheme(k) # 0 => list[LastScheme(k)].scheme # "none")
    BY <1>1, <2>1, LastSchemeType DEF Inv
  <2>3. LastScheme(k) # 0 => list[LastScheme(k)].scheme \in Schemes
    <3>1. ASSUME LastScheme(k) # 0 PROVE list[LastScheme(k)] \in Element
      <4>1. LastScheme(k) \in 1..Len(list)
        BY <1>1, <2>1, <2>2, <3>1
      <4>2. QED BY <2>1, <4>1
    <3>2. QED BY <3>1 DEF Element
  <2>4. Joined(k) <=> LastScheme(k) \notin {0, k}
    BY <1>1, <2>2, <2>3 DEF Joined, AfterSRV, Schemes
  <2>5. QED BY <1>1, <2>4 DEF GroupedByRule
<1>2. Inv /\ GroupedByRule => ClustersTogether
  BY <1>1 DEF ClustersTogether
<1>3. QED BY <1>2, InvHolds, GroupedByRuleCorrect, PTL

-----------------------------------------------------------------------------
(***************************************************************************)
(* The nodes of a split cluster.                                           *)
(***************************************************************************)

\* A target of one host holds that host and nothing else.
LEMMA SingleHost ==
    ASSUME FixedInv, NEW u \in URIs, Single(u)
    PROVE  \E h \in AllHosts :
              /\ u.hosts = <<h>>
              /\ OfURI(flags, u) = <<[host |-> h, user |-> Given(flags, u.user)]>>
<1>1. u.hosts \in Seq(AllHosts) /\ Len(u.hosts) = 1
  BY DEF URIs, Single
<1>2. PICK h \in AllHosts : h = u.hosts[1]
  BY <1>1
<1>3. u.hosts = <<h>>
  BY <1>1, <1>2
<1>4. OfURI(flags, u) = Entries(<<h>>, Given(flags, u.user))
  BY <1>3 DEF OfURI
<1>5. Entries(<<h>>, Given(flags, u.user)) = <<[host |-> h, user |-> Given(flags, u.user)]>>
  BY DEF Entries
<1>6. QED BY <1>3, <1>4, <1>5

\* What targets of one host each serve.
LEMMA SinglesServe ==
    ASSUME FixedInv, NEW us \in Seq(URIs), \A n \in DOMAIN us : Single(us[n])
    PROVE  /\ Len(OfAll(flags, us)) = Len(us)
           /\ \A n \in 1..Len(us) : us[n].hosts = <<OfAll(flags, us)[n].host>>
<1> DEFINE h(n) == CHOOSE x \in AllHosts : us[n].hosts = <<x>>
           e(n) == [host |-> h(n), user |-> Given(flags, us[n].user)]
           s == [n \in 1..Len(us) |-> e(n)]
<1>0. Len(us) \in Nat
  OBVIOUS
<1>1. ASSUME NEW n \in 1..Len(us)
      PROVE  /\ us[n].hosts = <<h(n)>> /\ OfURI(flags, us[n]) = <<e(n)>> /\ e(n) \in Entry
  <2>1. us[n] \in URIs /\ Single(us[n])
    OBVIOUS
  <2>2. PICK x \in AllHosts : /\ us[n].hosts = <<x>>
                              /\ OfURI(flags, us[n]) = <<[host |-> x, user |-> Given(flags, us[n].user)]>>
    BY <2>1, SingleHost
  <2>3. h(n) \in AllHosts /\ us[n].hosts = <<h(n)>>
    BY <2>2
  <2>4. h(n) = x
    <3> HIDE DEF h
    <3>1. <<h(n)>>[1] = h(n) /\ <<x>>[1] = x
      OBVIOUS
    <3>2. QED BY <2>2, <2>3, <3>1
  <2>5. Given(flags, us[n].user) \in Credentials
    BY <2>1, OfURIType
  <2> HIDE DEF h
  <2>6. QED BY <2>2, <2>3, <2>4, <2>5 DEF Entry
<1>2. s \in Seq(Entry) /\ Len(s) = Len(us)
  <2>1. s \in [1..Len(us) -> Entry]
    <3> HIDE DEF e
    <3>1. QED BY <1>1
  <2>2. QED BY <1>0, <2>1, FunctionIsSeq
<1>3. OfAll(flags, us) = FlattenSeq([n \in 1..Len(s) |-> <<s[n]>>])
  <2>1. ASSUME NEW n \in 1..Len(us) PROVE OfURI(flags, us[n]) = <<s[n]>>
    <3> HIDE DEF e
    <3>1. QED BY <1>1
  <2> HIDE DEF s
  <2>2. QED BY <1>2, <2>1 DEF OfAll
<1>4. OfAll(flags, us) = s
  <2> HIDE DEF s
  <2>1. QED BY <1>2, <1>3, FlattenSingletons
<1>5. \A n \in 1..Len(us) : s[n].host = h(n)
  <2> HIDE DEF h
  <2>1. QED OBVIOUS
<1> HIDE DEF s, e, h
<1>6. QED BY <1>1, <1>2, <1>4, <1>5

\* A set of positions has a last one.
LEMMA LastPosition ==
    ASSUME NEW N \in Nat, NEW S \in SUBSET (1..N), S # {}
    PROVE  \E k \in S : \A l \in S : k >= l
<1> DEFINE D == {d \in 0..N : N - d \in S}
<1>1. PICK x : x \in S
  OBVIOUS
<1>2. N - x \in D /\ D \in SUBSET Nat
  BY <1>1
<1>3. PICK d \in D : \A m \in D : d <= m
  BY <1>2, Least
<1>4. ASSUME NEW l \in S PROVE N - d >= l
  <2>1. l \in 1..N /\ N - l \in D
    OBVIOUS
  <2>2. QED BY <1>3, <2>1
<1>5. QED BY <1>3, <1>4

\* With --split-cluster each node has a target that a request by the node's own name finds.
THEOREM SplitNodesAnswerCorrect == Spec => []SplitNodesAnswer
<1>1. ASSUME Inv, phase = "serve", flags.split, NEW w \in Range(Wanted)
      PROVE  LET n == Answers("mongodb", <<w.host>>)
             IN n # 0 /\ servers[n].hosts = <<w.host>>
  <2>1. /\ i = Len(before) + 1 /\ Len(before) \in Nat /\ before \in Seq(URIs)
        /\ Len(servers) = i - 1 /\ servers \in Seq(Range(servers))
        /\ \A n \in 1..(i - 1) : servers[n].hosts = before[n].hosts
        /\ OfAll(flags, before) = Wanted
        /\ \A n \in DOMAIN before : Single(before[n])
        /\ FixedInv
    BY <1>1 DEF Inv, BuildInv
  <2>2. Len(Wanted) = Len(before) /\ \A n \in 1..Len(before) : before[n].hosts = <<Wanted[n].host>>
    BY <2>1, SinglesServe
  <2>3. Wanted \in Seq(Entry)
    BY <2>1, WantedWhole, WantedLen DEF FixedInv
  <2>4. PICK j \in 1..Len(before) : Wanted[j] = w
    BY <2>1, <2>2, <2>3 DEF Range
  <2> DEFINE hosts == <<w.host>>
             named == {k \in DOMAIN servers : Parses(servers[k].hosts) /\ servers[k].hosts = hosts}
  <2>5. Parses(hosts)
    <3>1. Last(hosts) = hosts[1] /\ DOMAIN hosts = {1}
      BY DEF Last
    <3> HIDE DEF hosts
    <3>2. QED BY <3>1 DEF Parses
  <2>6. DOMAIN servers = 1..Len(before)
    BY <2>1
  <2>7. j \in named
    <3>1. j \in 1..(i - 1) /\ j \in DOMAIN servers
      BY <2>1, <2>6
    <3>2. servers[j].hosts = before[j].hosts
      BY <2>1, <3>1
    <3>3. servers[j].hosts = hosts
      BY <2>2, <2>4, <3>2
    <3> HIDE DEF hosts
    <3>4. QED BY <2>5, <3>1, <3>3
  <2>8. named \in SUBSET (1..Len(before))
    BY <2>6
  <2>9. ServerMap(hosts) = CHOOSE k \in named : \A l \in named : k >= l
    <3>1. ServerMap(hosts) = IF named = {} THEN 0 ELSE CHOOSE k \in named : \A l \in named : k >= l
      BY DEF ServerMap
    <3> HIDE DEF named
    <3>2. QED BY <2>7, <3>1
  <2>10. Answers("mongodb", hosts) = ServerMap(hosts)
    BY <2>5 DEF Answers
  <2>11. ServerMap(hosts) \in named
    <3> HIDE DEF named
    <3>1. \E k \in named : \A l \in named : k >= l
      BY <2>1, <2>7, <2>8, LastPosition
    <3>2. QED BY <2>9, <3>1
  <2>12. ServerMap(hosts) # 0 /\ servers[ServerMap(hosts)].hosts = hosts
    BY <2>1, <2>8, <2>11
  <2>13. QED BY <2>10, <2>12
<1>2. Inv => SplitNodesAnswer
  BY <1>1 DEF SplitNodesAnswer
<1>3. QED BY <1>2, InvHolds, PTL

-----------------------------------------------------------------------------
(***************************************************************************)
(* Types.                                                                  *)
(***************************************************************************)

\* No target holds more hosts, and there are no more targets, than hosts are asked for.
LEMMA Sizes ==
    ASSUME FixedInv, NEW us \in Seq(URIs)
    PROVE  /\ Len(us) <= Len(OfAll(flags, us))
           /\ \A n \in 1..Len(us) : Len(us[n].hosts) <= Len(OfAll(flags, us))
<1> DEFINE Good(vs) == /\ Len(vs) <= Len(OfAll(flags, vs))
                       /\ \A n \in 1..Len(vs) : Len(vs[n].hosts) <= Len(OfAll(flags, vs))
           S == {n \in Nat : \A vs \in Seq(URIs) : Len(vs) = n => Good(vs)}
<1>1. 0 \in S
  <2> SUFFICES ASSUME NEW vs \in Seq(URIs), Len(vs) = 0 PROVE Good(vs)
    OBVIOUS
  <2>1. vs = <<>> /\ Len(<<>>) = 0
    OBVIOUS
  <2>2. OfAll(flags, vs) = <<>>
    BY <2>1, OfAllEmpty
  <2>3. QED BY <2>1, <2>2
<1>2. ASSUME NEW n \in Nat, n \in S PROVE n + 1 \in S
  <2> SUFFICES ASSUME NEW vs \in Seq(URIs), Len(vs) = n + 1 PROVE Good(vs)
    OBVIOUS
  <2> DEFINE fore == SubSeq(vs, 1, n)
             u == vs[n + 1]
  <2>1. fore \in Seq(URIs) /\ u \in URIs /\ vs = Append(fore, u)
    <3>1. n + 1 \in 1..Len(vs) /\ (n + 1) - 1 = n
      OBVIOUS
    <3>2. SubSeq(vs, 1, n + 1) = vs
      BY SubSeqFull
    <3>3. SubSeq(vs, 1, (n + 1) - 1) \in Seq(URIs)
          /\ SubSeq(vs, 1, n + 1) = Append(SubSeq(vs, 1, (n + 1) - 1), u) /\ u \in URIs
      BY <3>1, SubSeqStep
    <3>4. QED BY <3>1, <3>2, <3>3
  <2> HIDE DEF fore, u
  <2>2. PICK old : old = fore /\ old \in Seq(URIs)
    BY <2>1
  <2>3. /\ Len(vs) = Len(old) + 1 /\ (\A k \in 1..Len(old) : vs[k] = old[k]) /\ vs[Len(old) + 1] = u
    BY <2>1, <2>2, AppendProperties
  <2>4. Len(old) = n
    BY <2>2, <2>3
  <2>5. Good(old)
    BY <1>2, <2>2, <2>4
  <2>6. OfAll(flags, old) \in Seq(Entry) /\ OfURI(flags, u) \in Seq(Entry)
        /\ OfAll(flags, vs) = OfAll(flags, old) \o OfURI(flags, u)
        /\ Len(OfURI(flags, u)) = Len(u.hosts) /\ Len(u.hosts) \in Nat \ {0}
    <3>1. OfURI(flags, u) \in Seq(Entry) /\ Len(OfURI(flags, u)) = Len(u.hosts)
      BY <2>1, OfURIType
    <3>2. n + 1 \in 1..Len(vs)
      OBVIOUS
    <3>3. Len(vs[n + 1].hosts) \in Nat \ {0}
      BY <3>2, HostsType
    <3>4. Len(u.hosts) \in Nat \ {0}
      BY <3>3 DEF u
    <3>5. QED BY <2>1, <2>2, <3>1, <3>4, OfAllAppend
  <2>7. Len(OfAll(flags, vs)) = Len(OfAll(flags, old)) + Len(u.hosts) /\ Len(OfAll(flags, old)) \in Nat
    <3>1. Len(OfAll(flags, old) \o OfURI(flags, u)) = Len(OfAll(flags, old)) + Len(OfURI(flags, u))
      BY <2>6, ConcatProperties
    <3>2. QED BY <2>6, <3>1
  <2>8. Len(vs) <= Len(OfAll(flags, vs))
    BY <2>4, <2>5, <2>6, <2>7
  <2>9. ASSUME NEW k \in 1..Len(vs) PROVE Len(vs[k].hosts) <= Len(OfAll(flags, vs))
    <3>1. CASE k = n + 1
      BY <2>3, <2>4, <2>6, <2>7, <3>1
    <3>2. CASE k \in 1..n
      <4>1. Len(vs[k].hosts) <= Len(OfAll(flags, old)) /\ k \in 1..Len(vs)
        BY <2>3, <2>4, <2>5, <3>2
      <4>2. Len(vs[k].hosts) \in Nat
        BY <4>1, HostsType
      <4>3. QED BY <2>6, <2>7, <4>1, <4>2
    <3>3. QED BY <3>1, <3>2
  <2>10. QED BY <2>8, <2>9
<1>3. Nat \subseteq S
  <2> HIDE DEF S
  <2>1. QED BY <1>1, <1>2, NatInd
<1>4. Len(us) \in S
  <2> HIDE DEF S
  <2>1. QED BY <1>3
<1>5. QED BY <1>4

\* What one target must be for TypeOK.
Typed(u) == u.scheme \in Schemes \ {"none"} /\ u.user \in UserKinds /\ u.hosts \in ManyHosts

\* URIs of at most twice as many hosts as elements are of the type.
LEMMA URITyped ==
    ASSUME NEW u \in URIs, Len(u.hosts) <= 2 * MaxList
    PROVE  Typed(u)
<1>1. /\ u.scheme \in {"mongodb", "mongodb+srv"} /\ u.user \in {"none", "uri"}
      /\ u.hosts \in Seq(AllHosts) \ {<<>>}
  BY DEF URIs
<1>2. Len(u.hosts) \in 1..2 * MaxList
  <2>1. Len(u.hosts) \in Nat \ {0}
    BY <1>1
  <2>2. QED BY <2>1, TargetsAssumption
<1>3. u.hosts \in [1..Len(u.hosts) -> Hosts \cup Resolved]
  BY <1>1 DEF AllHosts
<1>4. u.hosts \in ManyHosts
  BY <1>2, <1>3 DEF ManyHosts
<1>5. QED BY <1>1, <1>4 DEF Typed, Schemes, UserKinds

\* Targets that serve no more hosts than are asked for have types, and there are few enough.
LEMMA AllTyped ==
    ASSUME FixedInv, NEW us \in Seq(URIs), NEW m \in 0..Len(list),
           OfAll(flags, us) = WantedTo(m)
    PROVE  Len(us) <= 2 * MaxList /\ \A n \in 1..Len(us) : Typed(us[n])
<1>1. Len(OfAll(flags, us)) <= 2 * MaxList /\ Len(OfAll(flags, us)) \in Nat
  <2>1. Len(WantedTo(m)) <= 2 * m /\ WantedTo(m) \in Seq(Entry)
    BY WantedLen
  <2>2. Len(WantedTo(m)) \in Nat
    BY <2>1
  <2>3. m <= MaxList /\ m \in Nat
    BY TargetsAssumption DEF FixedInv
  <2>4. 2 * m <= 2 * MaxList
    BY <2>3, TargetsAssumption
  <2>5. QED BY <2>1, <2>2, <2>3, <2>4, TargetsAssumption
<1>2. Len(us) \in Nat /\ Len(us) <= Len(OfAll(flags, us))
  <2>1. Len(us) \in Nat
    OBVIOUS
  <2>2. QED BY <2>1, Sizes
<1>3. ASSUME NEW n \in 1..Len(us) PROVE Typed(us[n])
  <2>1. us[n] \in URIs /\ Len(us[n].hosts) \in Nat
    BY HostsType
  <2>2. Len(us[n].hosts) <= Len(OfAll(flags, us))
    BY Sizes
  <2>3. Len(us[n].hosts) <= 2 * MaxList
    BY <1>1, <2>1, <2>2, TargetsAssumption
  <2>4. QED BY <2>1, <2>3, URITyped
<1>4. QED BY <1>1, <1>2, <1>3, TargetsAssumption

\* So are those of one host.
LEMMA SinglesTyped ==
    ASSUME FixedInv, NEW us \in Seq(URIs), \A n \in DOMAIN us : Single(us[n])
    PROVE  \A n \in 1..Len(us) : Typed(us[n])
<1> SUFFICES ASSUME NEW n \in 1..Len(us) PROVE Typed(us[n])
  OBVIOUS
<1>1. us[n] \in URIs /\ Len(us[n].hosts) = 1
  BY DEF Single
<1>2. 1 <= 2 * MaxList
  <2>1. MaxList \in Nat /\ MaxList >= 1
    BY TargetsAssumption DEF FixedInv
  <2>2. QED BY <2>1
<1>3. QED BY <1>1, <1>2, URITyped

\* The targets in a sequence are those at its positions.
LEMMA RangeTyped ==
    ASSUME NEW S, NEW us \in Seq(S), \A n \in 1..Len(us) : Typed(us[n])
    PROVE  \A u \in Range(us) : Typed(u)
BY DEF Range

\* The variables keep their types: no URI has more hosts than the command line can ask for, and
\* at most one cluster is still open.
THEOREM TypeCorrect == Spec => []TypeOK
<1>1. ASSUME Inv PROVE TypeOK
  <2> DEFINE All == realURI \cup Range(uris) \cup Range(before) \cup Range(servers)
  <2>0. FixedInv /\ Len(list) \in Nat /\ Len(list) <= MaxList /\ MaxList \in Nat /\ MaxList >= 1
    BY <1>1, TargetsAssumption DEF Inv, FixedInv
  <2>1. Range(<<>>) = {} /\ <<>> \in Seq(URIs) /\ Cardinality({}) = 0 /\ 0 <= 1
    BY FS_EmptySet DEF Range
  <2>2. CASE phase = "read"
    <3>0. ReadInv
      BY <1>1 DEF Inv
    <3>1. /\ i \in 1..Len(list) + 1 /\ uris \in Seq(URIs) /\ before = <<>> /\ servers = <<>>
          /\ realURI \subseteq URIs /\ \A u, v \in realURI : u = v
          /\ OfAll(flags, Flushed) = WantedTo(i - 1)
      BY <1>1, <2>2 DEF Inv, ReadInv
    <3>2. i - 1 \in 0..Len(list) /\ i \in 1..2 * MaxList + 1
      BY <2>0, <3>1
    <3>3. Flushed \in Seq(URIs)
      BY <2>2, <3>0, FlushedIs
    <3>4. \A n \in 1..Len(Flushed) : Typed(Flushed[n])
      BY <2>0, <3>1, <3>2, <3>3, AllTyped
    <3>5. \A u \in Range(Flushed) : Typed(u)
      BY <3>3, <3>4, RangeTyped
    <3>6. Range(uris) \cup realURI \subseteq Range(Flushed) /\ Cardinality(realURI) <= 1
      <4>1. CASE realURI = {}
        BY <2>1, <4>1 DEF Flushed
      <4>2. CASE realURI # {}
        <5>1. PICK u \in realURI : realURI = {u} /\ Flushed = Append(uris, u)
          BY <2>2, <3>0, <4>2, FlushedIs
        <5>2. /\ Len(Flushed) = Len(uris) + 1 /\ Flushed[Len(uris) + 1] = u
              /\ \A k \in 1..Len(uris) : Flushed[k] = uris[k]
          BY <3>1, <5>1, AppendProperties
        <5>3. DOMAIN Flushed = 1..(Len(uris) + 1) /\ DOMAIN uris = 1..Len(uris) /\ Len(uris) \in Nat
          BY <3>1, <3>3, <5>2
        <5>4. Cardinality({u}) = 1
          BY FS_Singleton
        <5>5. QED BY <5>1, <5>2, <5>3, <5>4 DEF Range
      <4>3. QED BY <4>1, <4>2
    <3>7. \A u \in All : Typed(u)
      BY <2>1, <3>1, <3>5, <3>6
    <3> HIDE DEF All
    <3>8. QED BY <1>1, <2>0, <2>2, <3>2, <3>6, <3>7 DEF TypeOK, Typed, All, FixedInv
  <2>3. CASE phase \in {"split", "exit"}
    <3>1. /\ realURI = {} /\ servers = <<>> /\ uris \in Seq(URIs) /\ before \in Seq(URIs)
          /\ i \in 1..Len(before) + 1 /\ OfAll(flags, before) = Wanted
          /\ \A n \in DOMAIN uris : Single(uris[n])
      BY <1>1, <2>3 DEF Inv, SplitInv, ExitInv
    <3>2. Wanted = WantedTo(Len(list)) /\ Len(list) \in 0..Len(list)
      BY <2>0, WantedWhole
    <3>3. Len(before) <= 2 * MaxList /\ \A n \in 1..Len(before) : Typed(before[n])
      BY <2>0, <3>1, <3>2, AllTyped
    <3>4. i \in 1..2 * MaxList + 1
      <4>1. Len(before) \in Nat
        BY <3>1
      <4>2. QED BY <2>0, <3>1, <3>3, <4>1
    <3>5. \A n \in 1..Len(uris) : Typed(uris[n])
      BY <2>0, <3>1, SinglesTyped
    <3>6. (\A u \in Range(uris) : Typed(u)) /\ \A u \in Range(before) : Typed(u)
      BY <3>1, <3>3, <3>5, RangeTyped
    <3>7. \A u \in All : Typed(u)
      BY <2>1, <3>1, <3>6
    <3>8. Cardinality(realURI) <= 1
      BY <2>1, <3>1
    <3> HIDE DEF All
    <3>9. QED BY <1>1, <2>0, <2>3, <3>4, <3>7, <3>8 DEF TypeOK, Typed, All, FixedInv
  <2>4. CASE phase \in {"build", "serve"}
    <3>1. /\ realURI = {} /\ uris = <<>> /\ before \in Seq(URIs)
          /\ i \in 1..Len(before) + 1 /\ OfAll(flags, before) = Wanted
          /\ Len(servers) = i - 1 /\ servers \in Seq(Range(servers))
          /\ \A n \in 1..(i - 1) :
                /\ servers[n].scheme = before[n].scheme
                /\ servers[n].hosts = before[n].hosts
                /\ servers[n].user = Given(flags, before[n].user)
      BY <1>1, <2>4 DEF Inv, BuildInv
    <3>2. Wanted = WantedTo(Len(list)) /\ Len(list) \in 0..Len(list)
      BY <2>0, WantedWhole
    <3>3. Len(before) <= 2 * MaxList /\ Len(before) \in Nat /\ \A n \in 1..Len(before) : Typed(before[n])
      <4>1. Len(before) \in Nat
        BY <3>1
      <4>2. QED BY <2>0, <3>1, <3>2, <4>1, AllTyped
    <3>4. i \in 1..2 * MaxList + 1
      BY <2>0, <3>1, <3>3
    <3>5. ASSUME NEW n \in 1..Len(servers) PROVE Typed(servers[n])
      <4>1. n \in 1..(i - 1) /\ n \in 1..Len(before)
        BY <3>1, <3>3
      <4>2. before[n] \in URIs /\ Typed(before[n])
        BY <3>1, <3>3, <4>1
      <4>3. Given(flags, before[n].user) \in UserKinds
        <5>1. Given(flags, before[n].user) \in Credentials
          BY <2>0, <4>2, OfURIType
        <5>2. QED BY <5>1 DEF Credentials, UserKinds
      <4>4. /\ servers[n].scheme = before[n].scheme
            /\ servers[n].hosts = before[n].hosts
            /\ servers[n].user = Given(flags, before[n].user)
        BY <3>1, <4>1
      <4>5. QED BY <4>2, <4>3, <4>4 DEF Typed
    <3>6. (\A u \in Range(servers) : Typed(u)) /\ \A u \in Range(before) : Typed(u)
      BY <3>1, <3>3, <3>5, RangeTyped
    <3>7. \A u \in All : Typed(u)
      BY <2>1, <3>1, <3>6
    <3>8. Cardinality(realURI) <= 1
      BY <2>1, <3>1
    <3> HIDE DEF All
    <3>9. QED BY <1>1, <2>0, <2>4, <3>4, <3>7, <3>8 DEF TypeOK, Typed, All, FixedInv
  <2>5. QED BY <1>1, <2>2, <2>3, <2>4 DEF Inv
<1>2. QED BY <1>1, InvHolds, PTL

=============================================================================
