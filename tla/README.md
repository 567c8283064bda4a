# Specifications of mongodb_exporter

TLA+ modules that model the core of Percona's mongodb_exporter, TLC configurations
that check them on small instances, and proofs that TLAPS checks for instances of
every size. All names of files and lines are relative to the repository's root.

`tlc -config X.cfg M` checks a run (module and configuration of each run are in
`PROJECT.json`); `tlapm X_proofs.tla` checks the proofs of a module. There are eight
modules of proofs: seven named for the module they are about, and `SequenceLemmas`, which
two of them use.

## The system

The exporter is an HTTP server. The command line gives it targets, each a MongoDB
node or cluster; for each it builds an `Exporter`. A scrape asks one Exporter, or all
of them one after another, to connect, to find out what kind of node is there, to
build a fresh registry of collectors, and to write what they collect.

| component | code | state | operations | module |
|---|---|---|---|---|
| Exporter | `exporter/exporter.go` | `e.client`, `e.clientMu`, `e.totalCollectionsCount`, `e.lock`, `e.opts` | New's goroutine, `getClient`, `connect`, `Handler`, `makeRegistry` | `Exporter`, `ClientPool` |
| Registration and gathering | `exporter/base_collector.go` | `metricsCache`, the channels of metrics and of descriptors | `Describe`, `collect`, `Collect`, MustRegister, Gather | `BaseCollector`, `Registration` |
| Targets | `main.go`, `exporter/seedlist.go`, `buildServerMap` of `exporter/server.go` | the list of URIs, the exporters, the map from hosts to handlers | `parseURIList`, `GetSeedListFromSRV`, `buildExporter`, lookup of `?target=` | `Targets` |
| Namespace collectors | `exporter/common.go` and collstats, indexstats, dbstats, profile | the lists they have found, the server's collections | listing with filters, one query per item | `Namespaces` |
| Command collectors | general, fcv, top, currentop, replica set status and configuration, diagnosticdata, shards, pbm | what has been asked and answered | one call after another | `Commands` |
| Topology labels | `exporter/topology_info.go`, `internal/util` | the labels of a scrape | `loadLabels`, `getNodeType`, `getClusterRole`, `ClusterID` | `Commands` |
| /scrapeall | `exporter/server.go`, `exporter/gatherer_wrapper.go` | one client and one registry per target | the loop over targets, the merge, the deferred calls | `Scrapeall`; what concurrent requests share in `Exporter` |
| Documents to metrics | `exporter/metrics.go`, the blocks of `diagnostic_data_collector.go` | the labels handed down the walk | the walk over a document, names and labels | `Naming`, `MetricTree` |
| Names of v1 | `exporter/v1_compatibility.go` | none | tables, locks, sums, extra calls | `CompatV1`, `MetricTree`; the calls in `Commands` |

How they interact. `RunWebServer` hands every request to an Exporter of `Targets`.
`Handler` (or the loop of /scrapeall) gets a client, `newTopologyInfo` loads labels
with it, `makeRegistry` asks for the type of the node again and registers collectors
one by one. Registering a collector runs its `Describe`, which runs its whole
`collect` and caches the metrics; gathering replays the caches. So the calls to the
server happen while registering, in the order of `makeRegistry`, under the deadline
of the scrape. Scrapes run concurrently and share the Exporter's fields.

What is hard in it:

* `e.opts` is shared by all scrapes; `makeRegistry` writes flags into it (--collect-all,
  arbiters) and reads them again, without a lock and without ever restoring them.
* `e.client` is built lazily by whoever comes first, under a mutex that is held over
  network calls, some of which no deadline of a scrape bounds.
* Clients of a scrape's own must be disconnected on every way out, the panic of
  MustRegister included; the shared one never.
* Deadlines pass at any point; a collector out of time is registered and silent.
* Any call to the server may fail. Some failures cost a metric, some a database, some
  the collector, some the whole scrape.
* The node changes: its role, its collections, its views.
* Parsing of the command line keeps a buffer through four kinds of elements.
* One response of /scrapeall holds what many targets found, told apart by one label;
  the calls that clean up after all of them wait for the last.
* Documents are walked in Go's random order of maps, with labels that are handed down
  one recursion by reference; some hundred rows of tables then rename what comes out,
  and one name with two helps or two sets of labels costs the whole scrape.

`PROJECT.json` lists these hazards line by line with the properties that cover them.

## The modules

### Exporter

A scrape slot goes through `pc` = idle, lock, pingShared, connect, ping, readCount,
list, storeCount, nodeType, general, limits, enable, disable, register, serve (or
panic), idle; New's goroutine `Boot` goes through `getClient` only. Every read or write
of shared state is a step of its own, and so is every wait for the server on which what is
shared, or what is served, depends. The calls of `newTopologyInfo` (but for the type of the
node, which `GetNodeType` asks for) and of `buildInfo` are not steps here: they write nothing
that scrapes share, and what their failures cost is in `Commands`.

| variable | code |
|---|---|
| `opts` | the flags of `e.opts` that are true, `EnableX` and `DiscoveringMode` |
| `client`, `clientMu` | `e.client` (named by the process that built it), `e.clientMu` |
| `total` | `e.totalCollectionsCount`, -1 at first |
| `open` | the clients connected and not disconnected, by who connected them |
| `mine`, `req` | the local variables of each handler: its client, its options, whether its deadline has passed, the type of the node it saw, what it has registered |
| `node`, `colls` | the environment: the role of the node, the number of collections |

The condition of each `if` in `makeRegistry` is one table: `Limited`, `NotOnMongos`,
`OnlyOnMongos`, `Unfiltered`, `Discovered`, and `Gate`. The two blocks that write
`e.opts` assign one flag at a time, so that scrapes interleave between two of them.

Properties. `PoolsAccounted`: every connected pool has an owner that will use or close
it. `OneSharedPool`: the global pool is built once. `LeasedIsOpen`: nobody works with a
disconnected client. `MeantServed`: what a scrape serves is what the command line, the
filters of the request, the limit and the node it saw call for (`Meant`, in which `e.opts`
and its copy do not occur), whatever other scrapes write into `e.opts`, but for two losses
that the property delimits: flags that the scrape of an arbiter has cleared
(`LostToArbiters`), and under --collect-all what an unfiltered request copied before its
flag was set (`LostToCopy`), which must have its flag by the time of the response, so that
the next request does not lose it again. The first loss is what `doc_topology` shows, the
second what `doc_collect_all` shows.
`ArbiterAskedOnlyItsOwn`: without --collect-all an arbiter is not asked for what it denies. `AllEnd`: each scrape
ends. `NothingSilentlyMissing`, that a response lacks metrics of a registered collector only
where there is a client and the deadline has passed, is proved and belongs to no run: the
refinement of `Registration`, which the runs check, has it as a consequence.

`ClientPool` says in four actions what a scrape may expect of its client: install the
shared one once, borrow it, take one's own, return it. `ImplementsClientPool` is the
refinement: `pool` is `client`, `lease` is `mine`, and `live` the open clients but for
those still being pinged and for the one New's goroutine drops.

### BaseCollector

The scrape's goroutine, Describe's, collect's and the registry's channel for two
collectors that are registered one after the other. `Describe` skips everything when
the deadline has passed and there is a client. `ServedIsCollected`: the response holds
what one `collect` sent, all of it, once, in order. `NothingSilentlyMissing`: a
collector with no metrics means a client and a deadline that has passed; as in `Exporter`
it follows from `Registration`, and is proved.
`ScrapeEnds`: whatever the registry refuses, no goroutine stays behind. This module
justifies what Exporter abstracts to `cached` and to the step to `panic`; `Registration`
says so in one formula for both.

### Registration

What filling a registry comes to, for those who need not know how. A collector is registered at
most once, and with metrics unless there is a client and the time is over (`RegisterOne`);
the registry is complete and will be gathered as it is (`Complete`), or it refused a collector and
nothing of it will be (`RefuseAll`); the next one is empty (`Renew`). Three modules describe
the code at three grains, and each implements it (`ImplementsRegistration`):

| module | one registry | `registered` and `cached` | `late` |
|---|---|---|---|
| `BaseCollector` | of the one scrape | those neither waiting nor at work; those with a cache that is not empty | `client /\ expired` |
| `Exporter` | of each concurrent scrape | what `makeRegistry` has registered; those that hold metrics | the scrape's deadline has passed and it has a client |
| `Scrapeall` | of each target | the target's two collectors, as far as `step` has come; those with a series of theirs in `cached` | the target has a client and its context is done |

So what `Exporter` and `Scrapeall` do in one step, register a collector with its metrics, is
what the goroutines of `BaseCollector` come to.

### Targets

`--mongodb.uri` as a list of elements, each with a scheme or none, credentials or none,
and a host with a port or without; the loop of `parseURIList` with its buffer
`realURI`, the flush at the end, --split-cluster with SRV records, `buildExporter`,
and the map /scrape looks targets up in. A host that continues a cluster has no credentials of its
own, as no URI can hold them there; one that stands alone may (main_test.go:148). `EveryHostServed`: no host is lost, repeated or
given another one's credentials. `ClustersTogether`: an element shares the target of
the one before it exactly if it has no scheme and one stands before it (README.md:123). The hosts
after a `mongodb+srv://` are left out of it: README.md:124-126 shows them as part of the cluster,
the code makes each a target of its own (main.go:239-243). The code's own rule, by which only
`mongodb://` begins a cluster, is `GroupedByRule`, which is proved, and no claim that the code is right.
`SplitNodesAnswer`: with --split-cluster, each node is found under its own name.

A string of hosts parses as a URL unless its last host has no port and an earlier one
has; this is how the tests (main_test.go:79-83) use it. A stricter parser only makes more
strings fail, and no property of this module depends on such strings.

### Namespaces

One collect function at a time, on a server whose collections appear, disappear and
become views between two calls, each of which may fail. `mode` picks the function.
Filters are pairs of a database and a pattern; that a pattern is found in a name is a
relation. `CalmServesAsked`: undisturbed, the function serves exactly what was asked
for. `OneFailureLosesOne`: in dbstats a database that fails costs its own metrics only.
`SeriesDistinct`: overlapping filters do not repeat a series. `LabelsAgree`: all metrics
of a function have the same labels, which MustRegister insists on.

### Commands

The other collect functions, and the loading of labels, as programs: a sequence of
calls, and for each what the code does when the call fails, and when the answer is not
what it expects (go on, say so in the metric, give up the group, return, send an
invalid metric). The steps run the program: a call is answered, fails, answers
nonsense, or hangs until the deadline. An answer may give rise to more calls: shards
finds collections for each database and counts the chunks of each; mongosMetrics asks
each database for its statistics. `EndsByDeadline`: past the deadline a function ends, or
hangs in one of the two calls that do not go by its context. `RefusalsEarned`: of the
failures and the odd answers of calls, only those of fcv, top and currentop can cost the
whole scrape; the invalid metrics that `makeMetrics` itself makes of a document's values are
not among them (`RegistryAccepts` of `MetricTree` names those). `ShardedServed`, `ArbiterServed`: what a
failure must not cost.

### Scrapeall

One request to /scrapeall, from its first target to its last deferred call. For each
exporter in turn the handler makes a context (`BeginTarget`), asks for a client
(`GetClient`: a shared client that is there is pinged, `PingShared`; otherwise a pool is built,
whether or not the context is done, `Connect`, and pinged, `PingNew`, and closed again if it does
not answer), registers the collectors, which collect (`Register`), and wraps the registry (`Wrap`); after the last target the registries are gathered and merged in order
(`Merge`), and the deferred calls run, last one first (`RunDeferred`). A registry may
refuse a collector (`Refuse`): the panic goes straight to the deferred calls.

| variable | code |
|---|---|
| `shared`, `built` | GlobalConnPool; the exporters whose `e.client` is set |
| `ctx` | the context of each target: none, live, late, left (the caller has gone), cancelled |
| `mine`, `open` | the client of each target; the targets whose client is connected |
| `deferred` | the stack of `defer` statements, each with the target it captured |
| `cached`, `doubled` | what the registry of a target holds; whether gathering it is an error |
| `gatherers`, `merged`, `response` | `gatherers`; how far the merge is; the series written |
| `version`, `gone` | environment: the server behind a target; whether the caller has gone |

A target has two collectors: general, whose `mongodb_up` is served without a client too,
and one other, whose help text depends on the server's version. `GathererWrapped` drops
every metric of a target with an error. `Gatherers.Gather` of client_golang keeps the
first of two series with one name and one set of labels, and the first help of a name.

`EveryTargetReports`: a target in time, with a name of its own and a registry without
errors, shows `mongodb_up` whatever the others do, and its data unless a server of
another generation came before. `Attributed`: a series bears its own target's name, and
an instance that is up had a client. It does not say that a name stands for one target, which is
false of targets that share one: if the first of them has no client, the response shows its
`mongodb_up` 0 and the data of the second under one label. What holds is that the order
of the list decides each series: a target shows one only where no earlier target of its name
had one of that family and help.
`PoolsBalanced`: pools are open while they are used, and at the end exactly the shared
ones are. `NothingForTheGone`: once the caller has gone no target gets a client, but for a first
shared one, and no collector asks a server. A pool may be opened even then (exporter.go:438), as
`mongo.Connect` does not wait for a server; its ping fails and it is closed.

### Naming, CompatV1 and MetricTree

`makeMetrics` and what it calls. A document is a function from the paths of its leaves
to their values; a step into an array is a position. A name is a sequence of words,
which is all that `prometheusize` leaves of a path; so keys that differ in special
characters only are one name here, as in the code. The recursion is a stack of frames,
each a map or an array with the prefix, the labels and the keys that are left. Maps are
taken in any order, arrays in theirs.

`phase` is read (the blocks of MongoDB 8 are merged), walk, locks, sums, end or crashed.
In a walk a key is skipped (`SkipHistogram`), served (`ServeValue`), served as a list of
buckets (`ServeBuckets`) or entered (`Descend`); a member of an array first changes the
labels all members share (`NextMember`). `Naming` has the rules that shorten names, the
tables of labels and the types; `CompatV1` the tables of version 1 as rows and how a row
applies. Row by row they are the code's, dead rows included. `With` gives one label a
value, as `labels[name] = value` does in the code; `Namespaces` uses an operator like it.

`EveryNumberServed`: whatever order the maps are walked in and however the answer is cut
into blocks, each number comes out. `MembersTold`: a member of an array bears its own
name and state. `RegistryAccepts`: no metric is invalid but for a value `asFloat64` does not
know (`OneValueEach`), and no two metrics of a document clash in help, labels or
type but for four named reasons (keys spelled alike; members without a name; a server
that answers both at the old and the new place; a row with another row's labels).
`CallerLabelsKept`: the labels of the node and the namespace are on every metric but
those that get a row's own. `DiesOfNoNumber`: the one panic needs a text or an array
where MongoDB has a number.

## The runs

| run | instance | distinct states | what it shows |
|---|---|---|---|
| `shared_pool` | 2 scrapes to /metrics or /scrapeall and Boot, global pool, fairness | 135 000 | one pool, never closed under a user; ClientPool is implemented; every scrape ends |
| `collect_all` | --collect-all, 2 collectors, limit 2, 2 or 3 collections, filtered or not | 4 350 000 | concurrent writers of `e.opts` cost a scrape nothing but what it copied too early (`MeantServed`); the count of collections settles |
| `arbiter` | 2 scrapes with pools of their own, 3 collectors of which one may be refused, discovery, a node that is a mongos or an arbiter | 1 249 000 | pools are accounted for on every way out; nothing an arbiter denies is asked of it; Registration is implemented, so nothing is silently missing |
| `base_collector` | 2 collectors, up to 2 metrics each and the time, a channel of 1 | 2 600 | the pipeline loses, repeats and blocks nothing; Registration is implemented |
| `targets` | every list of up to 3 elements over 2 hosts, 2 resolved hosts | 1 101 000 | parsing: every host served once, in order, with its credentials; clusters as documented; split nodes found |
| `namespaces` | 5 namespaces in 3 databases, 5 filters, 1 change of the server | 604 000 | what is listed, asked and served |
| `commands` | all 10 functions, 3 roles, 3 sharded collections | 11 400 | what failures and deadlines cost |
| `scrapeall` | 3 targets of which the first 2 have one name, servers of 2 generations, with and without the global pool | 1 774 000 | what one target costs the others, and the end of the request; Registration is implemented for each target |
| `documents` | a path for each row of the tables and all pairs of them; replica set status and configuration, collStats, dbStats, histograms, MongoDB 8's blocks, locks and sums with values of every kind | 131 600 | what is served of a document, and that the registry takes it |

The remaining runs state what a comment or a document says, and end in a behaviour of
the code that contradicts it:

* `doc_collect_all`: main.go:74 says --collect-all enables all collectors. An unfiltered
  request copies `e.opts` before `makeRegistry` sets the flags, so the first scrape
  serves nothing but what the command line names one by one.
* `doc_topology`: exporter.go:362 says that the topology is read again for each request
  because it can change. The flags cleared for an arbiter are never set again.
* `doc_shards`: README.md:179 shows a collection under its own database. The pattern
  `^app.` also finds the collections of a database `app2`, which are served as
  collections of `app`.

Divergences that were met and have no run: only `Handler` counts the collections
(exporter.go:332), so an exporter that /scrapeall alone asks never knows their number, -1, which
passes the limit that main.go:76 promises for four collectors; without the global pool New's goroutine leaves a pool connected that
belongs to no request (main.go:47); under --collect-all a concurrent scrape sets again
what another has cleared for an arbiter (exporter.go:179); hosts after a
`mongodb+srv://` element are targets of their own (README.md:123); a cluster whose last
host alone has no port is in no map and cannot be found by /scrape (README.md:119);
`mongodb_mongos_sharding_chunks_is_balancer_running` is 1 when no balancing round is
running (v1_compatibility.go:1180); REFERENCE.md:9 lets a list of namespaces name a whole
database, which without discovery is dropped (common.go:181). In /scrapeall the flag
--no-collector.exporter-metrics has no effect (server.go:117, main.go:60), targets of one
name are told apart by nothing: of each series the first that has it is shown, so one label may hold
the metrics of several servers; and of servers of two versions the later ones lose the
families whose help differs.

In the conversion of documents: the comment at v1_compatibility.go:78-90 explains rows by
an idhack example the row does not convert, as only suffixes in `suffixMapping` are
converted, so that rows without one never apply; the rows with `[rw]` and
`[resident|virtual]` match no name, nor do those for `totalCreated`, which is a label by
then, and for `mongodb_ss_metric_document`; the rule for
`local.oplog.rs.stats.storageStats` stands behind one that applies first; the second row of
`lockMetrics` has the labels of another lock (v1_compatibility.go:690); the rows for
checkpoints and tickets clash for a server that answers at the old place and the new one;
metrics that special conversions and prefixes make have no labels of the topology; a value
that is null, or of a type `asFloat64` does not know, becomes an invalid metric; of a key
that several blocks of MongoDB 8 have, the one visited last is served;
`sumMetrics` dereferences nil for a text or an array.

### Bounds

Two scrapes and New's goroutine are three contenders for the mutex, the client and the
flags; each slot serves one scrape after another for ever, so a scrape also meets what
earlier ones left behind. All races named in the hazards need two actors. Collectors
are chosen by the rows of the table in `makeRegistry` they exercise. Symmetry between
scrape slots is used only in runs without liveness. Lists of three elements contain a
cluster with something before or after it, and a cluster of three. In `Namespaces`
one database has two names of which one is part of the other, one a system name, and
one database is a system database; one change of the server is enough to make
a listing stale. In `commands` one database's name begins with the other's.
`MaxList`, `MaxMetrics` and `MaxChanges` are bounds of the models; `DescBuffer` stands
for the capacity of the registry's channel.

In `scrapeall` the third target comes after two that share a name, so that it must be
unharmed by a clash, a slow target and a panic alike. In `documents` a clash needs two
values, and every pair of paths that rows match is a document; the rows that can match
no name are left out by `Nameable`, which names them. Arrays have two members: what the
second keeps of the first is all that a later one could keep.

CHECK_DEADLOCK is off where a run describes a single pass that ends: `targets`,
`namespaces`, `commands` and `doc_shards`. In the others deadlock is checked; `scrapeall`
and `documents`, which end too, say by a step `Ended` where they may.

### Fairness

In `Exporter` a process that can take a step of its own does (`WF`): calls to the server
return, by their context, by the timeouts of connecting, or with an answer. The wait
for `e.clientMu` has strong fairness, because a sync.Mutex hands the lock over to a
waiter that starves. Requests need not arrive, deadlines need not pass, the server need
not change. In `BaseCollector` goroutines that can go on do, and a `collect` ends.

Where calls need not return is the subject of `Commands`: there a call may hang, and
only a call that goes by the context is sure to fail after the deadline. The exceptions
are the chunks of a collection (shards_collector.go:194) and the statistics of a
database (v1_compatibility.go:1343); for scrapes with shards, or with compatible mode on
a mongos, `AllEnd` and `ScrapeEnds` therefore assume that the server answers these.

## The proofs

Every theorem is about `Spec`, without fairness, and holds for every value of the
constants the named assumptions allow. The assumptions are those each module states: the
types of the options and that `None` and `Boot` are nobody else's names; in
`Targets` that no host the resolver answers with is also on the command line; in `Namespaces` that the server is finite, that a namespace is a pair of names, and
that a filter is a namespace or a whole database; in `Commands` that databases and sharded
collections are finite and each collection is of one of the databases; in `Scrapeall` that
there is a target; in `MetricTree` that documents are documents (`IsDocument`: what has a value has nothing below
it; a map and an array are told apart by their keys, as positions in arrays are no names; a
bucket of a histogram has a lower bound and a count and no more), that the blocks of MongoDB 8
are maps, and that the labels of the caller have one value each and are none that the walk gives or
a row of version 1 renames. In
each module TLC evaluates them in a run.

### Exporter_proofs: the clients

| theorem | statement |
|---|---|
| `TypeCorrect` | `Spec => []TypeOK` |
| `PoolCorrect` | `Spec => []PoolInv`, the inductive invariant |
| `OneSharedPoolCorrect` | `Spec => []OneSharedPool` |
| `LeasedIsOpenCorrect` | `Spec => []LeasedIsOpen` |
| `PoolsAccountedCorrect` | `Spec => []PoolsAccounted` |
| `ImplementsClientPoolCorrect` | `Spec => ImplementsClientPool` |

None of the three properties is inductive: that a new client is the only shared one
follows only if whoever connects holds the mutex, and that a lease is open only if
nobody but its owner closes it. `PoolInv` is the conjunction of `LockInv` (who is
between the lock and the unlock holds `clientMu`), `SharedInv` (a shared client is open;
while someone connects there is none) and `LeaseInv` (a lease is of the shared client or
of one's own, and open; an open client is being pinged, shared, leased or Boot's).
The proof has a lemma per action of `getClient` and of the handler; the return of
`getClient`, which three of them share, is the lemma `Returned`. Steps that touch none
of these variables are done at once by `QuietStep`. The refinement has again a lemma per
action: connecting maps to a stutter, a successful ping to Install or TakeOwn, the ping
of the shared client to Borrow, the end of a scrape to Return.

### Exporter_proofs: what a scrape serves

| theorem | statement |
|---|---|
| `ServedCorrect` | `Spec => []ServedInv`, the inductive invariant |
| `MeantServedCorrect` | `Spec => []MeantServed` |
| `ArbiterAskedOnlyItsOwnCorrect` | if not `CollectAll`, `Spec => []ArbiterAskedOnlyItsOwn` |
| `NothingSilentlyMissingCorrect` | `Spec => []NothingSilentlyMissing` |

What a scrape serves depends on when it read which flag, and the flags are everybody's.
`OptsInv` is what holds of them whoever writes when: they lie between what the command
line set, less what an arbiter's scrape clears, and what may ever be set. The other parts
say of each scrape how far it has come: `CachedInv` (in time, what is registered is
cached), `BlocksInv` (the flags it has set, and those left to do), `RegistryInv` (nothing
but what is meant is registered, and all of that but the two losses and the rest to do),
`CopyInv` (an unfiltered request has copied what the command line names and no arbiter
clears and, when no flag is set again, all that is set still) and `ArbiterInv`. The
last one needs that nobody sets a flag again; under --collect-all others do, and the
property is false, as the divergences tell. So the theorem assumes `~CollectAll`.

### Exporter_proofs: the registry and the count

| theorem | statement |
|---|---|
| `FillingCorrect` | `Spec => []FillingInv`, the inductive invariant of a registry in the making |
| `ImplementsRegistrationCorrect` | `Spec => ImplementsRegistration` |
| `CountSettlesCorrect` | `Spec => CountSettles` |

A second MustRegister of one collector would panic. That makeRegistry never comes to it is not
written anywhere in it: `FillingInv` says of each scrape that the collectors left to try are none of those
registered, and that a slot that waits for a request has no deadline behind it. With it, each
step of `makeRegistry` is a step of `Registration`: RegisterOne for a collector that passes its
gate, RefuseAll for the panic, Complete and Renew for the end and the next request, a stutter for
all else. What other scrapes do to `e.opts` meanwhile decides which collectors are registered and never
how. TimeIsOver maps to two things, a deadline that passes with a client there and a client that
comes after the deadline. `CountSettles` is an action property and needs no more than the types: a count is
wanted only while there is none, so once it is positive the set `Counting` can only shrink.

### BaseCollector_proofs: the pipeline

| theorem | statement |
|---|---|
| `BaseCorrect` | `Spec => []BaseInv`, the inductive invariant |
| `ServedIsCollectedCorrect` | `Spec => []ServedIsCollected` |
| `NothingSilentlyMissingCorrect` | `Spec => []NothingSilentlyMissing` |
| `BaseTypeCorrect` | `Spec => []TypeOK` |
| `ImplementsRegistrationCorrect` | `Spec => ImplementsRegistration` |

For any number of collectors and metrics and any capacity of the channel. `PhaseInv`
relates the goroutines of one registration, without which a cache could still grow while
it is replayed; `CacheInv` says that the cache is what was sent, `ReplayInv` that what was
replayed is the beginning of the cache, `DoneInv` that who is done has sent something or
had no time. That no cache outgrows what a collect sends (`LengthInv`) needs these first. In the refinement
one step of `Registration` stands for all steps of three goroutines: a collector is registered when
MustRegister returns (`EndRegister`), and `DoneInv` is why it holds metrics by then.

### Scrapeall_proofs: a request for all targets

| theorem | statement |
|---|---|
| `ScrapeallTypeCorrect` | `Spec => []TypeOK` |
| `BalanceCorrect` | `Spec => []BalanceInv`, the inductive invariant of the clients |
| `PoolsBalancedCorrect` | `Spec => []PoolsBalanced` |
| `ReportCorrect` | `Spec => []ReportInv`, the inductive invariant of the response |
| `EveryTargetReportsCorrect` | `Spec => []EveryTargetReports` |
| `AttributedCorrect` | `Spec => []Attributed` |
| `NothingForTheGoneCorrect` | `Spec => NothingForTheGone` |
| `ImplementsRegistrationCorrect` | `Spec => ImplementsRegistration` |

For any list of targets, with any names. `BalanceInv` says that every connected client that is
not shared is being pinged (`GetClientBalance`) or has a disconnect still deferred, and which targets
have had their turn.
`ReportInv` follows a target from its context (`ContextInv`) through its registry
(`CacheInv`) and its place among the gatherers (`OrderInv`) to the response
(`ResponseInv`), which holds whatever nothing merged before could clash with, and
something in the place of all else that was merged (`AnsweredFor`): from this `Attributed` follows. The refinement is
one of many registries at once: at each step all but the current target's stutter.

### Targets_proofs: the command line

| theorem | statement |
|---|---|
| `InvHolds` | `Spec => []Inv`, the inductive invariant |
| `EveryHostServedCorrect` | `Spec => []EveryHostServed` |
| `GroupedByRuleCorrect` | `Spec => []GroupedByRule`, the rule of the code |
| `ClustersTogetherCorrect` | `Spec => []ClustersTogether`, where the code's rule is the documented one |
| `SplitNodesAnswerCorrect` | `Spec => []SplitNodesAnswer` |
| `TypeCorrect` | `Spec => []TypeOK` |

For a command line of any length, over any hosts and any SRV records: `MaxList` may be any
natural number. The properties speak of the end of the
parsing; the invariant says the same of every moment of it. `ReadInv`: the clusters cut off so
far, with the one in the buffer, hold the hosts of the elements read, in order and with
their credentials. `SplitInv` and `BuildInv` carry that through --split-cluster and
`buildExporter`, host by host. It does not say where a cluster begins, so `GroupedByRule`, of which `ClustersTogether` is a consequence,
needs `ClusterInv`: each neighbour in the list is on the same side of a boundary exactly if the
rule of the code says so. Both compare concatenations of lists of lists, which is what
`FlattenAppend` and `UptoStep` are for. `SplitNodesAnswer` needs that after a split every
target has one host, and that of two targets of one name the map holds the last.

### Namespaces_proofs: listing and querying

| theorem | statement |
|---|---|
| `TypeCorrect` | `Spec => []TypeOK` |
| `LabelsAgreeCorrect` | `Spec => []LabelsAgree` |
| `OneFailureLosesOneCorrect` | `Spec => []OneFailureLosesOne` |
| `SeriesDistinctCorrect` | `Spec => []SeriesDistinct` |
| `CalmServesAskedCorrect` | `Spec => []CalmServesAsked` |

For any server, filters, answers, failures and number of changes. `LabelsInv` says which
labels a series of each function has. `DatabasesInv` says that, while the server does not
change, its databases are those served, those that failed and those left, none of them
twice. `DistinctInv` says that what is left to ask has no item twice and none that was served
already, which rests on `Unique` where filters overlap and on the filters as written where
nothing is discovered. `CalmInv` is what undisturbed listing and querying have found by then:
of the listing, all that is asked of the databases listed so far; of the querying, that what is
served and what is left make up all that was asked for (`ToServe`).

### Commands_proofs: what failures cost

| theorem | statement |
|---|---|
| `InvHolds` | `Spec => []CommandsInv`, the inductive invariant |
| `TypeCorrect` | `Spec => []TypeOK` |
| `RefusalsEarnedCorrect` | `Spec => []RefusalsEarned` |
| `ShardedServedCorrect` | `Spec => []ShardedServed` |
| `ArbiterServedCorrect` | `Spec => []ArbiterServed` |

For any number of databases and sharded collections, whatever fails, hangs or answers
nonsense and whatever roles the node takes. The programs grow while they run, so an
invariant cannot speak of places in them. `NamesInv` says that no call comes twice: no metrics have been sent
of any call left, or of its heirs (the calls its answer would give rise to), and no heir is there
before the call it comes from is answered. `KindsInv` says
what the code may do at each call, of the calls left and of those to come, and that what spoils
the scrape is one of three commands that failed. `ShardInv`: each database's listing, and each
row it found, is still to come, or has failed, or is served. `DiagnosticInv` and
`TopologyInv` say of two functions which calls an arbiter's refusal leaves in the program.

### SequenceLemmas: lists

Induction over data, as a theorem with an operator for its parameter, is beyond the provers.
Over sets it is not: `Least` (a set of naturals that is not empty has a least member, from the
well-foundedness of `<`) gives `NatInd` (a set of naturals with 0 and with each member's
successor holds all). With these the lemmas show that the recursive functions behind
`FlattenSeq` and behind `Keep` of `Keeping` exist, and what they compute: `Keep(s, T)` has the elements of
`s` that are in `T` and no others, none twice that `s` has once, and the last one last; `FlattenSeq` of a longer list is
that of the shorter one with the last list behind it, or that of the longer one's rest with the
first list before it. `Keep` stands for `SelectSeq` in the modules that are proved about,
because `SelectSeq` is defined by an operator.

### MetricTree_proofs: documents

| theorem | statement |
|---|---|
| `CallerLabelsCorrect` | `Spec => []CallerLabelsKept` |
| `EveryNumberServedCorrect` | `Spec => []EveryNumberServed` |
| `MembersToldCorrect` | `Spec => []MembersTold` |
| `DiesOfNoNumberCorrect` | `Spec => []DiesOfNoNumber` |
| `OneValueEachCorrect` | `Spec => []OneValueEach` |
| `TypeCorrect` | `Spec => []TypeOK` |

For any document, any order of the walk and any depth: each map and array being walked has
the labels of the caller (`LabelsInv`), and no step takes one away, because labels the walk
gives have other names. Only `raw.labels` is handed on to rows, so the theorem names the
metrics that rows give labels of their own as exceptions.

The other theorems rest on `Inv`, which has two parts. `DocInv`: the document walked is the
answer, or made of its blocks, each key of one block; so it is a document itself
(`MergedDocument`), each value in it is one of the answer's, and a key that one block has keeps
its value (`OneBlockWalked`). `WalkInv`: every number that is due is served, or a map or an array on
the stack leads to it by a key that is left. No property says that alone, since during a walk
metrics are missing; and no order on paths is needed, as what a key leads to is served or put on
the stack in the same step.

A number is served only if its labels have one value each: a metric with two values
of a label is refused (`RawToPrometheusMetric`). `LabelsFit`, part of what `FrameInv` says of
each map on the stack, is why that does not happen: the labels of the table
`nodeToPDMetrics` are given to single values, or below a key node, and no map of that table is
below a key node (`NoneBelow`, by cases over the rows). `FrameInv` also says that the labels of
a map tell the member it is in; of an array they need not, as they are still those of the member
before, which is why `NextMember` replaces them.

`OneValueEach`, the first half of `RegistryAccepts`, says that this is the only way to be refused
alone, in compatible mode too, where a row renames labels or makes one of the rest of a name. Two
facts make it true. No label handed down is called `type` or `state`, which is what rows rename to
(`LabelsFit`); and a row gives no two labels one name, unless one of them is called `type` or `state`
already (`KeepsApart`). The second is read off the tables, entry by entry
(`ServerConversionsAreRows`, `ReplConversionsAreRows`, `StorageConversionsAreRows`), and holds of
each row by `RowKeepsApart`, whatever name it converts.

### Sequences that begin with others

The lemmas on `IsPrefix` in `SequenceLemmas` (`PrefixFrom`, `PrefixGives`, `StrictStep`,
`TailStrict` and their like) say what the proofs on paths need: a path begins with another, goes on with
a key, loses its first one.

### Model-checked only

* `AllEnd`, `ScrapeEnds` and `EndsByDeadline`: liveness under fairness, which TLAPS does
  not reach.
* The second half of `RegistryAccepts` of `MetricTree`, that no two metrics clash: that two paths
  never give one name would have to be shown of words a user may choose, pair by pair of rows;
  the tables are finite, and `documents` runs through all rows and pairs of them. The first half is
  `OneValueEachCorrect`.

## Not modelled

The numbers in metrics; the values that `replSetMetrics`, `changelog10m` and
`dbstatsMetrics` of `v1_compatibility.go` compute from the answers of calls `Commands`
has: a field becomes a metric, without a state or a choice; logging and debug output;
TLS, the web configuration and the landing page; the options of the driver's client;
the parsing of flags by kong; the driver, client_golang and the PBM SDK but for what the
code relies on; the test utilities and `.github`. A data race on a single flag of `e.opts`
is taken as an atomic write: all flags are Booleans and all interleavings of single
writes and reads are explored. The lock of the topology's labels is left out, as each
scrape has its own labels and loads them before anyone reads them. Two branches of the conversion
of documents are never taken there: an array decoded as `[]any` (metrics.go:342; the driver
decodes to `primitive.A`), and the return of `appendCompatibleMetric` at a row whose metric cannot
be made, as `OneValueEach` shows that every row's can. Nothing is persisted,
so there is no recovery from a crash to model.

## Plan

The modules came in the order of their weight: what all scrapes share first, the pipeline
every collector goes through second, what is asked of the server third, then the loop over
targets and the conversion of documents. What is left:

1. The second half of `RegistryAccepts` for every document of keys that are one word each, by what `Prometheusize`
   does to two paths.
2. The requests of `Scrapeall` and those of `Exporter` in one composition, for the
   connections a request to /scrapeall and one to /scrape hold at the same time. Of the registries
   `Registration` says it for both; of the clients `ClientPool` cannot as it stands, because in
   `Scrapeall` the global pools are there before the request.
