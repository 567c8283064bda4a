------------------------------ MODULE Exporter ------------------------------
(***************************************************************************)
(* One Exporter (exporter/exporter.go) serving concurrent HTTP scrapes.    *)
(*                                                                         *)
(* The scrapes share the Exporter's fields: e.client under e.clientMu,     *)
(* e.totalCollectionsCount under e.lock, and e.opts under no lock at all,  *)
(* although makeRegistry writes it.  A scrape reaches the Exporter through *)
(* Handler (the telemetry path and /scrape) or through the loop body of    *)
(* OverallTargetsHandler (/scrapeall), which is the same but for the       *)
(* collection count.  Each step of a handler that touches shared state or  *)
(* waits for the server is an action of its own.                           *)
(*                                                                         *)
(* The server is the environment: a call may fail at any time, it does     *)
(* fail once the scrape's context is done, the node may change its role    *)
(* and the number of its collections.                                      *)
(***************************************************************************)
EXTENDS Integers, FiniteSets

CONSTANTS
    Scrapes,           \* slots for HTTP requests being served; each serves many, one after another
    Boot,              \* the goroutine that New starts for the initial connect
    None,              \* no process: a nil client, a free mutex
    Collectors,        \* the collectors of makeRegistry this instance knows
    Configured,        \* those whose e.opts.Enable<...> flag the command line sets
    Listed,            \* those of Discovered given a list of namespaces
    Fragile,           \* those whose Describe may send an invalid or a clashing Desc
    DiscoveringMode, CollectAll, GlobalConnPool,   \* the flags of the same name
    CollStatsLimit, ProfileTimeTS,                 \* the options of the same name
    Endpoints,         \* the endpoints in use: "metrics" (and /scrape), "scrapeall"
    Filters,           \* the sets of collectors a request may name in collect[]
    NodeTypes,         \* the roles the node may have, or change to
    CollectionCounts   \* the numbers of collections the server may hold

(***************************************************************************)
(* How makeRegistry gates each collector.                                  *)
(***************************************************************************)
AllCollectors == {"collstats", "indexstats", "diagnosticdata", "dbstats",
                  "currentopmetrics", "profile", "topmetrics", "replicasetstatus",
                  "replicasetconfig", "shards", "fcv", "pbm"}

Discovered   == {"collstats", "indexstats"}     \* need a namespace list or discovery
Limited      == {"collstats", "indexstats", "dbstats", "profile", "topmetrics"}
NotOnMongos  == {"currentopmetrics", "profile", "topmetrics", "replicasetstatus",
                 "replicasetconfig", "fcv"}
OnlyOnMongos == {"shards"}
Unfiltered   == {"fcv"}                         \* makeRegistry does not read its request flag
ArbiterKeeps == {"diagnosticdata", "replicasetconfig"}

Procs     == Scrapes \cup {Boot}
Flags     == Collectors \cup {"discovering"}
Discovery == IF CollectAll /\ "collstats" \notin Listed THEN {"discovering"} ELSE {}
\* Variant: the CollectAll block forgets that collection statistics need discovery.
CollectAllSetsNoDiscovery == Collectors
\* the flags the CollectAll block of makeRegistry sets, and the arbiter block clears
CollectAllSets == Collectors \cup Discovery
\* Variant: the arbiter block forgets the collection statistics.
ArbiterClearsAllButCollStats == Collectors \ (ArbiterKeeps \cup {"collstats"})
ArbiterClears == Collectors \ ArbiterKeeps

ASSUME ProcsAssumption == None \notin Procs /\ Boot \notin Scrapes
ASSUME OptionsAssumption ==
    /\ Collectors \subseteq AllCollectors
    /\ Configured \subseteq Collectors
    /\ Fragile \subseteq Collectors
    /\ Listed \subseteq Discovered
    /\ Endpoints \subseteq {"metrics", "scrapeall"}
    /\ Filters \subseteq SUBSET Collectors
    /\ {DiscoveringMode, CollectAll, GlobalConnPool} \subseteq BOOLEAN
    /\ CollStatsLimit \in Int /\ ProfileTimeTS \in Int
    /\ NodeTypes \subseteq {"mongod", "mongos", "arbiter"}
    /\ CollectionCounts \subseteq Nat

VARIABLES
    opts,      \* e.opts: the flags that are true now
    client,    \* e.client: the process whose connect built it
    clientMu,  \* e.clientMu: the process holding it
    total,     \* e.totalCollectionsCount, -1 until computed
    open,      \* the processes whose client is connected and not disconnected
    pc,        \* where each process is
    mine,      \* the client each process got from getClient
    req,       \* the local state of each request
    node,      \* environment: the role of the node
    colls      \* environment: the number of its collections

vars == <<opts, client, clientMu, total, open, pc, mine, req, node, colls>>

Labels == {"idle", "lock", "pingShared", "connect", "ping", "readCount", "list",
           "storeCount", "nodeType", "general", "limits", "enable", "disable",
           "register", "serve", "panic", "done"}

Request == [endpoint   : Endpoints \cup {"none"},
            filtered   : BOOLEAN,                 \* the request has a collect[] parameter
            asked      : SUBSET Collectors,       \* requestOpts
            expired    : BOOLEAN,                 \* ctx is done
            listed     : CollectionCounts \cup {0},   \* the count not yet stored
            node       : NodeTypes \cup {"unknown"},  \* what getNodeType answered
            limitsOk   : BOOLEAN,
            todo       : SUBSET Flags,            \* what a block has not yet gone through
            registered : SUBSET (Collectors \cup {"general"}),
            cached     : SUBSET (Collectors \cup {"general"})]  \* registered, with metrics

NoRequest == [endpoint |-> "none", filtered |-> FALSE, asked |-> {}, expired |-> FALSE,
              listed |-> 0, node |-> "unknown", limitsOk |-> FALSE, todo |-> {},
              registered |-> {}, cached |-> {}]

TypeOK ==
    /\ opts \subseteq Flags
    /\ client \in Procs \cup {None}
    /\ clientMu \in Procs \cup {None}
    /\ total \in CollectionCounts \cup {0, -1}
    /\ open \subseteq Procs
    /\ pc \in [Procs -> Labels]
    /\ mine \in [Procs -> Procs \cup {None}]
    /\ req \in [Scrapes -> Request]
    /\ node \in NodeTypes
    /\ colls \in CollectionCounts

Goto(p, label) == pc' = [pc EXCEPT ![p] = label]

\* New starts with an unknown count and no client; the goroutine then calls getClient.
FirstStep == IF GlobalConnPool THEN "lock" ELSE "connect"

Init ==
    /\ opts = Configured \cup (IF DiscoveringMode THEN {"discovering"} ELSE {})
    /\ client = None
    /\ clientMu = None
    /\ total = -1
    /\ open = {}
    /\ pc = [p \in Procs |-> IF p = Boot THEN FirstStep ELSE "idle"]
    /\ mine = [p \in Procs |-> None]
    /\ req = [r \in Scrapes |-> NoRequest]
    /\ node \in NodeTypes
    /\ colls \in CollectionCounts

(***************************************************************************)
(* A request arrives: its deadline starts and GetRequestOpts copies e.opts *)
(* or takes the filters.  The copy is not synchronised with the writes of  *)
(* makeRegistry; those are one flag at a time, in any order, so an atomic  *)
(* copy already sees every mixture a torn one can.                         *)
(***************************************************************************)
StartScrape(r) ==
    /\ pc[r] = "idle"
    /\ \E e \in Endpoints :
          \/ req' = [req EXCEPT ![r] = [NoRequest EXCEPT !.endpoint = e, !.filtered = FALSE,
                                                           !.asked = opts \cap Collectors]]
          \/ \E filters \in Filters :
                req' = [req EXCEPT ![r] = [NoRequest EXCEPT !.endpoint = e, !.filtered = TRUE,
                                                           !.asked = filters]]
    /\ Goto(r, FirstStep)
    /\ UNCHANGED <<opts, client, clientMu, total, open, mine, node, colls>>

(***************************************************************************)
(* getClient and connect.  With GlobalConnPool the mutex is held while the *)
(* shared client is pinged or built.  The scrape's context bounds the ping *)
(* of the shared client and a connect of its own, never the building of    *)
(* the shared client, nor the wait for the mutex.                          *)
(***************************************************************************)
Expired(p) == p \in Scrapes /\ req[p].expired

\* Where a process goes with the client c that getClient gives it.
AfterGetClient(p, c) ==
    IF p = Boot THEN "done"
    ELSE IF c = None THEN "general"
    ELSE IF req[p].endpoint = "metrics" THEN "readCount"
    ELSE "nodeType"

\* Variant: the lock is not released on the error path.
UnlockedUnlessFailed(p, c) == IF clientMu = p /\ c # None THEN None ELSE clientMu
Unlocked(p, c) == IF clientMu = p THEN None ELSE clientMu

\* getClient returns c to p: the deferred unlock runs.  The goroutine of New drops c.
ReturnClient(p, c) ==
    /\ mine' = [mine EXCEPT ![p] = IF p = Boot THEN None ELSE c]
    /\ clientMu' = Unlocked(p, c)
    /\ Goto(p, AfterGetClient(p, c))

\* Variant: nobody waits for the lock.
LockIgnored(p) == pc[p] = "lock"
CanLock(p) == pc[p] = "lock" /\ clientMu = None

LockClient(p) ==
    /\ CanLock(p)
    /\ clientMu' = p
    /\ Goto(p, IF client = None THEN "connect" ELSE "pingShared")
    /\ UNCHANGED <<opts, client, total, open, mine, req, node, colls>>

PingShared(p) ==
    /\ pc[p] = "pingShared"
    /\ \/ ~Expired(p) /\ ReturnClient(p, client)
       \/ ReturnClient(p, None)
    /\ UNCHANGED <<opts, client, total, open, req, node, colls>>

\* The client is built, or the DSN cannot be resolved.
Connect(p) ==
    /\ pc[p] = "connect"
    /\ \/ /\ open' = open \cup {p}
          /\ Goto(p, "ping")
          /\ UNCHANGED <<mine, clientMu>>
       \/ /\ ReturnClient(p, None)
          /\ UNCHANGED open
    /\ UNCHANGED <<opts, client, total, req, node, colls>>

\* Variant: a client that did not answer stays connected.
OpenAfterFailedPingLeaks(p) == open
OpenAfterFailedPing(p) == open \ {p}

\* Variant: the shared client is built and not remembered.
SharedForgotten(p) == client
SharedAfterConnect(p) == IF GlobalConnPool THEN p ELSE client

\* The new client is pinged; a client that does not answer is disconnected.
PingNew(p) ==
    /\ pc[p] = "ping"
    /\ \/ /\ GlobalConnPool \/ ~Expired(p)
          /\ client' = SharedAfterConnect(p)
          /\ ReturnClient(p, p)
          /\ UNCHANGED open
       \/ /\ open' = OpenAfterFailedPing(p)
          /\ ReturnClient(p, None)
          /\ UNCHANGED client
    /\ UNCHANGED <<opts, total, req, node, colls>>

(***************************************************************************)
(* Handler computes the number of collections unless a positive one is     *)
(* known.  The lock covers the read and the write, not the listing between *)
(* them.  A listing that fails leaves the count as it is.                  *)
(***************************************************************************)
\* Variant: every scrape lists the collections again.
CountAlwaysWanted == TRUE
CountWanted == total <= 0

ReadCount(r) ==
    /\ pc[r] = "readCount"
    /\ Goto(r, IF CountWanted THEN "list" ELSE "nodeType")
    /\ UNCHANGED <<opts, client, clientMu, total, open, mine, req, node, colls>>

ListCollections(r) ==
    /\ pc[r] = "list"
    /\ \/ /\ ~Expired(r)
          /\ req' = [req EXCEPT ![r].listed = colls]
          /\ Goto(r, "storeCount")
       \/ /\ Goto(r, "nodeType")
          /\ UNCHANGED req
    /\ UNCHANGED <<opts, client, clientMu, total, open, mine, node, colls>>

\* Variant: the counts of several scrapes add up.
AccumulatedCount(r) == total + req[r].listed
CountToStore(r) == req[r].listed

StoreCount(r) ==
    /\ pc[r] = "storeCount"
    /\ total' = CountToStore(r)
    /\ req' = [req EXCEPT ![r].listed = 0]
    /\ Goto(r, "nodeType")
    /\ UNCHANGED <<opts, client, clientMu, open, mine, node, colls>>

(***************************************************************************)
(* makeRegistry, step by step; without a client only the general collector *)
(* is registered.  Registering a collector runs its Describe, which fills  *)
(* the collector's cache unless the context is done and there is a client. *)
(***************************************************************************)
GetNodeType(r) ==
    /\ pc[r] = "nodeType"
    /\ \E answer \in {node, "unknown"} :
          /\ Expired(r) => answer = "unknown"
          /\ req' = [req EXCEPT ![r].node = answer]
    /\ Goto(r, "general")
    /\ UNCHANGED <<opts, client, clientMu, total, open, mine, node, colls>>

\* Variant: a scrape out of time describes nothing, client or not.
DescribesInTime(r) == ~Expired(r)
Describes(r) == ~Expired(r) \/ mine[r] = None

\* registry.MustRegister(c)
WithCollector(q, r, c) ==
    [q EXCEPT !.todo = @ \ {c},
              !.registered = @ \cup {c},
              !.cached = IF Describes(r) THEN @ \cup {c} ELSE @]

RegisterGeneral(r) ==
    /\ pc[r] = "general"
    /\ req' = [req EXCEPT ![r] = WithCollector(@, r, "general")]
    /\ Goto(r, IF mine[r] = None THEN "serve" ELSE "limits")
    /\ UNCHANGED <<opts, client, clientMu, total, open, mine, node, colls>>

LimitsOk == CollStatsLimit <= 0 \/ total <= CollStatsLimit

\* The block after this one: the flags it goes through, and its label.
NextBlock(r, done) ==
    IF CollectAll /\ done = "limits" THEN [label |-> "enable", todo |-> CollectAllSets]
    ELSE IF req[r].node = "arbiter" /\ done # "disable"
         THEN [label |-> "disable", todo |-> ArbiterClears]
    ELSE [label |-> "register", todo |-> Collectors]

CheckLimits(r) ==
    /\ pc[r] = "limits"
    /\ req' = [req EXCEPT ![r].limitsOk = LimitsOk,
                          ![r].todo = NextBlock(r, "limits").todo]
    /\ Goto(r, NextBlock(r, "limits").label)
    /\ UNCHANGED <<opts, client, clientMu, total, open, mine, node, colls>>

\* The CollectAll block and the arbiter block assign e.opts, one flag at a time.
AssignOpts(r) ==
    /\ pc[r] \in {"enable", "disable"}
    /\ \E f \in req[r].todo :
          /\ opts' = IF pc[r] = "enable" THEN opts \cup {f} ELSE opts \ {f}
          /\ req' = [req EXCEPT ![r].todo = @ \ {f}]
    /\ UNCHANGED <<client, clientMu, total, open, pc, mine, node, colls>>

EndBlock(r) ==
    /\ pc[r] \in {"enable", "disable"}
    /\ req[r].todo = {}
    /\ req' = [req EXCEPT ![r].todo = NextBlock(r, pc[r]).todo]
    /\ Goto(r, NextBlock(r, pc[r]).label)
    /\ UNCHANGED <<opts, client, clientMu, total, open, mine, node, colls>>

\* The condition under which makeRegistry registers c.
Gate(r, c) ==
    /\ c \in opts
    /\ c \in Discovered => c \in Listed \/ "discovering" \in opts
    /\ c \in Limited => req[r].limitsOk
    /\ c \in NotOnMongos => req[r].node # "mongos"
    /\ c \in OnlyOnMongos => req[r].node = "mongos"
    /\ c \notin Unfiltered => c \in req[r].asked
    /\ c = "profile" => ProfileTimeTS # 0

\* The order in which makeRegistry tries the collectors.
Position == [collstats |-> 1, indexstats |-> 2, diagnosticdata |-> 3, dbstats |-> 4,
             currentopmetrics |-> 5, profile |-> 6, topmetrics |-> 7, replicasetstatus |-> 8,
             replicasetconfig |-> 9, shards |-> 10, fcv |-> 11, pbm |-> 12]

Turn(r, c) == c \in req[r].todo /\ \A d \in req[r].todo : Position[c] <= Position[d]

\* A collector whose Desc the registry refuses makes MustRegister panic: the
\* deferred calls of the handler run, no response is written.
Register(r) ==
    /\ pc[r] = "register"
    /\ \E c \in Collectors :
          /\ Turn(r, c)
          /\ \/ /\ ~Gate(r, c)
                /\ req' = [req EXCEPT ![r].todo = @ \ {c}]
                /\ UNCHANGED pc
             \/ /\ Gate(r, c)
                /\ req' = [req EXCEPT ![r] = WithCollector(@, r, c)]
                /\ UNCHANGED pc
             \/ /\ Gate(r, c) /\ c \in Fragile /\ Describes(r)
                /\ Goto(r, "panic")
                /\ UNCHANGED req
    /\ UNCHANGED <<opts, client, clientMu, total, open, mine, node, colls>>

RegistryDone(r) ==
    /\ pc[r] = "register"
    /\ req[r].todo = {}
    /\ Goto(r, "serve")
    /\ UNCHANGED <<opts, client, clientMu, total, open, mine, req, node, colls>>

\* Variant: the client is disconnected in either mode.
OpenAfterAnyClose(r) == open \ {mine[r]}
OpenAfterClose(r) == IF GlobalConnPool THEN open ELSE open \ {mine[r]}

\* promhttp gathers the registry and writes the response, unless makeRegistry panicked;
\* then the deferred calls run: a client of the scrape's own is disconnected.
Finish(r) ==
    /\ pc[r] \in {"serve", "panic"}
    /\ open' = OpenAfterClose(r)
    /\ mine' = [mine EXCEPT ![r] = None]
    /\ req' = [req EXCEPT ![r] = NoRequest]
    /\ Goto(r, "idle")
    /\ UNCHANGED <<opts, client, clientMu, total, node, colls>>

(***************************************************************************)
(* The environment: deadlines pass (a deadline may be over at once, for    *)
(* TimeoutOffset is subtracted from the request's timeout), the node       *)
(* changes its role, collections are created and dropped.                  *)
(***************************************************************************)
Expire(r) ==
    /\ pc[r] # "idle"
    /\ ~req[r].expired
    /\ req' = [req EXCEPT ![r].expired = TRUE]
    /\ UNCHANGED <<opts, client, clientMu, total, open, pc, mine, node, colls>>

ChangeRole ==
    /\ node' \in NodeTypes \ {node}
    /\ UNCHANGED <<opts, client, clientMu, total, open, pc, mine, req, colls>>

ChangeCollections ==
    /\ colls' \in CollectionCounts \ {colls}
    /\ UNCHANGED <<opts, client, clientMu, total, open, pc, mine, req, node>>

GetClientStep(p) == PingShared(p) \/ Connect(p) \/ PingNew(p)

ScrapeStep(r) ==
    \/ ReadCount(r) \/ ListCollections(r) \/ StoreCount(r)
    \/ GetNodeType(r) \/ RegisterGeneral(r) \/ CheckLimits(r)
    \/ AssignOpts(r) \/ EndBlock(r) \/ Register(r) \/ RegistryDone(r)
    \/ Finish(r)

Environment == (\E r \in Scrapes : Expire(r)) \/ ChangeRole \/ ChangeCollections

Next ==
    \/ \E p \in Procs : LockClient(p) \/ GetClientStep(p)
    \/ \E r \in Scrapes : StartScrape(r) \/ ScrapeStep(r)
    \/ Environment

Spec == Init /\ [][Next]_vars

\* Every call to the server returns, by its context, its timeouts or its answer, so a
\* process that can go on does; sync.Mutex hands the lock over to a starving waiter.
\* Nothing makes a request arrive, a deadline pass or the server change.
Fairness ==
    /\ \A p \in Procs : WF_vars(GetClientStep(p)) /\ SF_vars(LockClient(p))
    /\ \A r \in Scrapes : WF_vars(ScrapeStep(r))

FairSpec == Spec /\ Fairness

-----------------------------------------------------------------------------
(***************************************************************************)
(* Properties.                                                             *)
(***************************************************************************)

\* Every connected pool has an owner who will use it or close it: it is being pinged by
\* connect, it is the shared client, or it belongs to a scrape still being served.  The
\* one exception is the pool of New's goroutine when pools are per scrape.
PoolsAccounted ==
    \A p \in open :
        \/ pc[p] = "ping"
        \/ p = client
        \/ p \in Scrapes /\ mine[p] = p /\ pc[p] \notin {"idle", "lock", "connect"}
        \/ p = Boot /\ ~GlobalConnPool

\* With --mongodb.global-conn-pool there is never a second pool, however many scrapes
\* race with each other and with New's goroutine to build the first one.
OneSharedPool == GlobalConnPool => \A p, q \in open : p = q

\* A scrape never works with a client somebody has disconnected.
LeasedIsOpen == \A r \in Scrapes : mine[r] # None => mine[r] \in open

\* The collectors a scrape should serve, by the command line, the filters of the request,
\* and what the scrape saw of the node and of the limit.  Neither e.opts nor a copy of it
\* is mentioned: what an unfiltered request has in requestOpts does not matter here.
Meant(r) ==
    LET wanted == IF CollectAll THEN Collectors ELSE Configured
        discovery == DiscoveringMode \/ Discovery # {}
    IN {c \in wanted :
          /\ c \in Discovered => c \in Listed \/ discovery
          /\ c \in Limited => req[r].limitsOk
          /\ c \in NotOnMongos => req[r].node # "mongos"
          /\ c \in OnlyOnMongos => req[r].node = "mongos"
          /\ c \in Unfiltered \/ ~req[r].filtered \/ c \in req[r].asked
          /\ c = "profile" => ProfileTimeTS # 0}

\* What the scrapes of an arbiter may have cost the others: the flags they clear, as far as
\* those are clear still; with --collect-all they may have been set again since.
LostToArbiters ==
    IF "arbiter" \notin NodeTypes THEN {}
    ELSE IF CollectAll THEN ArbiterClears ELSE ArbiterClears \ opts

\* What an unfiltered scrape loses under --collect-all because it copied e.opts before the
\* flags were set: only what the command line does not name itself, and what has its flag by
\* the time of the response, so that a request that arrives then does not lose it again.
LostToCopy(r) ==
    IF CollectAll /\ ~req[r].filtered
    THEN opts \ (Configured \cup Unfiltered \cup req[r].asked) ELSE {}

\* A scrape with a client serves the general collector, no collector that is not meant for
\* it, and every one that is, whatever other scrapes write into e.opts between its copy, its
\* own writes and its reads, but for the two losses above (exporter.go:179-192, 325).
MeantServed ==
    \A r \in Scrapes : pc[r] = "serve" /\ mine[r] # None =>
        /\ req[r].registered \subseteq {"general"} \cup Meant(r)
        /\ {"general"} \cup (Meant(r) \ (LostToArbiters \cup LostToCopy(r)))
              \subseteq req[r].registered

\* A scrape that saw an arbiter asks it for nothing an arbiter does not allow
\* (exporter.go:179 "arbiter only have isMaster privileges").
ArbiterAskedOnlyItsOwn ==
    \A r \in Scrapes : pc[r] = "serve" /\ req[r].node = "arbiter" =>
        req[r].registered \subseteq ArbiterKeeps \cup {"general"}

\* A response lacks the metrics of a registered collector only if the scrape has a client
\* and ran out of time; without a client it always carries mongodb_up.
NothingSilentlyMissing ==
    \A r \in Scrapes : pc[r] = "serve" /\ (mine[r] = None \/ ~req[r].expired) =>
        req[r].cached = req[r].registered /\ "general" \in req[r].cached

\* The scrapes that found no positive count and are about to store one.
Counting == {r \in Scrapes : pc[r] \in {"list", "storeCount"}}

\* Only those who raced for the first count can still change it: once it is positive and
\* none of them is left, no scrape counts again, and all apply the limit to the same number.
CountSettles == [][total > 0 /\ Counting = {} => total' = total /\ Counting' = {}]_vars

\* Every scrape ends, and so does the initial connect, though scrapes wait for each other.
AllEnd ==
    /\ \A r \in Scrapes : pc[r] # "idle" ~> pc[r] = "idle"
    /\ <>(pc[Boot] = "done")

\* The clients that are in use or at hand: not those connect still pings, and not the one
\* that New's goroutine opens and drops when pools are per scrape.
LiveClients == {p \in open : pc[p] # "ping" /\ (p = Boot => GlobalConnPool)}

Pool == INSTANCE ClientPool WITH
            Users <- Scrapes, Guest <- Boot, Shared <- GlobalConnPool,
            pool <- client, lease <- [r \in Scrapes |-> mine[r]], live <- LiveClients

\* Whatever its scrapes do, the Exporter's clients behave as ClientPool promises.
ImplementsClientPool == Pool!PoolSpec

\* What one scrape makes of its registry; without a client no time is over for it.
Registry(r) == INSTANCE Registration WITH
                   Collectors <- Collectors \cup {"general"},
                   registered <- IF pc[r] = "panic" THEN {} ELSE req[r].registered,
                   cached <- IF pc[r] = "panic" THEN {} ELSE req[r].cached,
                   late <- req[r].expired /\ mine[r] # None,
                   state <- IF pc[r] = "serve" THEN "served"
                            ELSE IF pc[r] = "panic" THEN "refused" ELSE "open"

\* Every scrape fills its registry as Registration promises, whatever others do meanwhile.
ImplementsRegistration ==
    /\ \A r \in Scrapes : Registry(r)!RegistryInit
    /\ [][\A r \in Scrapes : Registry(r)!RegistryStep]_vars

-----------------------------------------------------------------------------
(***************************************************************************)
(* What the documentation and the comments say, and the code does not do.  *)
(***************************************************************************)

\* main.go:74 "Enable all collectors. Same as specifying all --collector.<name>": an
\* unfiltered scrape of a mongod within its limit serves every collector it can.
CollectAllIsAll ==
    \A r \in Scrapes :
        (CollectAll /\ pc[r] = "serve" /\ req[r].node = "mongod" /\ req[r].limitsOk
           /\ Filters = {})
        => \A c \in Collectors \ OnlyOnMongos : c \in req[r].registered

\* exporter.go:362 "Topology can change between requests, so we need to get it every time":
\* an unfiltered scrape that sees a mongod serves the collectors configured for a mongod.
TopologyFollowed ==
    \A r \in Scrapes :
        (pc[r] = "serve" /\ mine[r] # None /\ req[r].node = "mongod" /\ Filters = {})
        => Configured \ (OnlyOnMongos \cup Discovered \cup Limited \cup {"profile"})
             \subseteq req[r].registered

=============================================================================
