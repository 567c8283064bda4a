---------------------------- MODULE BaseCollector ----------------------------
(***************************************************************************)
(* How the collectors of one scrape are registered and gathered            *)
(* (exporter/base_collector.go), goroutine by goroutine.                   *)
(*                                                                         *)
(* MustRegister starts a goroutine that calls the collector's Describe;    *)
(* Describe starts a goroutine that runs collect, which asks the server,   *)
(* and caches what collect sends while it hands the descriptors over to    *)
(* the registry.  Gathering calls the collectors' Collect concurrently;    *)
(* each replays its cache.  The registry, in client_golang, is modelled    *)
(* from what the code relies on.  The scrapes follow one another.          *)
(***************************************************************************)
EXTENDS Naturals, Sequences, FiniteSets

CONSTANTS
    Collectors,   \* the collectors that makeRegistry registers in a scrape
    None,         \* no collector, no metric
    Metrics,      \* the metrics collect may send
    Refused,      \* those with an invalid Desc, or one that clashes with another
    Time,         \* collector_scrape_time_ms, the last metric of every collect
    MaxMetrics,   \* bound: what one collect sends before Time
    DescBuffer    \* the capacity of the registry's channel of descriptors

ASSUME BaseAssumption ==
    /\ Refused \subseteq Metrics /\ Time \notin Metrics
    /\ None \notin Collectors /\ None \notin Metrics \cup {Time}
    /\ MaxMetrics \in Nat /\ DescBuffer \in Nat \ {0}

VARIABLES
    client,    \* d.client # nil
    expired,   \* d.ctx is done
    main,      \* the scrape's goroutine: "register", "gather", "panic"
    waiting,   \* the collectors not yet registered
    current,   \* the collector MustRegister is called with
    refused,   \* the registry has refused it, and only drains its descriptors
    desc,      \* the goroutine in Describe
    held,      \* the metric whose descriptor it is about to send
    descs,     \* the registry's channel
    coll,      \* the goroutine in collect
    sent,      \* by collector: what its collects have sent, in this scrape
    cache,     \* by collector: metricsCache
    replayed   \* by collector: what Collect has sent

vars == <<client, expired, main, waiting, current, refused, desc, held, descs, coll,
          sent, cache, replayed>>

Empty == [c \in Collectors |-> <<>>]
Sent  == UNION {[1..n -> Metrics \cup {Time}] : n \in 0..MaxMetrics + 1}

TypeOK ==
    /\ client \in BOOLEAN /\ expired \in BOOLEAN /\ refused \in BOOLEAN
    /\ main \in {"register", "gather", "panic"}
    /\ waiting \subseteq Collectors /\ current \in Collectors \cup {None}
    /\ desc \in {"none", "enter", "receive", "send", "closed"}
    /\ held \in Metrics \cup {Time, None}
    /\ descs \in Seq(Metrics \cup {Time}) /\ Len(descs) <= DescBuffer
    /\ coll \in {"none", "collect", "closed"}
    /\ {sent[c] : c \in Collectors} \cup {cache[c] : c \in Collectors} \subseteq Sent
    /\ \A c \in Collectors : replayed[c] \in Sent

Init ==
    /\ client \in BOOLEAN
    /\ expired = FALSE
    /\ main = "register"
    /\ waiting = Collectors
    /\ current = None /\ refused = FALSE
    /\ desc = "none" /\ held = None /\ descs = <<>> /\ coll = "none"
    /\ sent = Empty /\ cache = Empty /\ replayed = Empty

\* MustRegister: the registry runs Describe in a goroutine.
StartRegister ==
    /\ main = "register" /\ current = None
    /\ \E c \in waiting : current' = c /\ waiting' = waiting \ {c}
    /\ desc' = "enter"
    /\ UNCHANGED <<client, expired, main, refused, held, descs, coll, sent, cache, replayed>>

\* Variant: a scrape out of time describes nothing, client or not.
DescribesInTime == ~expired
Describes == ~expired \/ ~client

\* Describe returns at once when the time is over and there is a client; else it
\* empties the cache and starts the collect goroutine.
EnterDescribe ==
    /\ desc = "enter"
    /\ IF Describes
       THEN desc' = "receive" /\ coll' = "collect" /\ cache' = [cache EXCEPT ![current] = <<>>]
       ELSE desc' = "closed" /\ UNCHANGED <<coll, cache>>
    /\ UNCHANGED <<client, expired, main, waiting, current, refused, held, descs, sent, replayed>>

\* Variant: a metric is cached before and after its descriptor is sent.
CachedTwice(m) == Append(Append(cache[current], m), m)
\* Variant: only what differs from the last metric is cached.
CachedChanges(m) ==
    IF cache[current] # <<>> /\ m = cache[current][Len(cache[current])]
    THEN cache[current] ELSE Append(cache[current], m)
Cached(m) == Append(cache[current], m)

\* collect sends a metric on the unbuffered channel, Describe receives and caches it.
Send(m) ==
    /\ coll = "collect" /\ desc = "receive"
    /\ sent' = [sent EXCEPT ![current] = Append(@, m)]
    /\ cache' = [cache EXCEPT ![current] = Cached(m)]
    /\ held' = m /\ desc' = "send"
    /\ UNCHANGED <<client, expired, main, waiting, current, refused, descs, replayed>>

CollectMetric ==
    /\ coll = "collect"
    /\ Len(sent[current]) < MaxMetrics
    /\ \E m \in Metrics : Send(m)
    /\ UNCHANGED coll

\* However collect ends, the deferred measureCollectTime sends its metric; then the
\* channel is closed.
EndCollect ==
    /\ coll = "collect"
    /\ Send(Time)
    /\ coll' = "closed"

\* Describe hands the descriptor over, when the registry's channel has room.
SendDesc ==
    /\ desc = "send" /\ Len(descs) < DescBuffer
    /\ descs' = Append(descs, held)
    /\ held' = None /\ desc' = "receive"
    /\ UNCHANGED <<client, expired, main, waiting, current, refused, coll, sent, cache, replayed>>

EndDescribe ==
    /\ desc = "receive" /\ coll = "closed"
    /\ desc' = "closed"
    /\ UNCHANGED <<client, expired, main, waiting, current, refused, held, descs, coll, sent,
                   cache, replayed>>

\* Variant: a registry that stops to read once it has refused a collector.
ReadsUnlessRefused == ~refused
ReadsOn == TRUE

\* The registry reads the descriptors; after one it refuses it reads on, to let
\* the goroutines end.
ReadDesc ==
    /\ descs # <<>> /\ ReadsOn
    /\ descs' = Tail(descs)
    /\ refused' = (refused \/ Head(descs) \in Refused)
    /\ UNCHANGED <<client, expired, main, waiting, current, desc, held, coll, sent, cache, replayed>>

\* Register returns; MustRegister panics when the collector was refused.
EndRegister ==
    /\ desc = "closed" /\ descs = <<>>
    /\ main' = IF refused THEN "panic" ELSE IF waiting = {} THEN "gather" ELSE "register"
    /\ current' = None /\ desc' = "none" /\ coll' = "none"
    /\ UNCHANGED <<client, expired, waiting, refused, held, descs, sent, cache, replayed>>

\* Gather runs every Collect in a goroutine; each sends its cache, metric by metric.
Replay(c) ==
    /\ main = "gather"
    /\ Len(replayed[c]) < Len(cache[c])
    /\ replayed' = [replayed EXCEPT ![c] = Append(@, cache[c][Len(@) + 1])]
    /\ UNCHANGED <<client, expired, main, waiting, current, refused, desc, held, descs, coll,
                   sent, cache>>

Gathered == main = "gather" /\ \A c \in Collectors : Len(replayed[c]) = Len(cache[c])
Ended == Gathered \/ main = "panic"

\* The response is written, or was given up; the collectors of the next scrape are new.
NextScrape ==
    /\ Ended
    /\ client' \in BOOLEAN /\ expired' = FALSE
    /\ main' = "register" /\ waiting' = Collectors /\ refused' = FALSE
    /\ sent' = Empty /\ cache' = Empty /\ replayed' = Empty
    /\ UNCHANGED <<current, desc, held, descs, coll>>

Expire ==
    /\ ~expired
    /\ expired' = TRUE
    /\ UNCHANGED <<client, main, waiting, current, refused, desc, held, descs, coll, sent, cache,
                   replayed>>

Steps ==
    \/ StartRegister \/ EnterDescribe \/ SendDesc \/ EndDescribe
    \/ ReadDesc \/ EndRegister
    \/ \E c \in Collectors : Replay(c)

Next == Steps \/ CollectMetric \/ EndCollect \/ NextScrape \/ Expire

Spec == Init /\ [][Next]_vars

\* Goroutines that can go on do; collect ends, for its calls to the server end with its
\* context.  Nothing makes the next scrape arrive.
FairSpec ==
    /\ Spec
    /\ WF_vars(StartRegister) /\ WF_vars(EnterDescribe) /\ WF_vars(SendDesc)
    /\ WF_vars(EndDescribe) /\ WF_vars(ReadDesc) /\ WF_vars(EndRegister)
    /\ WF_vars(EndCollect) /\ \A c \in Collectors : WF_vars(Replay(c))

-----------------------------------------------------------------------------
\* The response holds, of every collector, what one collect has sent, all of it, once and
\* in order: the cache neither loses a metric nor asks the server again.
ServedIsCollected ==
    Gathered => \A c \in Collectors : replayed[c] = sent[c]

\* A collector without metrics means that there is a client and that the time is over.
NothingSilentlyMissing ==
    Gathered => \A c \in Collectors : replayed[c] = <<>> => client /\ expired

\* What the scrape's goroutine has done with its collectors, whatever goroutines did it.
Registered == IF main = "panic" THEN {} ELSE Collectors \ (waiting \cup {current})
Registry == INSTANCE Registration WITH
                registered <- Registered,
                cached <- {c \in Registered : cache[c] # <<>>},
                late <- client /\ expired,
                state <- IF main = "gather" THEN "served"
                         ELSE IF main = "panic" THEN "refused" ELSE "open"

\* The goroutines of MustRegister and Describe fill a registry as Registration promises.
ImplementsRegistration == Registry!RegistrySpec

\* Whatever the registry refuses, a scrape ends, and leaves no goroutine behind.
ScrapeEnds == []<>(Ended /\ desc = "none" /\ coll = "none" /\ descs = <<>>)
=============================================================================
