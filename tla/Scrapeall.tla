------------------------------ MODULE Scrapeall ------------------------------
(***************************************************************************)
(* One request to /scrapeall (OverallTargetsHandler in exporter/server.go) *)
(* from the first target to the last deferred call.                        *)
(*                                                                         *)
(* The handler visits the exporters one after another: each gets a context *)
(* of its own, a client, a registry and a wrapper that adds the label      *)
(* instance.  The collectors collect while they are registered; what they  *)
(* found is gathered and merged after the last target.  Disconnecting and  *)
(* cancelling are deferred to the end of the request, not of the target.   *)
(*                                                                         *)
(* Exporter models what concurrent requests share; this module, what the   *)
(* targets of one request share: its time, its response and its end.       *)
(***************************************************************************)
EXTENDS Integers, Sequences

CONSTANTS
    Names,         \* the values of opts.NodeName
    Instances,     \* opts.NodeName of each exporter, in the order of the list
    Unnamed,       \* the NodeName of an exporter that has none
    Versions       \* the generations of servers, which differ in a help text

ASSUME ScrapeallAssumption == Instances \in Seq(Names) /\ Instances # <<>>

Targets    == DOMAIN Instances
Collectors == <<"general", "data">>      \* mongodb_up, and one of the others
Default    == 0                          \* prometheus.DefaultGatherer

VARIABLES
    shared,     \* GlobalConnPool
    built,      \* the exporters whose e.client is set
    version,    \* environment: the server behind each target
    gone,       \* environment: the HTTP client has gone, r.Context() is done
    pc, at,     \* where the handler is, and its target
    ctx,        \* the context of each target
    mine,       \* the client of each target
    open,       \* the targets whose client, shared or not, is connected
    deferred,   \* the deferred calls, in the order of the defer statements
    step,       \* the collector to be registered next
    cached,     \* the metrics each target's collectors hold
    doubled,    \* the targets of which one collector holds a series twice
    gatherers,  \* what the response is gathered from
    merged,     \* how many of them have been
    response    \* the metrics written

vars == <<shared, built, version, gone, pc, at, ctx, mine, open, deferred,
          step, cached, doubled, gatherers, merged, response>>

Init ==
    /\ shared \in BOOLEAN
    /\ built \in SUBSET (IF shared THEN Targets ELSE {})
    /\ version \in [Targets -> Versions]
    /\ gone = FALSE
    /\ pc = "next" /\ at = 1
    /\ ctx = [i \in Targets |-> "none"]
    /\ mine = [i \in Targets |-> "nil"]
    /\ open = built /\ deferred = <<>>
    /\ step = 1
    /\ cached = [i \in Targets |-> {}] /\ doubled = {}
    /\ gatherers = <<Default>> /\ merged = 0
    /\ response = {}

-----------------------------------------------------------------------------
(***************************************************************************)
(* The environment: a deadline passes, the HTTP client goes away.          *)
(***************************************************************************)
Expire(i) ==
    /\ ctx[i] = "live"
    /\ ctx' = [ctx EXCEPT ![i] = "late"]
    /\ UNCHANGED <<shared, built, version, gone, pc, at, mine, open, deferred,
                   step, cached, doubled, gatherers, merged, response>>

Leave ==
    /\ ~gone /\ pc # "ended"
    /\ gone' = TRUE
    /\ ctx' = [i \in Targets |-> IF ctx[i] = "live" THEN "left" ELSE ctx[i]]
    /\ UNCHANGED <<shared, built, version, pc, at, mine, open, deferred,
                   step, cached, doubled, gatherers, merged, response>>

-----------------------------------------------------------------------------
(***************************************************************************)
(* The body of the loop.                                                   *)
(***************************************************************************)
\* Variant: the context does not descend from the request's.
ContextFromBackground == "live"
\* context.WithTimeout(r.Context(), ...): the time of a target starts with its turn.
NewContext == IF gone THEN "left" ELSE "live"

BeginTarget ==
    /\ pc = "next" /\ at \in Targets
    /\ ctx' = [ctx EXCEPT ![at] = NewContext]
    /\ deferred' = Append(deferred, [call |-> "cancel", of |-> at])
    /\ pc' = "getClient"
    /\ UNCHANGED <<shared, built, version, gone, at, mine, open,
                   step, cached, doubled, gatherers, merged, response>>

\* Variant: the closure sees the loop's variable after it has moved on.
DisconnectNext == [call |-> "disconnect", of |-> at + 1]
Disconnect == [call |-> "disconnect", of |-> at]

\* With a pool per request the disconnect is deferred, client or not.
DeferDisconnect ==
    deferred' = IF shared THEN deferred ELSE Append(deferred, Disconnect)

\* getClient returns the client c, or none after an error.
ReturnClient(c) ==
    /\ mine' = [mine EXCEPT ![at] = c]
    /\ DeferDisconnect
    /\ step' = 1
    /\ pc' = "register"

\* The shared client is there: it is pinged in the target's time.
PingShared ==
    /\ pc = "getClient" /\ at \in built
    /\ \/ ctx[at] = "live" /\ ReturnClient("shared")
       \/ ReturnClient("nil")
    /\ UNCHANGED <<shared, built, version, gone, at, ctx, open, cached, doubled,
                   gatherers, merged, response>>

\* connect builds a client, whether or not the context is done; or the DSN is invalid.
Connect ==
    /\ pc = "getClient" /\ at \notin built
    /\ \/ /\ open' = open \cup {at}
          /\ pc' = "ping"
          /\ UNCHANGED <<mine, deferred, step>>
       \/ /\ ReturnClient("nil")
          /\ UNCHANGED open
    /\ UNCHANGED <<shared, built, version, gone, at, ctx, cached, doubled,
                   gatherers, merged, response>>

\* The new client is pinged: in the target's time if it is its own, under
\* context.Background() if it is to be shared.  One that does not answer is disconnected.
PingNew ==
    /\ pc = "ping"
    /\ \/ /\ shared \/ ctx[at] = "live"
          /\ built' = IF shared THEN built \cup {at} ELSE built
          /\ ReturnClient(IF shared THEN "shared" ELSE "own")
          /\ UNCHANGED open
       \/ /\ open' = open \ {at}
          /\ ReturnClient("nil")
          /\ UNCHANGED built
    /\ UNCHANGED <<shared, version, gone, at, ctx, cached, doubled,
                   gatherers, merged, response>>

GetClient == PingShared \/ Connect \/ PingNew

\* Variant: without a client there is nothing to register.
RegistersClientOnly == IF mine[at] = "nil" THEN {} ELSE DOMAIN Collectors
\* What the target's registry gets: without a client the general collector alone.
Registers == IF mine[at] = "nil" THEN {1} ELSE DOMAIN Collectors

Series(family, help, value) == [family |-> family, help |-> help, value |-> value, of |-> at]

\* What the collector finds: mongodb_up tells whether the ping was answered.
Found(c) ==
    IF c = "general"
    THEN {Series("up", "up", v) : v \in IF mine[at] = "nil" THEN {0} ELSE {0, 1}}
    ELSE {Series("data", version[at], 1)}

\* registry.MustRegister: the collector collects, unless it has a client and no time.
Register ==
    /\ pc = "register" /\ step \in Registers
    /\ \/ /\ mine[at] = "nil" \/ ctx[at] = "live"
          /\ \E s \in Found(Collectors[step]) : cached' = [cached EXCEPT ![at] = @ \cup {s}]
          /\ doubled' \in IF Collectors[step] = "general" THEN {doubled}
                          ELSE {doubled, doubled \cup {at}}
       \/ /\ mine[at] # "nil" /\ ctx[at] # "live"
          /\ UNCHANGED <<cached, doubled>>
    /\ step' = step + 1
    /\ UNCHANGED <<shared, built, version, gone, pc, at, ctx, mine, open, deferred,
                   gatherers, merged, response>>

\* The registry refuses a collector: MustRegister panics, and the request with it.
Refuse ==
    /\ pc = "register" /\ step \in Registers /\ Collectors[step] # "general"
    /\ ctx[at] = "live"
    /\ pc' = "unwind"
    /\ UNCHANGED <<shared, built, version, gone, at, ctx, mine, open, deferred,
                   step, cached, doubled, gatherers, merged, response>>

\* Variant: the wrapper of a later target comes before those of the earlier ones.
WrapperFirst == <<at>> \o gatherers
\* gatherers = append(gatherers, gw)
WithWrapper == Append(gatherers, at)

Wrap ==
    /\ pc = "register" /\ step \notin Registers
    /\ gatherers' = WithWrapper
    /\ at' = at + 1
    /\ pc' = "next"
    /\ UNCHANGED <<shared, built, version, gone, ctx, mine, open, deferred,
                   step, cached, doubled, merged, response>>

-----------------------------------------------------------------------------
(***************************************************************************)
(* Gathering.  Gatherers.Gather keeps the first series of a name and       *)
(* labels, and the first help of a name; it reports the others as errors,  *)
(* which promhttp logs.                                                    *)
(***************************************************************************)
InstanceOf(i) == Instances[i]

Labelled(s, i) == [family |-> s.family, help |-> s.help, value |-> s.value, of |-> s.of,
                   instance |-> InstanceOf(i)]

\* GathererWrapped.Gather: nothing if the registry reports any error, such as a
\* series collected twice.
Wrapped(i) == IF i \in doubled THEN {} ELSE {Labelled(s, i) : s \in cached[i]}

Gathered(i) ==
    IF i = Default
    THEN {[family |-> "go", help |-> "go", value |-> 1, of |-> Default, instance |-> Unnamed]}
    ELSE Wrapped(i)

Clash(s, t) ==
    s.family = t.family /\ (s.help # t.help \/ s.instance = t.instance)

Merged(new) == {s \in new : \A t \in response : ~Clash(s, t)}

Merge ==
    /\ pc = "next" /\ at \notin Targets
    /\ merged < Len(gatherers)
    /\ response' = response \cup Merged(Gathered(gatherers[merged + 1]))
    /\ merged' = merged + 1
    /\ UNCHANGED <<shared, built, version, gone, pc, at, ctx, mine, open, deferred,
                   step, cached, doubled, gatherers>>

Served ==
    /\ pc = "next" /\ at \notin Targets
    /\ merged = Len(gatherers)
    /\ pc' = "unwind"
    /\ UNCHANGED <<shared, built, version, gone, at, ctx, mine, open, deferred,
                   step, cached, doubled, gatherers, merged, response>>

-----------------------------------------------------------------------------
(***************************************************************************)
(* The handler returns, or panics: the deferred calls run, last one first. *)
(***************************************************************************)
\* Variant: the closures share one variable, which holds the client of the last target.
ClosesLast(i) == open \ {at, at - 1}
\* if client != nil { client.Disconnect(ctx) }
Closes(i) == IF mine[i] = "nil" THEN open ELSE open \ {i}

RunDeferred ==
    /\ pc = "unwind" /\ deferred # <<>>
    /\ LET d == deferred[Len(deferred)]
       IN  /\ open' = IF d.call = "disconnect" THEN Closes(d.of) ELSE open
           /\ ctx' = IF d.call = "cancel" /\ ctx[d.of] = "live"
                     THEN [ctx EXCEPT ![d.of] = "cancelled"] ELSE ctx
    /\ deferred' = SubSeq(deferred, 1, Len(deferred) - 1)
    /\ UNCHANGED <<shared, built, version, gone, pc, at, mine,
                   step, cached, doubled, gatherers, merged, response>>

End ==
    /\ pc = "unwind" /\ deferred = <<>>
    /\ pc' = "ended"
    /\ UNCHANGED <<shared, built, version, gone, at, ctx, mine, open, deferred,
                   step, cached, doubled, gatherers, merged, response>>

Ended == pc = "ended" /\ UNCHANGED vars

Handle == \/ BeginTarget \/ GetClient \/ Register \/ Refuse \/ Wrap
          \/ Merge \/ Served \/ RunDeferred \/ End

Next == Handle \/ Leave \/ Ended \/ \E i \in Targets : Expire(i)

Spec == Init /\ [][Next]_vars

-----------------------------------------------------------------------------
(***************************************************************************)
(* Properties.                                                             *)
(***************************************************************************)
Deferred == [call : {"cancel", "disconnect"}, of : Targets]
Complete == pc = "ended" /\ merged = Len(gatherers)

TypeOK ==
    /\ shared \in BOOLEAN /\ gone \in BOOLEAN
    /\ built \subseteq Targets /\ open \subseteq Targets /\ doubled \subseteq Targets
    /\ version \in [Targets -> Versions]
    /\ pc \in {"next", "getClient", "ping", "register", "unwind", "ended"}
    /\ at \in 1..(Len(Instances) + 1)
    /\ pc \in {"getClient", "ping", "register"} => at \in Targets
    /\ ctx \in [Targets -> {"none", "live", "late", "left", "cancelled"}]
    /\ mine \in [Targets -> {"nil", "own", "shared"}]
    /\ deferred \in Seq(Deferred) /\ \A k \in DOMAIN deferred : deferred[k].of <= at
    /\ step \in 1..(Len(Collectors) + 1)
    /\ gatherers \in Seq(Targets \cup {Default})
    /\ merged \in 0..Len(gatherers)

\* Whatever the other targets do, a target whose own time was enough, whose client waited
\* for the answer, whose name nobody bears before it and whose registry gathers without
\* error shows mongodb_up, and its data too, unless a server of another generation came first
\* (server.go:104 "a handler to scrape all the targets in one request").
EveryTargetReports ==
    Complete /\ ~gone =>
        \A i \in Targets :
            (ctx[i] # "late" /\ i \notin doubled /\ \A j \in 1..(i - 1) : Instances[j] # Instances[i])
            => /\ \E s \in response : s.family = "up" /\ s.of = i
               /\ \/ mine[i] = "nil"
                  \/ \E s \in response : s.family = "data" /\ s.of = i
                  \/ \E j \in 1..(i - 1) : version[j] # version[i]

\* A metric bears the name of the target it is of (server.go:105 "Adds instance label to each
\* metric").  Targets may share a name, and one response may show metrics of several of them
\* under it; then the order of the list decides: a target shows a series only where no target
\* of its name before it had one of that family and help to show.  And an instance that is up
\* had a client.
Attributed ==
    \A s \in response : s.of \in Targets =>
        /\ s.instance = Instances[s.of]
        /\ \A j \in 1..(s.of - 1) : Instances[j] = s.instance =>
              \A t \in Wrapped(j) : t.family = s.family => t.help # s.help
        /\ s.family = "up" /\ s.value = 1 => mine[s.of] # "nil"

\* A client is connected while its target's collectors work; and when the request has
\* ended, by the panic of a later target's registry or not, no pool of its own is open and
\* no shared one is closed.
PoolsBalanced ==
    /\ pc = "register" /\ mine[at] # "nil" => at \in open
    /\ pc = "ended" => open = built

\* Once the HTTP client has gone, no target gets a client for its request any more, but for a
\* first shared one, whose connect goes by context.Background() (exporter.go:287); and no
\* collector asks a server on its behalf, whatever client the target has.  A pool of its own
\* may still be opened (exporter.go:438); PoolsBalanced says that it does not stay.
NothingForTheGone ==
    [][gone => \A i \in Targets :
                  /\ mine'[i] = mine[i] \/ (shared /\ i \notin built)
                  /\ mine[i] # "nil" => cached'[i] = cached[i]]_vars

\* The collectors in the registry of target i, which nobody gathers once it has refused one;
\* those that hold metrics; and how far the registry is.
Refused(i) == i = at /\ pc \in {"unwind", "ended"}
RegisteredOf(i) ==
    IF i < at THEN {Collectors[k] : k \in IF mine[i] = "nil" THEN {1} ELSE DOMAIN Collectors}
    ELSE IF i = at /\ pc = "register" THEN {Collectors[k] : k \in 1..(step - 1)}
    ELSE {}
FamilyOf(c) == IF c = "general" THEN "up" ELSE c
HoldingOf(i) == {c \in RegisteredOf(i) : \E s \in cached[i] : s.family = FamilyOf(c)}
Late(i) == mine[i] # "nil" /\ ctx[i] # "live"
StateOf(i) == IF i < at THEN "served" ELSE IF Refused(i) THEN "refused" ELSE "open"

Registry(i) == INSTANCE Registration WITH
                   Collectors <- {"general", "data"}, registered <- RegisteredOf(i),
                   cached <- HoldingOf(i), late <- Late(i), state <- StateOf(i)

\* The registry of each target is filled as Registration promises.
ImplementsRegistration ==
    /\ \A i \in Targets : Registry(i)!RegistryInit
    /\ [][\A i \in Targets : Registry(i)!RegistryStep]_vars

=============================================================================
