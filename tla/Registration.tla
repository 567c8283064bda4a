---------------------------- MODULE Registration ----------------------------
(***************************************************************************)
(* What the rest of the exporter may rely on while a registry is filled.   *)
(* Each collector is registered once; it then holds the metrics it found,  *)
(* or, when the scrape ran out of time with a client, none.  Either the    *)
(* registry is complete and will be gathered as it is, or it refused a     *)
(* collector and nothing of it will be.                                    *)
(***************************************************************************)
CONSTANTS Collectors      \* those that may be registered

VARIABLES registered,     \* the collectors in the registry
          cached,         \* those of them that hold metrics
          late,           \* there is a client, and the time is over
          state           \* "open", "served" or "refused"

registryVars == <<registered, cached, late, state>>

RegistryInit == registered = {} /\ cached = {} /\ late = FALSE /\ state = "open"

\* A collector is registered; it may be the last one.
RegisterOne(c) ==
    /\ state = "open" /\ c \notin registered
    /\ registered' = registered \cup {c}
    /\ \/ cached' = cached \cup {c}
       \/ late /\ UNCHANGED cached
    /\ state' \in {"open", "served"}
    /\ UNCHANGED late

Complete ==
    /\ state = "open" /\ state' = "served"
    /\ UNCHANGED <<registered, cached, late>>

RefuseAll ==
    /\ state = "open" /\ state' = "refused"
    /\ registered' = {} /\ cached' = {}
    /\ UNCHANGED late

TimeIsOver ==
    /\ ~late /\ late' = TRUE
    /\ UNCHANGED <<registered, cached, state>>

\* The scrape is over; the next one has a registry of its own.
Renew == state # "open" /\ RegistryInit'

RegistryNext ==
    \/ \E c \in Collectors : RegisterOne(c)
    \/ Complete \/ RefuseAll \/ TimeIsOver \/ Renew

RegistrySpec == RegistryInit /\ [][RegistryNext]_registryVars

\* A step of the specification, for those who fill several registries at once.
RegistryStep == RegistryNext \/ UNCHANGED registryVars

=============================================================================
