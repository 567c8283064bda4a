------------------------------ MODULE Namespaces ------------------------------
(***************************************************************************)
(* The collect functions that first list databases or collections and then *)
(* ask the server about them one by one: collstats, indexstats, dbstats    *)
(* and profile, and the count of collections, with the listings they share *)
(* (exporter/common.go).                                                   *)
(*                                                                         *)
(* Any call may fail; between two calls collections come and go.  Views    *)
(* are listed apart from collections.  A filter is a database, or a        *)
(* database and a pattern that is searched anywhere in the name.           *)
(***************************************************************************)
EXTENDS Keeping, Naturals, Sequences, SequencesExt, FiniteSets

CONSTANTS
    Namespaces,     \* pairs of a database and a name the server may have
    SystemDBs,      \* databases: admin, config, local
    SystemNames,    \* names that begin with "system."
    Found,          \* pairs of a pattern and a name it is found in
    Whole,          \* what a filter without a dot has for a pattern
    Modes,          \* the collect functions to run
    Filters,        \* the lists of --mongodb.collstats-colls, --mongodb.indexstats-colls
    Answers,        \* what $collStats, $indexStats may answer: sets of documents
    NoShard,        \* the shard of a document that names none
    MaxChanges      \* bound: collections created, dropped or replaced in a run

DBs == {ns[1] : ns \in Namespaces}
Stats == {"collstats", "indexstats"}

ASSUME NamespacesAssumption ==
    /\ Modes \subseteq Stats \cup {"dbstats", "profile", "count"}
    /\ \A ns \in Namespaces : ns = <<ns[1], ns[2]>> /\ ns[2] # Whole
    /\ \A filter \in Filters : filter \in Seq(Range(filter)) /\ \A e \in Range(filter) :
          IF e[2] = Whole THEN e = <<e[1], Whole>>
          ELSE e \in Namespaces /\ <<e[2], e[2]>> \in Found
    /\ {} \notin Answers /\ MaxChanges \in Nat
    /\ IsFiniteSet(Namespaces) /\ \A answer \in Answers : IsFiniteSet(answer)

VARIABLES
    mode, discovering, filter,   \* the collector, --discovering-mode, its list of namespaces
    server,    \* environment: "collection", "view" or "absent", by namespace
    changes,   \* bound
    calm,      \* no call has failed, and the server has not changed
    phase,     \* "databases", "collections", "query", "done", or "gaveUp"
    todo,      \* the listings to do: pairs of a database and a filter
    found,     \* what they have found
    items,     \* what to ask about: namespaces, or databases
    lost,      \* items the server has not answered for
    emitted    \* the label values of the metrics sent

vars == <<mode, discovering, filter, server, changes, calm, phase, todo, found, items, lost, emitted>>

Init ==
    /\ mode \in Modes /\ discovering \in BOOLEAN /\ filter \in Filters
    /\ mode \in Stats => discovering \/ filter # <<>>     \* else it is not registered
    /\ mode \notin Stats => ~discovering /\ filter = <<>>
    /\ server \in [Namespaces -> {"collection", "view", "absent"}]
    /\ changes = 0 /\ calm = TRUE
    /\ phase = "databases" /\ todo = {} /\ found = <<>> /\ items = <<>>
    /\ lost = {} /\ emitted = <<>>

Run == <<mode, discovering, filter>>

\* A call that fails: the collector sends no more than it has, or goes on as next says.
Fails(next) == calm' = FALSE /\ phase' = next

Existing == {ns[1] : ns \in {n \in Namespaces : server[n] # "absent"}}

\* databases: with the names of the filter, without the excluded ones.
Named(db) == filter = <<>> \/ \E e \in Range(filter) : e[1] = db
\* Variant: the system databases are not excluded.
IncludedAny(db) == mode \in Stats /\ discovering => Named(db)
Included(db) ==
    /\ mode \in Stats /\ discovering => Named(db)
    /\ mode = "count" \/ (mode \in Stats /\ discovering) => db \notin SystemDBs

\* Variant: a database without a filter is listed by its own name.
ListingsByName(dbs) == {<<db, db>> : db \in dbs}
\* listAllCollections: each database by each filter for it, or as a whole.
Listings(dbs) ==
    IF discovering /\ filter # <<>> THEN {e \in Range(filter) : e[1] \in dbs}
    ELSE {<<db, Whole>> : db \in dbs}

ListDatabases ==
    /\ phase = "databases"
    /\ \/ /\ LET dbs == {db \in Existing : Included(db)} IN
             IF mode \in {"dbstats", "profile"}
             THEN items' = SetToSeq(dbs) /\ phase' = "query" /\ UNCHANGED todo
             ELSE todo' = Listings(dbs) /\ phase' = "collections" /\ UNCHANGED items
          /\ UNCHANGED calm
       \/ Fails("gaveUp") /\ UNCHANGED <<todo, items>>
    /\ UNCHANGED <<Run, server, changes, found, lost, emitted>>

\* listCollections, without views.
Hits(listing) ==
    {ns \in Namespaces : /\ ns[1] = listing[1] /\ server[ns] = "collection"
                         /\ listing[2] = Whole \/ <<listing[2], ns[2]>> \in Found}

ListCollections ==
    /\ phase = "collections"
    /\ \E listing \in todo :
          \/ /\ found' = found \o SetToSeq(Hits(listing))
             /\ todo' = todo \ {listing}
             /\ UNCHANGED <<calm, phase>>
          \/ Fails("gaveUp") /\ UNCHANGED <<found, todo>>
    /\ UNCHANGED <<Run, server, changes, items, lost, emitted>>

\* Variant: what two filters find is taken twice.
UniqueOmitted(s) == s
Unique(s) == SetToSeq(Range(s))

Dotted == Keep(filter, {e \in Range(filter) : e[2] # Whole})

\* Discovery takes what was found.  Without, the namespaces of the command line are taken
\* if all those with a dot were found; one that was not, the collector gives up.
EndListing ==
    /\ phase = "collections" /\ todo = {}
    /\ IF mode = "count" THEN phase' = "done" /\ UNCHANGED items
       ELSE IF discovering THEN phase' = "query" /\ items' = Unique(found)
       ELSE IF Range(Dotted) \subseteq Range(found) THEN phase' = "query" /\ items' = Dotted
       ELSE phase' = "gaveUp" /\ UNCHANGED items
    /\ UNCHANGED <<Run, server, changes, calm, todo, found, lost, emitted>>

\* labels[name] = value
With(labels, name, value) ==
    [l \in DOMAIN labels \cup {name} |-> IF l = name THEN value ELSE labels[l]]

\* Variant: a document that names no shard gets no label for it.
ShardLabelIfAny(labels, doc) ==
    IF doc.shard = NoShard THEN labels ELSE With(labels, "shard", doc.shard)
\* setShardLabel
ShardLabel(labels, doc) == With(labels, "shard", doc.shard)

\* The label values that tell the metrics of an item apart.
Series(item, answer) ==
    IF mode \notin Stats THEN {[database |-> item]}
    ELSE LET labels == [database |-> item[1], collection |-> item[2]] IN
         {ShardLabel(IF mode = "indexstats" THEN With(labels, "key_name", doc.key) ELSE labels, doc)
             : doc \in answer}

Skipped(item) == mode \in Stats /\ item[2] \in SystemNames

\* Variant: dbstats stops at the first database that fails, as profile does.
AfterFailureStop == IF mode \in {"dbstats", "profile"} THEN "done" ELSE "query"
AfterFailure == IF mode = "profile" THEN "done" ELSE "query"

Query ==
    /\ phase = "query" /\ items # <<>>
    /\ items' = Tail(items)
    /\ LET item == Head(items) IN
       \/ /\ Skipped(item)
          /\ UNCHANGED <<calm, phase, lost, emitted>>
       \/ /\ ~Skipped(item)
          /\ mode \in Stats => server[item] = "collection"
          /\ \E answer \in Answers : emitted' = emitted \o SetToSeq(Series(item, answer))
          /\ UNCHANGED <<calm, phase, lost>>
       \/ /\ ~Skipped(item)
          /\ Fails(AfterFailure)
          /\ lost' = lost \cup {item}
          /\ UNCHANGED emitted
    /\ UNCHANGED <<Run, server, changes, todo, found>>

EndQueries ==
    /\ phase = "query" /\ items = <<>>
    /\ phase' = "done"
    /\ UNCHANGED <<Run, server, changes, calm, todo, found, items, lost, emitted>>

ChangeServer ==
    /\ phase \notin {"done", "gaveUp"} /\ changes < MaxChanges
    /\ \E ns \in Namespaces, kind \in {"collection", "view", "absent"} :
          kind # server[ns] /\ server' = [server EXCEPT ![ns] = kind]
    /\ changes' = changes + 1 /\ calm' = FALSE
    /\ UNCHANGED <<Run, phase, todo, found, items, lost, emitted>>

Next == ListDatabases \/ ListCollections \/ EndListing \/ Query \/ EndQueries \/ ChangeServer

Spec == Init /\ [][Next]_vars

-----------------------------------------------------------------------------
(***************************************************************************)
(* Properties.                                                             *)
(***************************************************************************)
TypeOK ==
    /\ mode \in Modes /\ discovering \in BOOLEAN /\ filter \in Filters
    /\ server \in [Namespaces -> {"collection", "view", "absent"}]
    /\ changes \in 0..MaxChanges /\ calm \in BOOLEAN
    /\ phase \in {"databases", "collections", "query", "done", "gaveUp"}
    /\ todo \subseteq DBs \X ({Whole} \cup {ns[2] : ns \in Namespaces})
    /\ found \in Seq(Namespaces)
    /\ lost \cup Range(items) \subseteq IF mode \in Stats THEN Namespaces ELSE DBs

Served == {IF mode \in Stats THEN <<m.database, m.collection>> ELSE m.database : m \in Range(emitted)}

\* What the filter of the command line asks for: with discovery every collection it
\* matches outside the system databases, without it the collections it names.
Asked(ns) ==
    IF discovering
    THEN /\ ns[1] \notin SystemDBs
         /\ filter # <<>> => \E e \in Range(filter) :
               e[1] = ns[1] /\ (e[2] = Whole \/ <<e[2], ns[2]>> \in Found)
    ELSE ns \in Range(filter)

Collections == {ns \in Namespaces : server[ns] = "collection"}
NonSystem == {ns \in Namespaces : ns[2] \notin SystemNames}

\* A run that no failure and no change disturbs serves exactly what was asked for; a name
\* on the command line that is not a collection silences the whole collector.
CalmServesAsked ==
    phase \in {"done", "gaveUp"} /\ calm =>
        CASE mode \in {"dbstats", "profile"} -> Served = Existing
          [] mode = "count" ->
                Len(found) = Cardinality({ns \in Collections : ns[1] \notin SystemDBs})
          [] mode \in Stats ->
                IF ~discovering /\ \E e \in Range(filter) : e[2] # Whole /\ e \notin Collections
                THEN Served = {}
                ELSE Served = {ns \in Collections \cap NonSystem : Asked(ns)}

\* A database whose dbStats fails costs its own metrics only.
OneFailureLosesOne ==
    phase = "done" /\ mode = "dbstats" /\ changes = 0 => Served = Existing \ lost

\* No two metrics of a collector have the same label values, whatever filters overlap,
\* as long as the command line does not name one collection twice.
SeriesDistinct ==
    IsInjective(filter) => IsInjective(emitted)

\* common.go:275 "MustRegister panics when a collector describes one fully-qualified name
\* with two different label sets": a collector's metrics all have the same labels.
LabelsAgree == \A m, n \in Range(emitted) : DOMAIN m = DOMAIN n
=============================================================================
