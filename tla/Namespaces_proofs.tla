-------------------------- MODULE Namespaces_proofs --------------------------
(***************************************************************************)
(* Proofs about Namespaces for any server, any filters and any number of   *)
(* changes: all metrics of a run have the same labels, and what a database *)
(* that fails costs.                                                       *)
(***************************************************************************)
EXTENDS Namespaces, SequenceLemmas

-----------------------------------------------------------------------------
(***************************************************************************)
(* Labels.                                                                 *)
(***************************************************************************)

\* The labels of the collector that runs.
LabelNames ==
    IF mode \notin Stats THEN {"database"}
    ELSE {"database", "collection", "shard"} \cup IF mode = "indexstats" THEN {"key_name"} ELSE {}

\* What has been sent so far has those labels.
LabelsInv ==
    /\ mode \in Modes
    /\ emitted \in Seq(Range(emitted))
    /\ \A m \in Range(emitted) : DOMAIN m = LabelNames

\* Each document of an answer becomes a series with the labels of its collector.
LEMMA SeriesLabels ==
    ASSUME NEW item, NEW answer, mode \in Modes, NEW m \in Series(item, answer)
    PROVE  DOMAIN m = LabelNames
<1>1. CASE mode \notin Stats
  BY <1>1 DEF Series, LabelNames
<1>2. CASE mode \in Stats
  <2> DEFINE labels == [database |-> item[1], collection |-> item[2]]
  <2>1. PICK doc \in answer :
           m = ShardLabel(IF mode = "indexstats" THEN With(labels, "key_name", doc.key)
                          ELSE labels, doc)
    BY <1>2 DEF Series
  <2>2. DOMAIN labels = {"database", "collection"}
    OBVIOUS
  <2>3. DOMAIN With(labels, "key_name", doc.key) = {"database", "collection", "key_name"}
    BY <2>2 DEF With
  <2>4. QED BY <1>2, <2>1, <2>2, <2>3 DEF ShardLabel, With, LabelNames
<1>3. QED BY <1>1, <1>2

\* A finite answer gives finitely many series, of which SetToSeq makes a sequence.
LEMMA SeriesFinite ==
    ASSUME NEW item, NEW answer \in Answers
    PROVE  IsFiniteSet(Series(item, answer))
<1>1. CASE mode \notin Stats
  BY <1>1, FS_Singleton DEF Series
<1>2. CASE mode \in Stats
  <2> DEFINE labels == [database |-> item[1], collection |-> item[2]]
             of(doc) == ShardLabel(IF mode = "indexstats" THEN With(labels, "key_name", doc.key)
                                   ELSE labels, doc)
             f == [doc \in answer |-> of(doc)]
  <2>1. Series(item, answer) = {of(doc) : doc \in answer}
    BY <1>2 DEF Series
  <2>2. f \in [answer -> {of(doc) : doc \in answer}]
    OBVIOUS
  <2>3. f \in Surjection(answer, {of(doc) : doc \in answer})
    BY <2>2 DEF Surjection
  <2>4. QED BY <2>1, <2>3, NamespacesAssumption, FS_Surjection
<1>3. QED BY <1>1, <1>2

\* What has been sent always has the labels of its collector.
LEMMA LabelsKept == Spec => []LabelsInv
<1>1. Init => LabelsInv
  BY DEF Init, LabelsInv, Range
<1>2. LabelsInv /\ [Next]_vars => LabelsInv'
  <2> SUFFICES ASSUME LabelsInv, [Next]_vars PROVE LabelsInv'
    OBVIOUS
  <2>1. CASE UNCHANGED <<mode, emitted>>
    BY <2>1 DEF LabelsInv, LabelNames
  <2>2. CASE Query /\ ~UNCHANGED <<mode, emitted>>
    <3>1. PICK answer \in Answers :
             emitted' = emitted \o SetToSeq(Series(Head(items), answer)) /\ mode' = mode
      BY <2>2 DEF Query, Run
    <3> DEFINE new == SetToSeq(Series(Head(items), answer))
    <3>2. new \in Seq(Range(new)) /\ Range(new) = Series(Head(items), answer)
      BY SeriesFinite, SetToSeqIsBijection
    <3>a. emitted \in Seq(Range(emitted)) /\ emitted' = emitted \o new
      BY <3>1 DEF LabelsInv
    <3> HIDE DEF new
    <3>3. /\ emitted' \in Seq(Range(emitted'))
          /\ Range(emitted') = Range(emitted) \cup Range(new)
      BY <3>2, <3>a, Concatenation
    <3>4. \A m \in Range(emitted') : DOMAIN m = LabelNames
      BY <3>2, <3>3, SeriesLabels DEF LabelsInv
    <3>5. LabelNames' = LabelNames
      BY <3>1 DEF LabelNames
    <3>6. QED BY <3>1, <3>3, <3>4, <3>5 DEF LabelsInv
  <2>3. QED BY <2>1, <2>2 DEF Next, ListDatabases, ListCollections, EndListing, EndQueries,
                              ChangeServer, Run, vars
<1>3. QED BY <1>1, <1>2, PTL DEF Spec

\* For any server, any answers and any failures, a collector never gives one name two
\* different sets of labels.
THEOREM LabelsAgreeCorrect == Spec => []LabelsAgree
<1>1. LabelsInv => LabelsAgree
  BY DEF LabelsInv, LabelsAgree
<1>2. QED BY <1>1, LabelsKept, PTL

-----------------------------------------------------------------------------
(***************************************************************************)
(* Databases whose statistics fail.                                        *)
(***************************************************************************)

\* With dbstats, and without changes of the server, every database is served, lost or still
\* to be asked about.
DatabasesInv ==
    /\ changes \in Nat
    /\ mode = "dbstats" /\ changes = 0 =>
        /\ phase \in {"databases", "query", "done", "gaveUp"}
        /\ phase = "databases" => Served = {} /\ lost = {}
        /\ phase = "query" =>
              /\ items \in Seq(DBs) /\ IsInjective(items)
              /\ Existing = Served \cup lost \cup Range(items)
              /\ Served \cap lost = {} /\ Range(items) \cap (Served \cup lost) = {}
        /\ phase = "done" => Served = Existing \ lost

\* A database that is asked is served or lost, and the others stay to be asked.
LEMMA QueryDatabase ==
    ASSUME DatabasesInv, LabelsInv, Query
    PROVE  DatabasesInv'
<1> SUFFICES ASSUME mode = "dbstats", changes = 0
             PROVE  DatabasesInv'
  BY DEF Query, Run, DatabasesInv
<1> DEFINE item == Head(items)
<1>1. /\ phase = "query" /\ items # <<>> /\ items' = Tail(items)
      /\ UNCHANGED <<mode, server, changes>>
      /\ items \in Seq(DBs) /\ IsInjective(items)
      /\ Existing = Served \cup lost \cup Range(items)
      /\ Served \cap lost = {} /\ Range(items) \cap (Served \cup lost) = {}
  BY DEF Query, Run, DatabasesInv
<1>2. /\ items' \in Seq(DBs) /\ IsInjective(items')
      /\ Range(items) = {item} \cup Range(items') /\ item \notin Range(items')
  BY <1>1, HeadAndRest
<1>3. Existing' = Existing
  BY <1>1 DEF Existing
<1>4. Served = {m.database : m \in Range(emitted)} /\ Served' = {m.database : m \in Range(emitted')}
  BY <1>1 DEF Served, Stats
<1> HIDE DEF item
<1>5. /\ phase' = "query"
      /\ \/ Served' = Served \cup {item} /\ lost' = lost
         \/ Served' = Served /\ lost' = lost \cup {item}
  <2>1. CASE \E answer \in Answers : /\ emitted' = emitted \o SetToSeq(Series(item, answer))
                                     /\ phase' = phase /\ lost' = lost
    <3>1. PICK answer \in Answers : emitted' = emitted \o SetToSeq(Series(item, answer))
      BY <2>1
    <3>2. Series(item, answer) = {[database |-> item]}
      BY DEF Series, Stats
    <3> DEFINE new == SetToSeq({[database |-> item]})
    <3>3. new \in Seq(Range(new)) /\ Range(new) = {[database |-> item]}
      BY FS_Singleton, SetToSeqIsBijection
    <3>4. emitted' = emitted \o new /\ emitted \in Seq(Range(emitted))
      BY <3>1, <3>2 DEF LabelsInv
    <3> HIDE DEF new
    <3>5. Range(emitted') = Range(emitted) \cup {[database |-> item]}
      BY <3>3, <3>4, Concatenation
    <3>6. Served' = Served \cup {item}
      <4>1. {m.database : m \in {[database |-> item]}} = {item}
        OBVIOUS
      <4>2. QED BY <1>4, <3>5, <4>1
    <3>7. QED BY <1>1, <2>1, <3>6
  <2>2. CASE Fails(AfterFailure) /\ lost' = lost \cup {item} /\ UNCHANGED emitted
    BY <1>1, <1>4, <2>2 DEF Fails, AfterFailure
  <2>3. ~Skipped(item)
    BY DEF Skipped, Stats
  <2>4. QED BY <2>1, <2>2, <2>3 DEF Query, item
<1>6. QED BY <1>1, <1>2, <1>3, <1>5 DEF DatabasesInv

\* For any server whose databases do not change meanwhile, a database whose dbStats fails
\* costs its own metrics only.
THEOREM OneFailureLosesOneCorrect == Spec => []OneFailureLosesOne
<1>1. Init => DatabasesInv /\ LabelsInv
  BY DEF Init, DatabasesInv, LabelsInv, Served, Range
<1>2. DatabasesInv /\ LabelsInv /\ [Next]_vars => DatabasesInv'
  <2> SUFFICES ASSUME DatabasesInv, LabelsInv, [Next]_vars PROVE DatabasesInv'
    OBVIOUS
  <2>1. CASE Query
    BY <2>1, QueryDatabase
  <2>2. CASE ListDatabases
    <3> SUFFICES ASSUME mode = "dbstats", changes = 0
                 PROVE  DatabasesInv'
      BY <2>2 DEF ListDatabases, Run, DatabasesInv
    <3>1. /\ phase = "databases" /\ UNCHANGED <<mode, server, changes, lost, emitted>>
          /\ Served = {} /\ lost = {}
      BY <2>2 DEF ListDatabases, Run, DatabasesInv
    <3>2. Served' = Served /\ Existing' = Existing
      BY <3>1 DEF Served, Existing
    <3>3. CASE phase' = "gaveUp"
      BY <3>1, <3>3 DEF DatabasesInv
    <3>4. CASE phase' = "query" /\ items' = SetToSeq({db \in Existing : Included(db)})
      <4>1. {db \in Existing : Included(db)} = Existing
        BY DEF Included, Stats
      <4>2. Existing \subseteq DBs /\ IsFiniteSet(DBs)
        <5>1. Existing \subseteq DBs
          BY DEF Existing, DBs
        <5> DEFINE f == [ns \in Namespaces |-> ns[1]]
        <5>2. f \in Surjection(Namespaces, DBs)
          BY DEF Surjection, DBs
        <5>3. QED BY <5>1, <5>2, FS_Surjection, NamespacesAssumption
      <4>3. IsFiniteSet(Existing)
        BY <4>2, FS_Subset
      <4>4. items' \in Seq(DBs) /\ Range(items') = Existing /\ IsInjective(items')
        <5>1. items' = SetToSeq(Existing)
          BY <3>4, <4>1
        <5>2. items' \in Seq(Existing) /\ Range(items') = Existing /\ IsInjective(items')
          BY <4>3, <5>1, SetToSeqIsBijection
        <5>3. QED BY <4>2, <5>2
      <4>5. Existing' = Range(items') /\ Served' = {} /\ lost' = {} /\ phase' = "query"
        BY <3>1, <3>2, <3>4, <4>4
      <4>6. changes' \in Nat
        BY <3>1 DEF DatabasesInv
      <4>7. QED BY <4>4, <4>5, <4>6 DEF DatabasesInv
    <3>5. QED BY <2>2, <3>3, <3>4 DEF ListDatabases, Fails
  <2>3. CASE EndQueries
    <3>1. /\ phase = "query" /\ phase' = "done" /\ items = <<>>
          /\ UNCHANGED <<mode, server, changes, items, lost, emitted>>
      BY <2>3 DEF EndQueries, Run
    <3>2. Served' = Served /\ Existing' = Existing /\ Range(items) = {}
      BY <3>1 DEF Served, Existing, Range
    <3>3. QED BY <3>1, <3>2 DEF DatabasesInv
  <2>4. CASE ListCollections \/ EndListing
    BY <2>4 DEF ListCollections, EndListing, DatabasesInv, Run
  <2>5. CASE ChangeServer
    <3>1. changes' \in Nat /\ changes' # 0
      BY <2>5 DEF ChangeServer, DatabasesInv
    <3>2. QED BY <3>1 DEF DatabasesInv
  <2>6. CASE UNCHANGED vars
    <3>1. UNCHANGED <<mode, changes, server, phase, items, lost, emitted>>
      BY <2>6 DEF vars, Run
    <3>2. Served' = Served /\ Existing' = Existing
      BY <3>1 DEF Served, Existing
    <3>3. QED BY <3>1, <3>2 DEF DatabasesInv
  <2>7. QED BY <2>1, <2>2, <2>3, <2>4, <2>5, <2>6 DEF Next
<1>3. DatabasesInv => OneFailureLosesOne
  BY DEF DatabasesInv, OneFailureLosesOne
<1>4. QED BY <1>1, <1>2, <1>3, LabelsKept, PTL DEF Spec

-----------------------------------------------------------------------------
(***************************************************************************)
(* Types, series and what a calm run serves.                               *)
(***************************************************************************)

\* What is asked about one after another: collections, or databases.
Items == IF mode \in Stats THEN Namespaces ELSE DBs

\* What a run is for, the server, and where the run is.
RunInv ==
    /\ mode \in Modes /\ discovering \in BOOLEAN /\ filter \in Filters
    /\ mode \notin Stats => ~discovering /\ filter = <<>>
    /\ server \in [Namespaces -> {"collection", "view", "absent"}]
    /\ changes \in 0..MaxChanges /\ calm \in BOOLEAN
    /\ phase \in {"databases", "collections", "query", "done", "gaveUp"}
    /\ todo \subseteq DBs \X ({Whole} \cup {ns[2] : ns \in Namespaces})
    /\ found \in Seq(Namespaces) /\ items \in Seq(Items) /\ lost \subseteq Items
    /\ phase \in {"databases", "collections"} => items = <<>> /\ emitted = <<>>
    /\ phase = "databases" => found = <<>>
    /\ phase = "collections" => mode \in Stats \cup {"count"}
    /\ phase = "query" => mode # "count"

\* An item whose metrics are sent is not asked about again.
DistinctInv ==
    IsInjective(filter) =>
        IsInjective(items) /\ IsInjective(emitted) /\ Served \cap Range(items) = {}

\* What the listings are to find.
ToFind ==
    IF mode = "count" THEN {ns \in Collections : ns[1] \notin SystemDBs}
    ELSE IF discovering THEN {ns \in Collections : Asked(ns)}
    ELSE Collections

\* What is to be served.
ToServe == IF mode \in Stats THEN {ns \in Collections \cap NonSystem : Asked(ns)} ELSE Existing

\* Every name on the command line is that of a collection.
NamesAreCollections == \A e \in Range(filter) : e[2] # Whole => e \in Collections

\* What is found and what is still to be found make what is to be found; likewise what is served.
CalmInv ==
    calm =>
        /\ phase = "collections" =>
              /\ ToFind = Range(found) \cup UNION {Hits(listing) : listing \in todo}
              /\ mode = "count" =>
                    /\ IsInjective(found)
                    /\ \A listing \in todo : listing = <<listing[1], Whole>>
                    /\ \A ns \in Range(found), listing \in todo : ns[1] # listing[1]
        /\ phase = "query" =>
              /\ ToServe = Served \cup {item \in Range(items) : ~Skipped(item)}
              /\ mode \in Stats /\ ~discovering => NamesAreCollections
        /\ CalmServesAsked

\* What is listed is finite.
LEMMA Finite ==
    ASSUME NEW S \in SUBSET Namespaces
    PROVE  IsFiniteSet(S) /\ IsFiniteSet(DBs) /\ Existing \subseteq DBs
<1>1. IsFiniteSet(S)
  BY FS_Subset, NamespacesAssumption
<1>2. Existing \subseteq DBs
  BY DEF Existing, DBs
<1> DEFINE f == [ns \in Namespaces |-> ns[1]]
<1>3. f \in Surjection(Namespaces, DBs)
  BY DEF Surjection, DBs
<1>4. IsFiniteSet(DBs)
  BY <1>3, FS_Surjection, NamespacesAssumption
<1>5. QED BY <1>1, <1>2, <1>4

\* The names of the command line: each one a namespace, none twice if the list repeats none.
LEMMA DottedIs ==
    ASSUME filter \in Filters
    PROVE  /\ Dotted \in Seq(Namespaces)
           /\ Range(Dotted) = {e \in Range(filter) : e[2] # Whole}
           /\ Range(Dotted) \subseteq Namespaces
           /\ IsInjective(filter) => IsInjective(Dotted)
<1> DEFINE T == {e \in Range(filter) : e[2] # Whole}
<1>1. filter \in Seq(Range(filter)) /\ T \subseteq Namespaces
  BY NamespacesAssumption
<1>2. Dotted = Keep(filter, T)
  BY DEF Dotted
<1> HIDE DEF T
<1>3. /\ Dotted \in Seq(Range(filter))
      /\ Range(Dotted) = Range(filter) \cap T
      /\ IsInjective(filter) => IsInjective(Dotted)
  BY <1>1, <1>2, KeepProperties
<1>4. Range(Dotted) = T
  BY <1>3 DEF T
<1>5. Dotted \in Seq(Namespaces)
  <2>1. DOMAIN Dotted = 1..Len(Dotted) /\ Len(Dotted) \in Nat
        /\ Dotted = [k \in 1..Len(Dotted) |-> Dotted[k]]
    BY <1>3
  <2>2. \A k \in 1..Len(Dotted) : Dotted[k] \in Namespaces
    BY <1>1, <1>4, <2>1 DEF Range
  <2>3. QED BY <2>1, <2>2
<1>6. QED BY <1>1, <1>3, <1>4, <1>5 DEF T

\* Everything that is listed is a database with a filter for it.
LEMMA ListingsIs ==
    ASSUME filter \in Filters, NEW dbs \in SUBSET DBs, NEW listing \in Listings(dbs)
    PROVE  /\ listing = <<listing[1], listing[2]>> /\ listing[1] \in dbs
           /\ listing[2] \in {Whole} \cup {ns[2] : ns \in Namespaces}
<1>1. CASE discovering /\ filter # <<>>
  <2>1. listing \in Range(filter) /\ listing[1] \in dbs
    BY <1>1 DEF Listings
  <2>2. listing = <<listing[1], Whole>> \/ listing \in Namespaces
    BY <2>1, NamespacesAssumption
  <2>3. CASE listing = <<listing[1], Whole>>
    BY <2>1, <2>3
  <2>4. CASE listing \in Namespaces
    BY <2>1, <2>4, NamespacesAssumption
  <2>5. QED BY <2>2, <2>3, <2>4
<1>2. CASE ~(discovering /\ filter # <<>>)
  BY <1>2 DEF Listings
<1>3. QED BY <1>1, <1>2

\* An item is listed, asked about and served as the same namespace or database.
LEMMA SeriesOf ==
    ASSUME mode \in Modes, NEW item \in Items, NEW answer \in Answers
    PROVE  /\ {IF mode \in Stats THEN <<m.database, m.collection>> ELSE m.database
                  : m \in Series(item, answer)} = {item}
           /\ IsFiniteSet(Series(item, answer))
<1>1. IsFiniteSet(Series(item, answer))
  BY SeriesFinite
<1>2. CASE mode \notin Stats
  <2>1. Series(item, answer) = {[database |-> item]}
    BY <1>2 DEF Series
  <2>2. {m.database : m \in {[database |-> item]}} = {item}
    OBVIOUS
  <2>3. QED BY <1>1, <1>2, <2>1, <2>2
<1>3. CASE mode \in Stats
  <2> DEFINE labels == [database |-> item[1], collection |-> item[2]]
             of(doc) == ShardLabel(IF mode = "indexstats" THEN With(labels, "key_name", doc.key)
                                   ELSE labels, doc)
  <2>1. Series(item, answer) = {of(doc) : doc \in answer} /\ answer # {}
    BY <1>3, NamespacesAssumption DEF Series
  <2>2. item = <<item[1], item[2]>>
    BY <1>3, NamespacesAssumption DEF Items
  <2>3. ASSUME NEW doc \in answer PROVE of(doc).database = item[1] /\ of(doc).collection = item[2]
    <3>1. DOMAIN labels = {"database", "collection"} /\ labels.database = item[1] /\ labels.collection = item[2]
      OBVIOUS
    <3> DEFINE more == With(labels, "key_name", doc.key)
    <3>2. /\ DOMAIN more = {"database", "collection", "key_name"}
          /\ more.database = item[1] /\ more.collection = item[2]
      BY <3>1 DEF With
    <3> HIDE DEF labels, more
    <3>3. PICK known : /\ {"database", "collection"} \subseteq DOMAIN known
                       /\ known.database = item[1] /\ known.collection = item[2]
                       /\ of(doc) = With(known, "shard", doc.shard)
      BY <3>1, <3>2 DEF ShardLabel, labels, more
    <3>4. With(known, "shard", doc.shard).database = item[1]
          /\ With(known, "shard", doc.shard).collection = item[2]
      BY <3>3 DEF With
    <3>5. QED BY <3>3, <3>4
  <2> HIDE DEF of
  <2>4. ASSUME NEW m \in Series(item, answer) PROVE <<m.database, m.collection>> = item
    BY <2>1, <2>2, <2>3
  <2>5. Series(item, answer) # {}
    BY <2>1
  <2>6. QED BY <1>1, <1>3, <2>4, <2>5
<1>4. QED BY <1>2, <1>3

\* What an item that is asked about becomes.
LEMMA QueryIs ==
    ASSUME RunInv, LabelsInv, Query
    PROVE  /\ items \in Seq(Items) /\ items # <<>> /\ Head(items) \in Items
           /\ items' = Tail(items) /\ items' \in Seq(Items)
           /\ Range(items) = {Head(items)} \cup Range(items')
           /\ UNCHANGED <<mode, discovering, filter, server, changes, todo, found>>
           /\ \/ Skipped(Head(items)) /\ UNCHANGED <<calm, phase, lost, emitted, Served>>
              \/ /\ ~Skipped(Head(items)) /\ UNCHANGED <<calm, phase, lost>>
                 /\ \E answer \in Answers :
                       /\ emitted' = emitted \o SetToSeq(Series(Head(items), answer))
                       /\ Range(emitted') = Range(emitted) \cup Series(Head(items), answer)
                 /\ Served' = Served \cup {Head(items)}
              \/ /\ ~Skipped(Head(items)) /\ Fails(AfterFailure) /\ phase' \in {"query", "done"}
                 /\ lost' = lost \cup {Head(items)} /\ UNCHANGED <<emitted, Served>>
<1> DEFINE item == Head(items)
<1>1. /\ phase = "query" /\ items \in Seq(Items) /\ items # <<>> /\ items' = Tail(items)
      /\ UNCHANGED <<mode, discovering, filter, server, changes, todo, found>>
      /\ emitted \in Seq(Range(emitted)) /\ mode \in Modes
  BY DEF Query, Run, RunInv, LabelsInv
<1>2. /\ Tail(items) \in Seq(Items) /\ item \in Items
      /\ Range(items) = {item} \cup Range(Tail(items))
  <2>1. /\ Tail(items) \in Seq(Items) /\ item = items[1] /\ item \in Items
        /\ Len(items) \in Nat \ {0} /\ Len(Tail(items)) = Len(items) - 1
        /\ \A k \in 1..Len(Tail(items)) : Tail(items)[k] = items[k + 1]
    BY <1>1, HeadTailProperties
  <2>2. DOMAIN items = 1..Len(items) /\ DOMAIN Tail(items) = 1..(Len(items) - 1)
    BY <1>1, <2>1
  <2>3. ASSUME NEW x \in Range(items) PROVE x \in {item} \cup Range(Tail(items))
    <3>1. PICK k \in 1..Len(items) : x = items[k]
      BY <2>2 DEF Range
    <3>2. CASE k = 1
      BY <2>1, <3>1, <3>2
    <3>3. CASE k # 1
      <4>1. k - 1 \in 1..(Len(items) - 1) /\ (k - 1) + 1 = k
        BY <2>1, <3>3
      <4>2. Tail(items)[k - 1] = x
        BY <2>1, <3>1, <4>1
      <4>3. QED BY <2>2, <4>1, <4>2 DEF Range
    <3>4. QED BY <3>2, <3>3
  <2>4. Range(Tail(items)) \cup {item} \subseteq Range(items)
    <3>1. 1 \in DOMAIN items
      BY <2>1, <2>2
    <3>2. \A k \in 1..(Len(items) - 1) : k + 1 \in DOMAIN items /\ Tail(items)[k] = items[k + 1]
      BY <2>1, <2>2
    <3>3. QED BY <2>1, <2>2, <3>1, <3>2 DEF Range
  <2>5. QED BY <2>1, <2>3, <2>4
<1>3. CASE Skipped(item) /\ UNCHANGED <<calm, phase, lost, emitted>>
  BY <1>1, <1>2, <1>3 DEF Served
<1>4. CASE /\ ~Skipped(item) /\ UNCHANGED <<calm, phase, lost>>
           /\ \E answer \in Answers : emitted' = emitted \o SetToSeq(Series(item, answer))
  <2>1. PICK answer \in Answers : emitted' = emitted \o SetToSeq(Series(item, answer))
    BY <1>4
  <2> DEFINE new == SetToSeq(Series(item, answer))
             name(m) == IF mode \in Stats THEN <<m.database, m.collection>> ELSE m.database
  <2>2. IsFiniteSet(Series(item, answer)) /\ {name(m) : m \in Series(item, answer)} = {item}
    BY <1>1, <1>2, SeriesOf
  <2>3. new \in Seq(Range(new)) /\ Range(new) = Series(item, answer)
    BY <2>2, SetToSeqIsBijection
  <2>4. emitted' = emitted \o new
    BY <2>1
  <2> HIDE DEF new
  <2>5. Range(emitted') = Range(emitted) \cup Series(item, answer)
    BY <1>1, <2>3, <2>4, Concatenation
  <2>6. Served' = {name(m) : m \in Range(emitted')} /\ Served = {name(m) : m \in Range(emitted)}
    BY <1>1 DEF Served
  <2> HIDE DEF name
  <2>7. Served' = Served \cup {item}
    BY <2>2, <2>5, <2>6
  <2>8. QED BY <1>1, <1>2, <1>4, <2>1, <2>5, <2>7
<1>5. CASE ~Skipped(item) /\ Fails(AfterFailure) /\ lost' = lost \cup {item} /\ UNCHANGED emitted
  <2>1. phase' \in {"query", "done"}
    BY <1>5 DEF Fails, AfterFailure
  <2>2. Served' = Served
    BY <1>1, <1>5 DEF Served
  <2>3. QED BY <1>1, <1>2, <1>5, <2>1, <2>2
<1>6. QED BY <1>3, <1>4, <1>5 DEF Query

\* A set of items is asked about one by one, each once.
LEMMA OneByOne ==
    ASSUME NEW T, NEW S \in SUBSET T, IsFiniteSet(S)
    PROVE  SetToSeq(S) \in Seq(T) /\ Range(SetToSeq(S)) = S /\ IsInjective(SetToSeq(S))
<1>1. SetToSeq(S) \in Seq(S) /\ Range(SetToSeq(S)) = S /\ IsInjective(SetToSeq(S))
  BY SetToSeqIsBijection
<1>2. SetToSeq(S) \in Seq(T)
  BY <1>1
<1>3. QED BY <1>1, <1>2

\* The first state.
LEMMA InitRun == Init => RunInv /\ LabelsInv /\ DistinctInv /\ CalmInv
<1> SUFFICES ASSUME Init PROVE RunInv /\ LabelsInv /\ DistinctInv /\ CalmInv
  OBVIOUS
<1>1. <<>> \in Seq(Namespaces) /\ <<>> \in Seq(Items) /\ Range(<<>>) = {} /\ IsInjective(<<>>)
  BY DEF Range, IsInjective
<1>2. RunInv
  BY <1>1, NamespacesAssumption DEF Init, RunInv
<1>3. LabelsInv
  BY DEF Init, LabelsInv, Range
<1>4. DistinctInv
  BY <1>1 DEF Init, DistinctInv
<1>5. CalmInv
  BY DEF Init, CalmInv, CalmServesAsked
<1>6. QED BY <1>2, <1>3, <1>4, <1>5

\* Every step keeps the types, and asks about no item twice that is named once.
LEMMA RunStep == RunInv /\ LabelsInv /\ [Next]_vars => RunInv'
<1> SUFFICES ASSUME RunInv, LabelsInv, [Next]_vars PROVE RunInv'
  OBVIOUS
<1>0. mode' = mode => Items' = Items
  BY DEF Items
<1>1. CASE ListDatabases
  <2>1. /\ phase = "databases" /\ UNCHANGED <<mode, discovering, filter, server, changes, found, lost, emitted>>
        /\ items = <<>> /\ emitted = <<>> /\ Items' = Items
    BY <1>0, <1>1 DEF ListDatabases, Run, RunInv
  <2> DEFINE dbs == {db \in Existing : Included(db)}
  <2>2. dbs \in SUBSET DBs /\ IsFiniteSet(dbs)
    BY Finite, FS_Subset
  <2>3. CASE mode \in {"dbstats", "profile"} /\ items' = SetToSeq(dbs) /\ phase' = "query"
             /\ UNCHANGED todo /\ UNCHANGED calm
    <3>1. items' \in Seq(DBs)
      BY <2>2, <2>3, OneByOne
    <3>2. Items = DBs
      BY <2>3 DEF Items, Stats
    <3>3. QED BY <2>1, <2>3, <3>1, <3>2 DEF RunInv
  <2>4. CASE mode \notin {"dbstats", "profile"} /\ todo' = Listings(dbs) /\ phase' = "collections"
             /\ UNCHANGED items /\ UNCHANGED calm
    <3>1. todo' \subseteq DBs \X ({Whole} \cup {ns[2] : ns \in Namespaces})
      <4>1. \A listing \in Listings(dbs) :
               /\ listing = <<listing[1], listing[2]>> /\ listing[1] \in DBs
               /\ listing[2] \in {Whole} \cup {ns[2] : ns \in Namespaces}
        BY <2>2, ListingsIs DEF RunInv
      <4>2. QED BY <2>4, <4>1
    <3>2. mode \in Stats \cup {"count"}
      BY <2>4, NamespacesAssumption DEF RunInv
    <3>3. QED BY <2>1, <2>4, <3>1, <3>2 DEF RunInv
  <2>5. CASE Fails("gaveUp") /\ UNCHANGED <<todo, items>>
    BY <2>1, <2>5 DEF RunInv, Fails
  <2>6. QED BY <1>1, <2>3, <2>4, <2>5 DEF ListDatabases
<1>2. CASE ListCollections
  <2>1. /\ phase = "collections"
        /\ UNCHANGED <<mode, discovering, filter, server, changes, items, lost, emitted>>
        /\ Items' = Items
    BY <1>0, <1>2 DEF ListCollections, Run
  <2>2. PICK listing \in todo :
           \/ /\ found' = found \o SetToSeq(Hits(listing)) /\ todo' = todo \ {listing}
              /\ UNCHANGED <<calm, phase>>
           \/ Fails("gaveUp") /\ UNCHANGED <<found, todo>>
    BY <1>2 DEF ListCollections
  <2>3. CASE Fails("gaveUp") /\ UNCHANGED <<found, todo>>
    BY <2>1, <2>3 DEF RunInv, Fails
  <2>4. CASE /\ found' = found \o SetToSeq(Hits(listing)) /\ todo' = todo \ {listing}
             /\ UNCHANGED <<calm, phase>>
    <3>1. Hits(listing) \in SUBSET Namespaces /\ IsFiniteSet(Hits(listing))
      <4>1. Hits(listing) \in SUBSET Namespaces
        BY DEF Hits
      <4>2. QED BY <4>1, Finite
    <3>2. SetToSeq(Hits(listing)) \in Seq(Namespaces)
      BY <3>1, OneByOne
    <3>3. found' \in Seq(Namespaces)
      BY <2>4, <3>2, ConcatProperties DEF RunInv
    <3>4. QED BY <2>1, <2>4, <3>3 DEF RunInv
  <2>5. QED BY <2>2, <2>3, <2>4
<1>3. CASE EndListing
  <2>1. /\ phase = "collections"
        /\ UNCHANGED <<mode, discovering, filter, server, changes, calm, todo, found, lost, emitted>>
        /\ Items' = Items /\ mode \in Stats \cup {"count"} /\ found \in Seq(Namespaces)
    BY <1>0, <1>3 DEF EndListing, Run, RunInv
  <2>2. CASE phase' \in {"done", "gaveUp"} /\ UNCHANGED items
    BY <2>1, <2>2 DEF RunInv
  <2>3. CASE phase' = "query" /\ mode # "count" /\ items' \in {Unique(found), Dotted}
    <3>1. Range(found) \in SUBSET Namespaces
      BY <2>1 DEF Range
    <3>2. Unique(found) \in Seq(Namespaces)
      BY <3>1, Finite, OneByOne DEF Unique
    <3>3. Dotted \in Seq(Namespaces)
      BY DottedIs DEF RunInv
    <3>4. Items = Namespaces
      BY <2>1, <2>3 DEF Items
    <3>5. items' \in Seq(Items)
      BY <2>3, <3>2, <3>3, <3>4
    <3>6. QED BY <2>1, <2>3, <3>5 DEF RunInv
  <2>4. QED BY <1>3, <2>2, <2>3 DEF EndListing
<1>4. CASE Query
  <2>1. /\ items \in Seq(Items) /\ Head(items) \in Items /\ items' \in Seq(Items)
        /\ UNCHANGED <<mode, discovering, filter, server, changes, todo, found>>
        /\ \/ UNCHANGED <<calm, phase, lost>>
           \/ /\ Fails(AfterFailure) /\ phase' \in {"query", "done"}
              /\ lost' = lost \cup {Head(items)}
    BY <1>4, QueryIs
  <2>2. phase = "query" /\ Items' = Items
    BY <1>0, <1>4, <2>1 DEF Query
  <2>3. QED BY <2>1, <2>2 DEF RunInv, Fails
<1>5. CASE EndQueries
  BY <1>0, <1>5 DEF EndQueries, Run, RunInv
<1>6. CASE ChangeServer
  <2>1. /\ UNCHANGED <<mode, discovering, filter, phase, todo, found, items, lost, emitted>>
        /\ calm' = FALSE /\ changes' = changes + 1 /\ changes < MaxChanges /\ Items' = Items
        /\ \E ns \in Namespaces, kind \in {"collection", "view", "absent"} :
              server' = [server EXCEPT ![ns] = kind]
    BY <1>0, <1>6 DEF ChangeServer, Run
  <2>2. changes' \in 0..MaxChanges
    BY <2>1, NamespacesAssumption DEF RunInv
  <2>3. server' \in [Namespaces -> {"collection", "view", "absent"}]
    BY <2>1 DEF RunInv
  <2>4. QED BY <2>1, <2>2, <2>3 DEF RunInv
<1>7. CASE UNCHANGED vars
  BY <1>0, <1>7 DEF vars, RunInv
<1>8. QED BY <1>1, <1>2, <1>3, <1>4, <1>5, <1>6, <1>7 DEF Next

\* Every step keeps apart what has been served and what is to be.
LEMMA DistinctStep == RunInv /\ LabelsInv /\ DistinctInv /\ [Next]_vars => DistinctInv'
<1> SUFFICES ASSUME RunInv, LabelsInv, DistinctInv, [Next]_vars, IsInjective(filter), filter' = filter
             PROVE  DistinctInv'
  <2>1. ASSUME [Next]_vars PROVE filter' = filter
    BY <2>1 DEF vars, Next, ListDatabases, ListCollections, EndListing, Query, EndQueries, ChangeServer, Run
  <2>2. QED BY <2>1 DEF DistinctInv
<1>1. /\ IsInjective(items) /\ IsInjective(emitted) /\ Served \cap Range(items) = {}
  BY DEF DistinctInv
<1>2. UNCHANGED <<mode, emitted>> => Served' = Served
  BY DEF Served
<1>3. CASE UNCHANGED <<mode, items, emitted>>
  BY <1>1, <1>2, <1>3 DEF DistinctInv
<1>4. CASE UNCHANGED <<mode, emitted>> /\ emitted = <<>> /\ IsInjective(items')
  <2>1. Served = {}
    BY <1>4 DEF Served, Range
  <2>2. QED BY <1>1, <1>2, <1>4, <2>1 DEF DistinctInv
<1>5. CASE ListDatabases
  <2>1. UNCHANGED <<mode, emitted>> /\ emitted = <<>>
    BY <1>5 DEF ListDatabases, Run, RunInv
  <2>2. CASE items' = SetToSeq({db \in Existing : Included(db)})
    <3>1. {db \in Existing : Included(db)} \in SUBSET DBs /\ IsFiniteSet({db \in Existing : Included(db)})
      BY Finite, FS_Subset
    <3>2. IsInjective(items')
      BY <2>2, <3>1, OneByOne
    <3>3. QED BY <1>4, <2>1, <3>2
  <2>3. QED BY <1>3, <1>5, <2>1, <2>2 DEF ListDatabases
<1>6. CASE EndListing
  <2>1. UNCHANGED <<mode, emitted>> /\ emitted = <<>> /\ found \in Seq(Namespaces)
    BY <1>6 DEF EndListing, Run, RunInv
  <2>2. CASE items' \in {Unique(found), Dotted}
    <3>1. Range(found) \in SUBSET Namespaces
      BY <2>1 DEF Range
    <3>2. IsInjective(Unique(found))
      BY <3>1, Finite, OneByOne DEF Unique
    <3>3. IsInjective(Dotted)
      BY DottedIs DEF RunInv
    <3>4. QED BY <1>4, <2>1, <2>2, <3>2, <3>3
  <2>3. QED BY <1>3, <1>6, <2>1, <2>2 DEF EndListing
<1>7. CASE Query
  <2> DEFINE item == Head(items)
  <2>1. /\ items \in Seq(Items) /\ items # <<>> /\ item \in Items /\ items' = Tail(items)
        /\ Range(items) = {item} \cup Range(items') /\ mode' = mode
    BY <1>7, QueryIs
  <2>2. IsInjective(items') /\ item \notin Range(items')
    BY <1>1, <2>1, HeadAndRest
  <2>3. CASE UNCHANGED <<emitted, Served>>
    BY <1>1, <2>1, <2>2, <2>3 DEF DistinctInv
  <2>4. CASE \E answer \in Answers :
                /\ emitted' = emitted \o SetToSeq(Series(item, answer))
                /\ Served' = Served \cup {item}
    <3>1. PICK answer \in Answers : emitted' = emitted \o SetToSeq(Series(item, answer))
      BY <2>4
    <3> DEFINE new == SetToSeq(Series(item, answer))
    <3>2. /\ IsFiniteSet(Series(item, answer))
          /\ {IF mode \in Stats THEN <<m.database, m.collection>> ELSE m.database
                  : m \in Series(item, answer)} = {item}
      BY <2>1, SeriesOf DEF RunInv
    <3>3. new \in Seq(Series(item, answer)) /\ Range(new) = Series(item, answer) /\ IsInjective(new)
      BY <3>2, SetToSeqIsBijection
    <3>4. Range(emitted) \cap Range(new) = {}
      <4>1. Served = {IF mode \in Stats THEN <<m.database, m.collection>> ELSE m.database
                         : m \in Range(emitted)}
        BY DEF Served
      <4>2. item \notin Served
        BY <1>1, <2>1
      <4> DEFINE name(m) == IF mode \in Stats THEN <<m.database, m.collection>> ELSE m.database
      <4>3. (\A m \in Range(emitted) : name(m) \in Served) /\ \A m \in Range(new) : name(m) = item
        BY <3>2, <3>3, <4>1
      <4> HIDE DEF name, new
      <4>4. QED BY <4>2, <4>3
    <3>5. emitted \in Seq(Range(emitted)) /\ new \in Seq(Range(new)) /\ emitted' = emitted \o new
      BY <3>1, <3>3 DEF LabelsInv
    <3> HIDE DEF new
    <3>6. IsInjective(emitted')
      BY <1>1, <3>3, <3>4, <3>5, InjectiveConcat
    <3>7. Served' \cap Range(items') = {}
      BY <1>1, <2>1, <2>2, <2>4
    <3>8. QED BY <2>1, <2>2, <3>6, <3>7 DEF DistinctInv
  <2>5. QED
    <3>1. \/ UNCHANGED <<emitted, Served>>
          \/ \E answer \in Answers :
                /\ emitted' = emitted \o SetToSeq(Series(item, answer))
                /\ Served' = Served \cup {item}
      BY <1>7, QueryIs
    <3>2. QED BY <2>3, <2>4, <3>1
<1>8. CASE ListCollections \/ EndQueries \/ ChangeServer \/ UNCHANGED vars
  BY <1>3, <1>8 DEF ListCollections, EndQueries, ChangeServer, Run, vars
<1>9. QED BY <1>5, <1>6, <1>7, <1>8 DEF Next

\* The variables keep their types, whatever the server does meanwhile.
THEOREM TypeCorrect == Spec => []TypeOK
<1>1. RunInv => TypeOK
  <2> SUFFICES ASSUME RunInv PROVE TypeOK
    OBVIOUS
  <2>1. items \in Seq(Items) /\ lost \subseteq Items
    BY DEF RunInv
  <2>2. lost \cup Range(items) \subseteq Items
    BY <2>1 DEF Range
  <2>3. QED BY <2>2 DEF RunInv, TypeOK, Items
<1>2. QED BY <1>1, InitRun, RunStep, LabelsKept, PTL DEF Spec

\* However the collections on the command line overlap, if none is written twice the collectors
\* emit no series twice, so that the registry does not refuse the scrape for them.
THEOREM SeriesDistinctCorrect == Spec => []SeriesDistinct
<1>1. DistinctInv => SeriesDistinct
  BY DEF DistinctInv, SeriesDistinct
<1>2. QED BY <1>1, InitRun, RunStep, DistinctStep, LabelsKept, PTL DEF Spec

-----------------------------------------------------------------------------
(***************************************************************************)
(* Runs that no failure and no change disturbs.                            *)
(***************************************************************************)

\* A sequence that repeats nothing is as long as what it holds.
LEMMA InjectiveLength ==
    ASSUME NEW S, NEW s \in Seq(S), IsInjective(s)
    PROVE  Len(s) = Cardinality(Range(s))
<1>1. Len(s) \in Nat /\ DOMAIN s = 1..Len(s)
  OBVIOUS
<1>2. s \in Bijection(1..Len(s), Range(s))
  BY <1>1 DEF Bijection, Injection, Surjection, IsInjective, Range
<1>3. ExistsBijection(1..Len(s), Range(s))
  BY <1>2 DEF ExistsBijection
<1>4. IsFiniteSet(1..Len(s)) /\ Cardinality(1..Len(s)) = Len(s)
  BY <1>1, FS_Interval
<1>5. QED BY <1>3, <1>4, FS_Bijection

\* The server and the names of the command line decide what a run is to find and to serve.
LEMMA GoalsSame ==
    ASSUME UNCHANGED <<mode, discovering, filter, server>>
    PROVE  /\ ToFind' = ToFind /\ ToServe' = ToServe /\ Collections' = Collections
           /\ Existing' = Existing /\ NamesAreCollections' = NamesAreCollections
           /\ \A listing : Hits(listing)' = Hits(listing)
           /\ \A item : Skipped(item)' = Skipped(item)
<1>1. Collections' = Collections /\ Existing' = Existing
  BY DEF Collections, Existing
<1>2. \A ns : Asked(ns)' = Asked(ns)
  BY DEF Asked
<1>3. QED BY <1>1, <1>2 DEF ToFind, ToServe, NamesAreCollections, Hits, Skipped

\* The listings of the databases find every collection that is asked for.
LEMMA ListingsFind ==
    ASSUME RunInv, mode \in Stats \cup {"count"}, NEW dbs, dbs = {db \in Existing : Included(db)}
    PROVE  ToFind = UNION {Hits(listing) : listing \in Listings(dbs)}
<1>1. \A ns \in Collections : ns \in Namespaces /\ ns[1] \in Existing
  BY DEF Collections, Existing
<1>2. \A listing, ns : ns \in Hits(listing) <=>
          /\ ns \in Collections /\ ns[1] = listing[1]
          /\ listing[2] = Whole \/ <<listing[2], ns[2]>> \in Found
  BY DEF Hits, Collections
<1>3. \A db : db \in dbs <=>
          /\ db \in Existing
          /\ mode \in Stats /\ discovering => Named(db)
          /\ mode = "count" \/ (mode \in Stats /\ discovering) => db \notin SystemDBs
  BY DEF Included
<1>4. CASE discovering /\ filter # <<>>
  <2>1. mode \in Stats /\ mode # "count"
    BY <1>4 DEF RunInv, Stats
  <2>2. ToFind = {ns \in Collections : Asked(ns)}
    BY <1>4, <2>1 DEF ToFind
  <2>3. \A listing : listing \in Listings(dbs) <=> listing \in Range(filter) /\ listing[1] \in dbs
    BY <1>4 DEF Listings
  <2>4. \A ns : Asked(ns) <=>
            /\ ns[1] \notin SystemDBs
            /\ \E e \in Range(filter) : e[1] = ns[1] /\ (e[2] = Whole \/ <<e[2], ns[2]>> \in Found)
    BY <1>4 DEF Asked
  <2>5. \A db : Named(db) <=> \E e \in Range(filter) : e[1] = db
    BY <1>4 DEF Named
  <2>6. ASSUME NEW ns \in Collections, Asked(ns)
        PROVE  \E listing \in Listings(dbs) : ns \in Hits(listing)
    <3>1. PICK e \in Range(filter) : e[1] = ns[1] /\ (e[2] = Whole \/ <<e[2], ns[2]>> \in Found)
      BY <2>4, <2>6
    <3>2. e[1] \in dbs
      BY <1>1, <1>3, <2>1, <2>4, <2>5, <2>6, <3>1
    <3>3. QED BY <1>2, <2>3, <3>1, <3>2
  <2>7. ASSUME NEW listing \in Listings(dbs), NEW ns \in Hits(listing)
        PROVE  ns \in Collections /\ Asked(ns)
    BY <1>2, <1>3, <1>4, <2>1, <2>3, <2>4
  <2>8. QED BY <2>2, <2>6, <2>7
<1>5. CASE ~(discovering /\ filter # <<>>)
  <2>1. Listings(dbs) = {<<db, Whole>> : db \in dbs}
    BY <1>5 DEF Listings
  <2>2. \A db, ns : ns \in Hits(<<db, Whole>>) <=> ns \in Collections /\ ns[1] = db
    BY <1>2
  <2>3. \A ns \in Collections : ns \in ToFind <=> ns[1] \in dbs
    <3>1. CASE mode = "count"
      BY <1>1, <1>3, <3>1 DEF ToFind, Stats
    <3>2. CASE mode # "count" /\ discovering
      <4>1. mode \in Stats /\ filter = <<>>
        BY <1>5, <3>2
      <4>2. (\A ns : Asked(ns) <=> ns[1] \notin SystemDBs) /\ \A db : Named(db)
        BY <3>2, <4>1 DEF Asked, Named
      <4>3. QED BY <1>1, <1>3, <3>2, <4>1, <4>2 DEF ToFind
    <3>3. CASE mode # "count" /\ ~discovering
      BY <1>1, <1>3, <3>3 DEF ToFind
    <3>4. QED BY <3>1, <3>2, <3>3
  <2>4. ToFind \subseteq Collections
    BY DEF ToFind
  <2>5. ASSUME NEW ns \in ToFind PROVE ns \in UNION {Hits(listing) : listing \in Listings(dbs)}
    <3>1. ns \in Collections /\ ns[1] \in dbs
      BY <2>3, <2>4
    <3>2. ns \in Hits(<<ns[1], Whole>>) /\ <<ns[1], Whole>> \in Listings(dbs)
      BY <2>1, <2>2, <3>1
    <3>3. QED BY <3>2
  <2>6. ASSUME NEW ns \in UNION {Hits(listing) : listing \in Listings(dbs)} PROVE ns \in ToFind
    <3>1. PICK db \in dbs : ns \in Hits(<<db, Whole>>)
      BY <2>1
    <3>2. QED BY <2>2, <2>3, <3>1
  <2>7. QED BY <2>5, <2>6
<1>6. QED BY <1>4, <1>5

\* The listings that are left, and what has been found, are all there is to find.
LEMMA CalmListDatabases ==
    ASSUME RunInv, CalmInv, ListDatabases, calm'
    PROVE  CalmInv'
<1> DEFINE dbs == {db \in Existing : Included(db)}
<1>1. /\ phase = "databases" /\ UNCHANGED <<mode, discovering, filter, server, calm, found, emitted>>
      /\ found = <<>> /\ emitted = <<>>
      /\ \/ /\ mode \in {"dbstats", "profile"} /\ items' = SetToSeq(dbs) /\ phase' = "query"
         \/ /\ mode \notin {"dbstats", "profile"} /\ todo' = Listings(dbs) /\ phase' = "collections"
  BY DEF ListDatabases, Run, RunInv, Fails
<1>2. Range(<<>>) = {} /\ IsInjective(<<>>) /\ Served = {} /\ Served' = {}
  BY <1>1 DEF Range, IsInjective, Served
<1>3. /\ ToFind' = ToFind /\ ToServe' = ToServe
      /\ \A listing : Hits(listing)' = Hits(listing)
      /\ \A item : Skipped(item)' = Skipped(item)
  BY <1>1, GoalsSame
<1>4. phase' \notin {"done", "gaveUp"}
  BY <1>1
<1>5. CASE mode \in {"dbstats", "profile"}
  <2>1. dbs = Existing /\ IsFiniteSet(dbs) /\ mode \notin Stats /\ phase' = "query"
    <3>1. dbs = Existing
      BY <1>5 DEF Included, Stats
    <3>2. IsFiniteSet(Existing)
      BY Finite, FS_Subset
    <3>3. QED BY <1>1, <1>5, <3>1, <3>2 DEF Stats
  <2>2. Range(items') = Existing
    BY <1>1, <1>5, <2>1, SetToSeqIsBijection
  <2>3. \A item : ~Skipped(item)
    BY <2>1 DEF Skipped
  <2>4. ToServe = Existing
    BY <2>1 DEF ToServe
  <2>5. ToServe' = Served' \cup {item \in Range(items') : ~Skipped(item)'}
    BY <1>2, <1>3, <2>2, <2>3, <2>4
  <2>6. QED BY <1>1, <1>4, <2>1, <2>5 DEF CalmInv, CalmServesAsked
<1>6. CASE mode \notin {"dbstats", "profile"}
  <2>1. mode \in Stats \cup {"count"} /\ phase' = "collections" /\ todo' = Listings(dbs) /\ found' = <<>>
    BY <1>1, <1>6, NamespacesAssumption DEF RunInv
  <2>2. ToFind' = Range(found') \cup UNION {Hits(listing)' : listing \in todo'}
    <3>1. ToFind = UNION {Hits(listing) : listing \in Listings(dbs)}
      BY <2>1, ListingsFind
    <3> HIDE DEF dbs
    <3>2. QED BY <1>2, <1>3, <2>1, <3>1
  <2>3. mode = "count" => \A listing \in todo' : listing = <<listing[1], Whole>>
    <3>1. mode = "count" => Listings(dbs) = {<<db, Whole>> : db \in dbs}
      BY DEF Listings, RunInv, Stats
    <3> HIDE DEF dbs
    <3>2. QED BY <2>1, <3>1
  <2>4. QED BY <1>1, <1>2, <1>4, <2>1, <2>2, <2>3 DEF CalmInv, CalmServesAsked
<1>7. QED BY <1>5, <1>6

\* Listing one database after another finds what each holds.
LEMMA CalmListCollections ==
    ASSUME RunInv, CalmInv, ListCollections, calm'
    PROVE  CalmInv'
<1>1. /\ phase = "collections" /\ UNCHANGED <<mode, discovering, filter, server, phase, items, emitted>>
      /\ calm /\ found \in Seq(Namespaces)
  BY DEF ListCollections, Run, RunInv, Fails
<1>2. PICK listing \in todo : found' = found \o SetToSeq(Hits(listing)) /\ todo' = todo \ {listing}
  BY DEF ListCollections, Fails
<1>3. /\ ToFind = Range(found) \cup UNION {Hits(l) : l \in todo}
      /\ mode = "count" =>
            /\ IsInjective(found)
            /\ \A l \in todo : l = <<l[1], Whole>>
            /\ \A ns \in Range(found), l \in todo : ns[1] # l[1]
  BY <1>1 DEF CalmInv
<1>4. ToFind' = ToFind /\ \A l : Hits(l)' = Hits(l)
  BY <1>1, GoalsSame
<1> DEFINE new == SetToSeq(Hits(listing))
<1>5. Hits(listing) \in SUBSET Namespaces /\ \A ns \in Hits(listing) : ns[1] = listing[1]
  BY DEF Hits
<1>6. new \in Seq(Hits(listing)) /\ Range(new) = Hits(listing) /\ IsInjective(new)
  BY <1>5, Finite, SetToSeqIsBijection
<1>7. found \in Seq(Range(found)) /\ new \in Seq(Range(new)) /\ found' = found \o new
  <2>1. found \in Seq(Range(found))
    <3>1. DOMAIN found = 1..Len(found) /\ Len(found) \in Nat /\ found = [k \in 1..Len(found) |-> found[k]]
      BY <1>1
    <3>2. found \in [1..Len(found) -> Range(found)]
      BY <3>1 DEF Range
    <3>3. QED BY <3>1, <3>2, FunctionIsSeq
  <2>2. QED BY <1>2, <1>6, <2>1
<1> HIDE DEF new
<1>8. Range(found') = Range(found) \cup Hits(listing)
  BY <1>6, <1>7, Concatenation
<1>9. ToFind' = Range(found') \cup UNION {Hits(l)' : l \in todo'}
  BY <1>2, <1>3, <1>4, <1>8
<1>10. ASSUME mode = "count"
       PROVE  /\ IsInjective(found')
              /\ \A l \in todo' : l = <<l[1], Whole>>
              /\ \A ns \in Range(found'), l \in todo' : ns[1] # l[1]
  <2>1. Range(found) \cap Range(new) = {}
    BY <1>3, <1>5, <1>6, <1>10
  <2>2. IsInjective(found')
    BY <1>3, <1>6, <1>7, <1>10, <2>1, InjectiveConcat
  <2>3. \A l \in todo' : l \in todo /\ l # listing
    BY <1>2
  <2>4. \A l \in todo' : l[1] # listing[1]
    BY <1>3, <1>10, <2>3
  <2>5. QED BY <1>3, <1>5, <1>8, <1>10, <2>2, <2>3, <2>4
<1>11. QED BY <1>1, <1>9, <1>10 DEF CalmInv, CalmServesAsked

\* The end of the listing: the count, or what is found and asked for.
LEMMA CalmEndListing ==
    ASSUME RunInv, CalmInv, EndListing, calm'
    PROVE  CalmInv'
<1>1. /\ phase = "collections" /\ todo = {} /\ found \in Seq(Namespaces)
      /\ UNCHANGED <<mode, discovering, filter, server, calm, found, emitted>>
      /\ emitted = <<>> /\ mode \in Stats \cup {"count"}
  BY DEF EndListing, Run, RunInv
<1>2. /\ ToFind = Range(found)
      /\ mode = "count" => IsInjective(found)
  BY <1>1 DEF CalmInv
<1>3. /\ ToServe' = ToServe /\ Collections' = Collections /\ NamesAreCollections' = NamesAreCollections
      /\ \A item : Skipped(item)' = Skipped(item)
  BY <1>1, GoalsSame
<1>4. Served = {} /\ Served' = {}
  BY <1>1 DEF Served, Range
<1>5. CASE mode = "count"
  <2>1. phase' = "done" /\ Len(found) = Cardinality(Range(found))
    BY <1>1, <1>2, <1>5, InjectiveLength DEF EndListing
  <2>2. Range(found) = {ns \in Collections : ns[1] \notin SystemDBs}
    BY <1>2, <1>5 DEF ToFind
  <2>a. Len(found') = Cardinality({ns \in Collections' : ns[1] \notin SystemDBs})
    BY <1>1, <1>3, <2>1, <2>2
  <2>b. mode' = "count"
    BY <1>1, <1>5
  <2>3. CalmServesAsked'
    BY <2>a, <2>b DEF CalmServesAsked, Stats
  <2>4. QED BY <2>1, <2>3 DEF CalmInv
<1>6. CASE mode # "count" /\ discovering
  <2>1. /\ mode \in Stats /\ phase' = "query" /\ items' = Unique(found)
    BY <1>1, <1>6 DEF EndListing
  <2>2. Range(found) = {ns \in Collections : Asked(ns)} /\ Range(found) \in SUBSET Namespaces
    BY <1>1, <1>2, <1>6 DEF ToFind, Range
  <2>3. Range(items') = Range(found)
    BY <2>1, <2>2, Finite, OneByOne DEF Unique
  <2>4. ToServe = {item \in Range(items') : ~Skipped(item)}
    <3>1. \A ns \in Range(found) : Skipped(ns) <=> ns[2] \in SystemNames
      BY <2>1 DEF Skipped
    <3>2. QED BY <2>1, <2>2, <2>3, <3>1 DEF ToServe, NonSystem
  <2>5. ToServe' = Served' \cup {item \in Range(items') : ~Skipped(item)'}
    BY <1>3, <1>4, <2>4
  <2>6. QED BY <1>1, <1>6, <2>1, <2>5 DEF CalmInv, CalmServesAsked
<1>7. CASE mode # "count" /\ ~discovering
  <2>1. mode \in Stats /\ Range(found) = Collections
    BY <1>1, <1>2, <1>7 DEF ToFind
  <2>2. /\ Range(Dotted) = {e \in Range(filter) : e[2] # Whole}
        /\ Range(Dotted) \subseteq Namespaces
    BY DottedIs DEF RunInv
  <2>3. NamesAreCollections <=> Range(Dotted) \subseteq Collections
    BY <2>2 DEF NamesAreCollections
  <2>4. CASE NamesAreCollections
    <3>1. phase' = "query" /\ items' = Dotted
      BY <1>1, <1>7, <2>1, <2>3, <2>4 DEF EndListing
    <3>2. ToServe = {item \in Range(items') : ~Skipped(item)}
      <4>1. ToServe = {ns \in Collections : ns[2] \notin SystemNames /\ ns \in Range(filter)}
        BY <1>7, <2>1 DEF ToServe, NonSystem, Asked, Collections
      <4>2. \A ns \in Collections : ns[2] # Whole
        BY NamespacesAssumption DEF Collections
      <4>3. Range(items') = {e \in Range(filter) : e[2] # Whole} /\ Range(items') \subseteq Collections
        BY <2>2, <2>3, <2>4, <3>1
      <4>4. \A ns : Skipped(ns) <=> ns[2] \in SystemNames
        BY <2>1 DEF Skipped
      <4>5. QED BY <4>1, <4>2, <4>3, <4>4
    <3>3. ToServe' = Served' \cup {item \in Range(items') : ~Skipped(item)'}
      BY <1>3, <1>4, <3>2
    <3>4. NamesAreCollections'
      BY <1>3, <2>4
    <3>5. QED BY <1>1, <3>1, <3>3, <3>4 DEF CalmInv, CalmServesAsked
  <2>5. CASE ~NamesAreCollections
    <3>1. phase' = "gaveUp"
      BY <1>1, <1>7, <2>1, <2>3, <2>5 DEF EndListing
    <3>2. ~discovering' /\ \E e \in Range(filter') : e[2] # Whole /\ e \notin Collections'
      BY <1>1, <1>3, <1>7, <2>5 DEF NamesAreCollections
    <3>3. CalmServesAsked'
      BY <1>1, <1>4, <2>1, <3>2 DEF CalmServesAsked, Stats
    <3>4. QED BY <3>1, <3>3 DEF CalmInv
  <2>6. QED BY <2>4, <2>5
<1>8. QED BY <1>5, <1>6, <1>7

\* An item is served, or skipped as the code means to.
LEMMA CalmQuery ==
    ASSUME RunInv, LabelsInv, CalmInv, Query, calm'
    PROVE  CalmInv'
<1> DEFINE item == Head(items)
<1>1. /\ phase = "query" /\ phase' = "query" /\ calm
      /\ UNCHANGED <<mode, discovering, filter, server>>
      /\ Range(items) = {item} \cup Range(items')
      /\ \/ Skipped(item) /\ Served' = Served
         \/ ~Skipped(item) /\ Served' = Served \cup {item}
  <2>1. phase = "query"
    BY DEF Query
  <2>2. QED BY <2>1, QueryIs DEF Fails, RunInv
<1>2. /\ ToServe = Served \cup {x \in Range(items) : ~Skipped(x)}
      /\ mode \in Stats /\ ~discovering => NamesAreCollections
  BY <1>1 DEF CalmInv
<1>3. /\ ToServe' = ToServe /\ NamesAreCollections' = NamesAreCollections
      /\ \A x : Skipped(x)' = Skipped(x)
  BY <1>1, GoalsSame
<1> HIDE DEF item
<1>4. ToServe' = Served' \cup {x \in Range(items') : ~Skipped(x)'}
  BY <1>1, <1>2, <1>3
<1>5. QED BY <1>1, <1>2, <1>3, <1>4 DEF CalmInv, CalmServesAsked

\* At the end nothing remains to be served.
LEMMA CalmEndQueries ==
    ASSUME RunInv, CalmInv, EndQueries, calm'
    PROVE  CalmInv'
<1>1. /\ phase = "query" /\ phase' = "done" /\ items = <<>> /\ calm /\ mode # "count" /\ mode \in Modes
      /\ UNCHANGED <<mode, discovering, filter, server, found, emitted>>
  BY DEF EndQueries, Run, RunInv
<1>2. Range(items) = {}
  BY <1>1 DEF Range
<1>3. /\ ToServe = Served
      /\ mode \in Stats /\ ~discovering => NamesAreCollections
  BY <1>1, <1>2 DEF CalmInv
<1>4. /\ ToServe' = ToServe /\ NamesAreCollections' = NamesAreCollections
      /\ Collections' = Collections /\ Existing' = Existing /\ Served' = Served
  BY <1>1, GoalsSame DEF Served
<1>5. CASE mode \in Stats
  <2>1. Served' = {ns \in Collections \cap NonSystem : Asked(ns)}'
    BY <1>1, <1>3, <1>4, <1>5 DEF ToServe
  <2>2. ~(~discovering' /\ \E e \in Range(filter') : e[2] # Whole /\ e \notin Collections')
    BY <1>1, <1>3, <1>4, <1>5 DEF NamesAreCollections
  <2>3. CalmServesAsked'
    BY <1>1, <1>5, <2>1, <2>2 DEF CalmServesAsked, Stats
  <2>4. QED BY <1>1, <2>3 DEF CalmInv
<1>6. CASE mode \notin Stats
  <2>1. Served' = Existing' /\ mode' \in {"dbstats", "profile"}
    BY <1>1, <1>3, <1>4, <1>6, NamespacesAssumption DEF ToServe
  <2>2. CalmServesAsked'
    BY <2>1 DEF CalmServesAsked, Stats
  <2>3. QED BY <1>1, <2>2 DEF CalmInv
<1>7. QED BY <1>5, <1>6

\* When nothing fails and nothing changes meanwhile, the collectors serve exactly what the
\* command line asks for, for any namespaces, filters and discovering mode.
THEOREM CalmServesAskedCorrect == Spec => []CalmServesAsked
<1>1. RunInv /\ LabelsInv /\ CalmInv /\ [Next]_vars => CalmInv'
  <2> SUFFICES ASSUME RunInv, LabelsInv, CalmInv, [Next]_vars, calm' PROVE CalmInv'
    BY DEF CalmInv, CalmServesAsked
  <2>1. CASE UNCHANGED vars
    <3>1. UNCHANGED <<mode, discovering, filter, server, calm, phase, todo, found, items, emitted>>
      BY <2>1 DEF vars
    <3>2. /\ ToFind' = ToFind /\ ToServe' = ToServe /\ NamesAreCollections' = NamesAreCollections
          /\ (\A listing : Hits(listing)' = Hits(listing)) /\ \A item : Skipped(item)' = Skipped(item)
      BY <3>1, GoalsSame
    <3>3. Served' = Served
      BY <3>1 DEF Served
    <3>4. CalmServesAsked' <=> CalmServesAsked
      <4>1. /\ Collections' = Collections /\ Existing' = Existing
            /\ \A ns : Asked(ns)' = Asked(ns)
        BY <3>1 DEF Collections, Existing, Asked
      <4>2. {ns \in Collections \cap NonSystem : Asked(ns)}' = {ns \in Collections \cap NonSystem : Asked(ns)}
        BY <4>1
      <4>3. {ns \in Collections : ns[1] \notin SystemDBs}' = {ns \in Collections : ns[1] \notin SystemDBs}
        BY <4>1
      <4> DEFINE exact == {ns \in Collections \cap NonSystem : Asked(ns)}
                 counted == {ns \in Collections : ns[1] \notin SystemDBs}
                 bad == \E e \in Range(filter) : e[2] # Whole /\ e \notin Collections
      <4>4. bad' <=> bad
        BY <3>1, <4>1
      <4>5. CalmServesAsked <=> (phase \in {"done", "gaveUp"} /\ calm =>
                CASE mode \in {"dbstats", "profile"} -> Served = Existing
                  [] mode = "count" -> Len(found) = Cardinality(counted)
                  [] mode \in Stats -> IF ~discovering /\ bad THEN Served = {} ELSE Served = exact)
        BY DEF CalmServesAsked
      <4>6. CalmServesAsked' <=> (phase' \in {"done", "gaveUp"} /\ calm' =>
                CASE mode' \in {"dbstats", "profile"} -> Served' = Existing'
                  [] mode' = "count" -> Len(found') = Cardinality(counted')
                  [] mode' \in Stats -> IF ~discovering' /\ bad' THEN Served' = {} ELSE Served' = exact')
        BY DEF CalmServesAsked
      <4>7. exact' = exact /\ counted' = counted
        BY <4>2, <4>3
      <4> HIDE DEF exact, counted, bad
      <4>8. QED BY <3>1, <3>3, <4>1, <4>4, <4>5, <4>6, <4>7
    <3>5. QED BY <3>1, <3>2, <3>3, <3>4 DEF CalmInv
  <2>2. ~ChangeServer
    BY DEF ChangeServer
  <2>3. QED BY <2>1, <2>2, CalmListDatabases, CalmListCollections, CalmEndListing, CalmQuery,
               CalmEndQueries DEF Next
<1>2. CalmInv => CalmServesAsked
  BY DEF CalmInv, CalmServesAsked
<1>3. QED BY <1>1, <1>2, InitRun, RunStep, LabelsKept, PTL DEF Spec
=============================================================================
