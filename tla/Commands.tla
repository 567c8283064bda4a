------------------------------ MODULE Commands ------------------------------
(***************************************************************************)
(* The collect functions that run one command after another and make       *)
(* metrics of each answer, and newTopologyInfo, which does the same to     *)
(* find the labels of the metrics.                                         *)
(*                                                                         *)
(* Each is a program: a list of calls, and for each call what happens when *)
(* it fails, and when its answer is not what the code expects.  Any call   *)
(* may fail, or hang; the deadline may pass between two calls, and the     *)
(* node may change its role.                                               *)
(***************************************************************************)
EXTENDS Keeping, Sequences, SequencesExt, FiniteSets

CONSTANTS
    Modes,         \* the functions to run
    Roles,         \* the roles the node may have, or change to
    Databases,     \* the databases a mongos lists
    Sharded,       \* its sharded collections: pairs of a database and a name
    Extends        \* pairs of databases: the second one's name is the first one's and more

ASSUME CommandsAssumption ==
    /\ Modes \subseteq {"general", "fcv", "topmetrics", "currentopmetrics", "replicasetstatus",
                        "replicasetconfig", "diagnosticdata", "shards", "pbm", "topology"}
    /\ Roles \subseteq {"mongod", "mongos", "arbiter"}
    /\ IsFiniteSet(Databases) /\ IsFiniteSet(Sharded) /\ \A ns \in Sharded : ns[1] \in Databases
    /\ Extends \subseteq Databases \X Databases /\ \A d \in Databases : <<d, d>> \notin Extends

VARIABLES
    mode, compatible, slow,   \* the function, --compatible-mode, a valid slow-query time
    role,      \* environment: the role of the node
    expired,   \* d.ctx is done
    roleSeen,  \* what isMaster answered to this function
    todo,      \* the calls to come
    replied,   \* the names of the calls that have had an answer
    failed,    \* of those that have had none, or one that makes no sense
    metrics,   \* of those whose metrics (or labels) are sent, in order
    invalid    \* an invalid metric was sent

vars == <<mode, compatible, slow, role, expired, roleSeen, todo, replied, failed, metrics, invalid>>

-----------------------------------------------------------------------------
(***************************************************************************)
(* The programs.  What may happen when a call fails, or its answer is bad: *)
(*   "on"         the function goes on without its metrics                 *)
(*   "told"       its metrics say so: mongodb_up 0, an unknown state       *)
(*   "group"      all calls of its kind are given up, with their metrics   *)
(*   "return"     the function returns                                     *)
(*   "invalid"    it sends an invalid metric and returns                   *)
(*   "invalidOn"  it sends an invalid metric and goes on                   *)
(* A call is made on the roles in "when", after answers to those in        *)
(* "after", and unless one in "unless" was answered.                       *)
(***************************************************************************)
Call(name, fail, bad) ==
    [name |-> name, fail |-> fail, bad |-> bad,
     when |-> Roles \cup {"unknown"}, after |-> {}, unless |-> {}]
Ask(name)         == Call(<<name>>, {"on"}, {})
OnlyOn(r, call)   == [call EXCEPT !.when = {r}]
After(c, call)    == [call EXCEPT !.after = {<<c>>}]
Unless(cs, call)  == [call EXCEPT !.unless = cs]

\* What is sent without a call.
Local == {<<"fsync">>, <<"version">>, <<"configured">>, <<"clusterId">>, <<"time">>}

\* Variant: the ping of the general collector goes by a context of its own.
UnboundedPing(call) == call.name[1] \in {"chunks", "dbStats", "ping"}
\* Calls that go by context.Background() or context.TODO(), not by the deadline.
Unbounded(call) == call.name[1] \in {"chunks", "dbStats"}

General == <<Call(<<"ping">>, {"told"}, {})>>
FCV     == <<Call(<<"getParameter">>, {"invalid"}, {"on", "invalid"})>>
Top     == <<Call(<<"top">>, {"invalid"}, {"invalidOn"})>>
CurrentOp ==
    <<Call(<<"currentOp">>, {"invalid"}, IF slow THEN {"on", "invalidOn"} ELSE {}), Ask("fsync")>>
ReplSetStatus == <<Call(<<"replSetGetStatus">>, {"return"}, {})>>
\* Variant: a configuration that makes no sense is an invalid metric.
ReplSetConfigInvalid == <<Call(<<"replSetGetConfig">>, {"return"}, {"invalid"})>>
ReplSetConfig == <<Call(<<"replSetGetConfig">>, {"return"}, {"return"})>>

\* Variant: without diagnostic data the function returns.
DiagnosticReturns == Call(<<"getDiagnosticData">>, {"return"}, {"on"})
Diagnostic == Call(<<"getDiagnosticData">>, {"on"}, {"on", "return"})

\* specialMetrics: the state of the member and the oplog.
Special ==
    <<After("getDiagnosticData", OnlyOn("mongod", Call(<<"replSetGetStatus">>, {"told"}, {}))),
      After("getDiagnosticData", OnlyOn("mongod", Ask("oplog")))>>

\* Variant: the two counts of databases ask the same.
MongosCountsAlike ==
    [i \in 1..4 |-> OnlyOn("mongos", Ask(<<"partitioned", "partitioned", "balancerStatus",
                                          "databaseNames">>[i]))]
\* mongosMetrics; its other counts are like these.
Mongos ==
    [i \in 1..4 |-> OnlyOn("mongos", Ask(<<"partitioned", "unpartitioned", "balancerStatus",
                                          "databaseNames">>[i]))]

NodeType == Ask("isMaster")
Security == After("getDiagnosticData", Call(<<"getCmdLineOpts">>, {"on"}, {"on"}))

DiagnosticData ==
    <<NodeType, Diagnostic, Security>>
    \o IF compatible THEN Special \o <<Ask("version"), OnlyOn("arbiter", Ask("hello"))>> \o Mongos
       ELSE <<>>

\* Variant: without the number of chunks shards returns.
ShardsReturns == <<Call(<<"chunksTotal">>, {"return"}, {}), Ask("chunksPerShard"), Ask("databases")>>
Shards == <<Ask("chunksTotal"), Ask("chunksPerShard"), Ask("databases")>>

PBMBackups == After("isMaster", Ask("pbmBackups"))
PBMAgents  == After("isMaster", Ask("pbmStatus"))
PBM ==
    <<Call(<<"pbmClient">>, {"return"}, {}), Ask("pbmConfig"), After("pbmConfig", Ask("isMaster")),
      PBMBackups, PBMAgents, Ask("configured")>>

\* A refusal leaves the label empty, an answer that cannot be decoded ends loadLabels.
ClusterRole == Call(<<"getCmdLineOpts">>, {"told"}, {"return"})
\* util.ClusterID: the first of three sources that answers.
ClusterID ==
    <<Ask("configVersion"),
      Unless({<<"configVersion">>}, Ask("shardIdentity")),
      Unless({<<"configVersion">>, <<"shardIdentity">>}, Call(<<"replicaSetId">>, {"on", "return"}, {})),
      Ask("clusterId")>>
\* loadLabels, which cannot go on without the type of the node.
Topology ==
    <<ClusterRole, Ask("replSetGetConfig"), Call(<<"isMaster">>, {"return"}, {})>>
    \o ClusterID \o <<Ask("replSetGetStatus")>>

Program ==
    CASE mode = "general"          -> General
      [] mode = "fcv"              -> FCV
      [] mode = "topmetrics"       -> Top
      [] mode = "currentopmetrics" -> CurrentOp
      [] mode = "replicasetstatus" -> ReplSetStatus
      [] mode = "replicasetconfig" -> ReplSetConfig
      [] mode = "diagnosticdata"   -> DiagnosticData
      [] mode = "shards"           -> Shards
      [] mode = "pbm"              -> PBM
      [] mode = "topology"         -> Topology

-----------------------------------------------------------------------------
(***************************************************************************)
(* The steps.                                                              *)
(***************************************************************************)
\* What remains to be done when the function returns: measureCollectTime is deferred.
Deferred == IF mode = "topology" THEN <<>> ELSE <<Ask("time")>>

Init ==
    /\ mode \in Modes
    /\ compatible \in BOOLEAN /\ (compatible => mode = "diagnosticdata")
    /\ slow \in BOOLEAN /\ (slow => mode = "currentopmetrics")
    /\ role \in Roles /\ expired = FALSE
    /\ roleSeen = "unknown"
    /\ todo = Program \o Deferred
    /\ replied = {} /\ failed = {} /\ metrics = <<>> /\ invalid = FALSE

Run     == <<mode, compatible, slow>>
Current == Head(todo)
Applies == /\ roleSeen \in Current.when
           /\ Current.after \subseteq replied
           /\ Current.unless \cap replied = {}

Pass ==
    /\ todo # <<>> /\ ~Applies
    /\ todo' = Tail(todo)
    /\ UNCHANGED <<Run, role, expired, roleSeen, replied, failed, metrics, invalid>>

SendLocal ==
    /\ todo # <<>> /\ Current.name \in Local
    /\ todo' = Tail(todo)
    /\ metrics' = Append(metrics, Current.name)
    /\ UNCHANGED <<Run, role, expired, roleSeen, replied, failed, invalid>>

\* The rows of config.collections that match "^<db>.", whose dot matches any character.
Rows(db) == {ns \in Sharded : ns[1] = db \/ <<db, ns[1]>> \in Extends}

\* The calls an answer gives rise to: a dbStats for each database, a find for each
\* database, an aggregate over the chunks of each row found.
Follow(name) ==
    CASE name = <<"databaseNames">> ->
            SetToSeq({Call(<<"dbStats", db>>, {"group"}, {}) : db \in Databases})
      [] name = <<"databases">> ->
            SetToSeq({Call(<<"find", db>>, {"on"}, {}) : db \in Databases})
      [] name[1] = "find" ->
            SetToSeq({Call(<<"chunks", name[2], ns>>, {"on"}, {}) : ns \in Rows(name[2])})
      [] OTHER -> <<>>

Asked == todo # <<>> /\ Applies /\ Current.name \notin Local
InTime == ~expired \/ Unbounded(Current)

Answer ==
    /\ Asked /\ InTime
    /\ replied' = replied \cup {Current.name}
    /\ roleSeen' = IF Current.name = <<"isMaster">> THEN role ELSE roleSeen
    /\ metrics' = Append(metrics, Current.name)
    /\ todo' = Follow(Current.name) \o Tail(todo)
    /\ UNCHANGED <<Run, role, expired, failed, invalid>>

\* loadLabels goes on without the cluster ID of an arbiter.
Tolerated(policies) ==
    IF mode = "topology" /\ Current.name = <<"replicaSetId">> /\ roleSeen = "arbiter"
    THEN {"on"} ELSE policies

SameKind(name) == name[1] = Current.name[1]

React(policy) ==
    /\ failed' = failed \cup {Current.name}
    /\ todo' = CASE policy \in {"return", "invalid"} -> Deferred
                 [] policy = "group" -> Keep(todo, {call \in Range(todo) : ~SameKind(call.name)})
                 [] OTHER -> Tail(todo)
    /\ metrics' = CASE policy = "told" -> Append(metrics, Current.name)
                    [] policy = "group" -> Keep(metrics, {name \in Range(metrics) : ~SameKind(name)})
                    [] OTHER -> metrics
    /\ invalid' = (invalid \/ policy \in {"invalid", "invalidOn"})
    /\ UNCHANGED <<Run, role, expired, roleSeen>>

Failure ==
    /\ Asked
    /\ \E policy \in Tolerated(Current.fail) : React(policy)
    /\ UNCHANGED replied

BadAnswer ==
    /\ Asked /\ InTime
    /\ \E policy \in Current.bad : React(policy)
    /\ replied' = replied \cup {Current.name}

Expire ==
    /\ ~expired /\ todo # <<>>
    /\ expired' = TRUE
    /\ UNCHANGED <<Run, role, roleSeen, todo, replied, failed, metrics, invalid>>

ChangeRole ==
    /\ todo # <<>>
    /\ role' \in Roles \ {role}
    /\ UNCHANGED <<Run, expired, roleSeen, todo, replied, failed, metrics, invalid>>

Next == Pass \/ SendLocal \/ Answer \/ Failure \/ BadAnswer \/ Expire \/ ChangeRole

Spec == Init /\ [][Next]_vars

\* What waits for no answer goes on, and a call bound to a deadline that has passed
\* fails.  A call may hang otherwise, one that is not bound for ever.
FairSpec ==
    Spec /\ WF_vars(Pass \/ SendLocal) /\ WF_vars(expired /\ Failure /\ ~Unbounded(Current))

-----------------------------------------------------------------------------
(***************************************************************************)
(* Properties.                                                             *)
(***************************************************************************)
Sent == {metrics[i] : i \in DOMAIN metrics}

TypeOK ==
    /\ mode \in Modes /\ compatible \in BOOLEAN /\ slow \in BOOLEAN /\ role \in Roles
    /\ expired \in BOOLEAN /\ invalid \in BOOLEAN
    /\ roleSeen \in Roles \cup {"unknown"}
    /\ Sent \subseteq replied \cup failed \cup Local
    /\ IsInjective(metrics)

\* Past the deadline a function ends, or hangs in one of the two calls that the deadline
\* does not reach: shards counting the chunks of a collection (shards_collector.go:194),
\* the statistics of a database (v1_compatibility.go:1343).
EndsByDeadline ==
    expired ~> (todo = <<>> \/ Current.name[1] \in {"chunks", "dbStats"})

\* Only the commands of three functions can, by their failing, make the registry refuse the
\* whole scrape, whatever the other calls of those functions and of the others do.  (What a
\* document's own values may do is MetricTree's RegistryAccepts.)
RefusalsEarned ==
    invalid => /\ mode \in {"fcv", "topmetrics", "currentopmetrics"}
               /\ {<<"getParameter">>, <<"top">>, <<"currentOp">>} \cap failed # {}

\* A failure costs shards no collection but the one whose own calls failed.
ShardedServed ==
    todo = <<>> /\ mode = "shards" /\ <<"databases">> \notin failed =>
        \A ns \in Sharded :
            \/ <<"chunks", ns[1], ns>> \in Sent
            \/ {<<"find", ns[1]>>, <<"chunks", ns[1], ns>>} \cap failed # {}

\* An arbiter, which denies diagnostic data, still gets its metrics in compatible mode,
\* and its labels though it has no cluster ID (topology_info.go:127 "arbiters don't have a
\* cluster ID").
ArbiterServed ==
    todo = <<>> /\ roleSeen = "arbiter" =>
        /\ mode = "diagnosticdata" /\ compatible /\ failed = {<<"getDiagnosticData">>} \ replied =>
              {<<"hello">>, <<"version">>} \subseteq Sent
        /\ mode = "topology" =>
              {<<"clusterId">>, <<"replSetGetStatus">>} \subseteq Sent \cup failed

-----------------------------------------------------------------------------
\* README.md:179 shows the metrics of a collection with its own database: the row of a
\* collection is served under the database it belongs to.
RowsBelong ==
    \A name \in Sent : name[1] = "chunks" => name[3][1] = name[2]

=============================================================================
