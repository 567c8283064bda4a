---------------------------- MODULE MCMetricTree ----------------------------
(***************************************************************************)
(* Documents for MetricTree, as MongoDB answers them, cut down to what the *)
(* conversions tell apart.                                                 *)
(***************************************************************************)
EXTENDS MetricTree

NodeLabels == {<<"rs_nm", "rs0">>, <<"cl_role", "mongod">>}
\* How the collectors call makeMetrics; only diagnosticdata asks for histograms.
Calls(prefix, labels, diagnostic) ==
    {[prefix |-> prefix, labels |-> NodeLabels \cup labels, diagnostic |-> diagnostic,
      compatible |-> c, histograms |-> h] :
        c \in BOOLEAN, h \in IF diagnostic THEN BOOLEAN ELSE {FALSE}}
Diagnostic == Calls(<<>>, {}, TRUE)
Compatibly == {how \in Diagnostic : how.compatible /\ ~how.histograms}
Of(calls, answers) == [call : calls, answer : answers]
Numbers(paths)    == [path \in paths |-> "1"]

\* replSetGetStatus: a member knows its name and its state.
Member(i, name, state) ==
    [path \in {<<"members", i, key>> : key \in {"name", "stateStr", "health"}} |->
        CASE path[3] = "name" -> name [] path[3] = "stateStr" -> state [] OTHER -> "1"]
OpTime(i) == Numbers({<<"members", i, "optime", "ts">>})
Status == {Member("0", "a", "PRIMARY") @@ Member("1", "b", "SECONDARY") @@ OpTime("0") @@ OpTime("1"),
           Member("0", "a", "PRIMARY") @@ OpTime("0") @@ Numbers({<<"members", "1", "health">>}) @@ OpTime("1"),
           Numbers({<<"members", "0", "health">>}) @@ Member("1", "b", "SECONDARY"),
           Numbers({<<"myState">>, <<"ports", "0">>, <<"ports", "1">>})}
\* replSetGetConfig: a member has a host, and some have tags, or horizons by name.
HostedMember(i, host) ==
    <<"members", i, "host">> :> host @@ <<"members", i, "name">> :> "shell"
    @@ Numbers({<<"members", i, "votes">>, <<"members", i, "tags", "0", "rank">>})
Configuration == HostedMember("0", "a") @@ HostedMember("1", "b")

\* collStats: the user names the indexes.
Indexes == {"_id_", "item_count"}
CollStats == {Numbers({<<"storageStats", "indexSizes", i>> : i \in Indexes}
                      \cup {<<"storageStats", "indexDetails", i, "LSM", "hits">> : i \in Indexes}),
              Numbers({<<"storageStats", "count">>, <<"storageStats", "wiredTiger", "in use">>,
                       <<"storageStats", "wiredTiger", "in_use">>})}

Buckets(path) == Numbers({path \o <<i, "count">> : i \in {"0", "1"}})
                 @@ (path \o <<"0", "lowerBound">>) :> "0" @@ (path \o <<"1", "lowerBound">>) :> "8"
Histograms ==
    {Buckets(<<"serverStatus", "opWorkingTime", "histograms", "reads">>)
        @@ Numbers({<<"serverStatus", "opWorkingTime", "total">>,
                    <<"serverStatus", "histograms", "0", "total">>})}

\* MongoDB 8: what is of no block is dropped, and each block tells when it was made.
SplitAnswer ==
    Numbers({<<"start">>, <<"common", "start">>, <<"shard", "start">>,
             <<"common", "serverStatus", "uptime">>, <<"common", "serverStatus", "mem", "resident">>,
             <<"shard", "systemMetrics", "cpu">>})

\* Locks and what is summed up: each a number, a text, a null, or of no known type, or missing.
LockPath(resource, counted, mode) == <<"serverStatus", "locks", resource, counted, mode>>
SomeLocks == Numbers({LockPath("Global", "acquireCount", "r")}
                     \cup {LockPath(r, "acquireCount", "w") : r \in {"ParallelBatchWriterMode",
                                                                  "ReplicationStateTransition"}})
Waits(r, w) == LockPath("Global", "timeAcquiringMicros", "r") :> r
               @@ LockPath("Global", "timeAcquiringMicros", "w") :> w
Summed == {Waits(r, w) : r, w \in {"1", "text", "null", "decimal"}}
          \cup {SomeLocks, Numbers({LockPath("Global", "timeAcquiringMicros", "r"),
                                    <<"serverStatus", "wiredTiger", "cache", "modified pages evicted">>})}

\* Of the operations that a server counts, idhack has no row of its own (v1_compatibility.go:81 has one).
Operations == Numbers({<<"serverStatus", "metrics", "operation", op>> : op \in {"idhack", "scanAndOrder"}})

-----------------------------------------------------------------------------
(***************************************************************************)
(* A path for every row of the tables, and all pairs of such paths.        *)
(***************************************************************************)
Joined(words) == FoldLeft(LAMBDA key, word : IF key = "" THEN word ELSE key \o " " \o word, "", words)

\* The words of a name that the rules put in place of the first keys, and those keys.
Shortened(words) ==
    IF IsPrefix(<<"ss", "wt", "txn">>, words) THEN 3
    ELSE IF IsPrefix(<<"ss", "wt">>, words) THEN 2
    ELSE IF words[1] = "ss" THEN 1 ELSE 0
Root(words) == SubSeq(<<"serverStatus", "wiredTiger", "transaction">>, 1, Shortened(words))
LastWords(words) == SubSeq(words, Shortened(words) + 1, Len(words))

\* The rows that match the name of some value; those left out ask for brackets, which no name
\* has, for a key of connections, which is a label, or for what special conversions make.
Nameable(row) == row.words[1] \in {"ss", "start"}
                 /\ row.words[Len(row.words)] \notin {"[rw]", "[resident|virtual]", "totalCreated"}
                 /\ \A i \in DOMAIN SpecialConversions : row.words # SpecialConversions[i].old
RowsOf(table) == {table[i] : i \in {i \in DOMAIN table : Nameable(table[i])}}
Labelled  == {row.words : row \in {row \in RowsOf(Conversions) : row.names # {}}}
OneKey    == {row.words : row \in {row \in RowsOf(Conversions) : row.whole /\ row.names = {}}}
             \cup UNION {{row.words \o pair[1] : pair \in row.suffixes} :
                            row \in RowsOf(Conversions) \cup RowsOf(SpecialConversions)}
\* A key for each of the first words, and one for all of three words or more after the first.
PathOf(words) ==
    LET last == LastWords(words)
    IN Root(words) \o IF Len(last) <= 3 THEN last ELSE <<last[1], Joined(Tail(last))>>
RowPaths == {PathOf(words) : words \in OneKey}
            \cup {Append(Root(words) \o LastWords(words), "current") : words \in Labelled}
NewGeneration == {<<"serverStatus", "queues", "execution", op, "out">> : op \in {"read", "write"}}
Pairs == {Numbers({p, q}) : p, q \in RowPaths \cup NewGeneration}

DbStats == Numbers({<<key>> : key \in {"collections", "dataSize", "indexSize", "indexes", "objects"}})

KnownSpellings ==
    "collstats_storage" :> <<"collstats", "storage">> @@ "rs_cfg" :> <<"rs", "cfg">>
    @@ "in use" :> <<"in", "use">> @@ "in_use" :> <<"in", "use">> @@ "_id_" :> <<"id">>
    @@ "local.oplog.rs.stats" :> <<"local", "oplog", "rs", "stats">>
    @@ "index_name" :> <<"index", "name">> @@ "item_count" :> <<"item", "count">>
    @@ "modified pages evicted" :> <<"modified", "pages", "evicted">>
RowSpellings ==
    LET longs == {Tail(LastWords(words)) : words \in {words \in OneKey : Len(LastWords(words)) > 3}}
    IN [key \in {Joined(long) : long \in longs} |-> CHOOSE long \in longs : Joined(long) = key]
Spellings == KnownSpellings @@ RowSpellings

AllInputs ==
    Of(Calls(<<>>, {}, FALSE), Status)
    \cup Of(Calls(<<"rs_cfg">>, {}, FALSE), {Configuration})
    \cup Of(Calls(<<"dbstats">>, {<<"database", "app">>}, FALSE), {DbStats})
    \cup Of(Calls(<<"collstats">>, {<<"database", "app">>}, FALSE), CollStats)
    \cup Of(Diagnostic, Histograms \cup {SplitAnswer, Operations} \cup Summed)
    \cup Of(Compatibly, Pairs)
TwoPositions == <<"0", "1">>
=============================================================================
