------------------------------- MODULE Naming -------------------------------
(***************************************************************************)
(* The name, the help, the type and the labels of a metric made of one     *)
(* value of a document (exporter/metrics.go).                              *)
(*                                                                         *)
(* A path is the sequence of the keys that lead to a value; the code joins *)
(* them with dots.  A key may itself hold dots: "local.oplog.rs.stats".    *)
(* A metric's name is a sequence of words, without its leading "mongodb":  *)
(* what is between the underscores once every other character is one,      *)
(* repeated ones are merged and those at the ends are cut.                 *)
(***************************************************************************)
EXTENDS Sequences, SequencesExt, TLC

CONSTANTS
    Spelled,    \* the words of the keys that are not one word
    Counting    \* the keys that end in "count", in any case

Words(key)  == IF key \in DOMAIN Spelled THEN Spelled[key] ELSE <<key>>
Spell(path) == FlattenSeq([i \in DOMAIN path |-> Words(path[i])])

Rule(from, to) == [from |-> from, to |-> to]

\* The rules that shorten names; the first that applies is applied.
PrefixRules ==
    <<Rule(<<"serverStatus", "wiredTiger", "transaction">>, <<"ss", "wt", "txn">>),
      Rule(<<"serverStatus", "wiredTiger">>, <<"ss", "wt">>),
      Rule(<<"serverStatus", "queues", "execution">>, <<"ss", "wt", "concurrentTransactions">>),
      Rule(<<"serverStatus">>, <<"ss">>),
      Rule(<<"replSetGetStatus">>, <<"rs">>),
      Rule(<<"systemMetrics">>, <<"sys">>),
      Rule(<<"local.oplog.rs.stats", "wiredTiger">>, <<"oplog", "stats", "wt">>),
      Rule(<<"local.oplog.rs.stats", "storageStats", "wiredTiger">>, <<"oplog", "stats", "wt">>),
      Rule(<<"local.oplog.rs.stats">>, <<"oplog", "stats">>),
      Rule(<<"local.oplog.rs.stats", "storageStats">>, <<"oplog", "stats">>),
      Rule(<<"collstats_storage", "wiredTiger">>, <<"collstats", "storage", "wt">>),
      Rule(<<"collstats_storage", "indexDetails">>, <<"collstats", "storage", "idx">>),
      Rule(<<"collStats", "storageStats">>, <<"collstats", "storage">>),
      Rule(<<"collStats", "latencyStats">>, <<"collstats", "latency">>)>>

\* A rule asks for a dot after its words: one that ends the string (dotted) will do.
Shortens(rule, path, dotted) ==
    IsPrefix(rule.from, path) /\ (dotted \/ rule.from # path)

Prometheusize(path, dotted) ==
    LET rules == SelectSeq(PrefixRules, LAMBDA rule : Shortens(rule, path, dotted)) IN
    IF rules = <<>> THEN Spell(path)
    ELSE Head(rules).to \o Spell(SubSeq(path, Len(Head(rules).from) + 1, Len(path)))

Under(parent, keys, label) == {<<Append(parent, k), label>> : k \in keys}

\* The maps whose keys become values of one label, and the labels.
PDMetrics ==
    Under(<<"collStats", "storageStats">>, {"indexDetails"}, "index_name")
    \cup Under(<<"globalLock">>, {"activeQueue"}, "count_type")
    \cup Under(<<"globalLock">>, {"locks"}, "lock_type")
    \cup Under(<<"serverStatus">>, {"asserts"}, "assert_type")
    \cup Under(<<"serverStatus">>, {"connections"}, "conn_type")
    \cup Under(<<"serverStatus", "globalLock">>, {"currentQueue"}, "count_type")
    \cup Under(<<"serverStatus", "metrics">>, {"commands"}, "cmd_name")
    \cup Under(<<"serverStatus", "metrics", "cursor">>, {"open"}, "csr_type")
    \cup Under(<<"serverStatus", "metrics">>, {"document"}, "doc_op_type")
    \cup Under(<<"serverStatus">>, {"opLatencies"}, "op_type")
    \cup Under(<<"serverStatus">>, {"opReadConcernCounters"}, "concern_type")
    \cup Under(<<"serverStatus">>, {"opcounters", "opcountersRepl"}, "legacy_op_type")
    \cup Under(<<"serverStatus", "transactions">>, {"commitTypes"}, "commit_type")
    \cup Under(<<"serverStatus", "wiredTiger">>, {"concurrentTransactions"}, "txn_rw_type")
    \cup Under(<<"serverStatus", "queues">>, {"execution"}, "txn_rw_type")
    \cup Under(<<"serverStatus", "wiredTiger">>, {"perf"}, "perf_bucket")
    \cup Under(<<"systemMetrics">>, {"disks"}, "device_name")
    \cup Under(<<"collstats", "storageStats">>, {"indexSizes"}, "index_name")
    \cup Under(<<"config.transactions.stats", "storageStats">>, {"indexSizes"}, "index_name")
    \cup Under(<<"config.image_collection.stats", "storageStats">>, {"indexSizes"}, "index_name")
PDLabels == {row[2] : row \in PDMetrics}
NodeToPDMetrics ==
    [path \in {row[1] : row \in PDMetrics} |-> (CHOOSE row \in PDMetrics : row[1] = path)[2]]

\* The maps whose keys become values of one label for all that is below them.
KeyNodes ==
    {<<"storageStats", "indexDetails">>}
    \cup {<<parent, "storageStats", "indexDetails">> :
             parent \in {"collstats", "config.transactions.stats", "config.image_collection.stats"}}
KeyNodesToLabels == [path \in KeyNodes |-> "index_name"]

\* Labels are pairs of a name and a value: the code's two slices.
With(labels, name, value) == {pair \in labels : pair[1] # name} \cup {<<name, value>>}

NameAndLabel(prefix, name) ==
    IF prefix \in DOMAIN NodeToPDMetrics
    THEN [name |-> Prometheusize(prefix, TRUE), label |-> {<<NodeToPDMetrics[prefix], name>>}]
    ELSE [name |-> Prometheusize(Append(prefix, name), FALSE), label |-> {}]

MetricHelp(prefix, name) ==
    IF prefix \in DOMAIN NodeToPDMetrics THEN prefix ELSE Append(prefix, name)

\* Variant: an index whose name ends in "count" makes a counter of its size.
ReservedNone == {}
ReservedPrefixes == {<<"collstats", "storageStats", "indexSizes">>}

\* "of" is the path of the value; "special" and "v1" tell the row of the table the metric
\* comes from, if any.  The code keeps neither.
MakeRawMetric(of, prefix, name, labels) ==
    LET named == NameAndLabel(prefix, name) IN
    [of |-> of, special |-> 0, v1 |-> 0,
     name |-> named.name, help |-> MetricHelp(prefix, name), labels |-> labels \cup named.label,
     type |-> IF prefix \notin ReservedPrefixes /\ name \in Counting THEN "counter" ELSE "untyped"]

\* An invalid metric has no name, and is of no type.
Invalid(of) == [of |-> of, special |-> 0, v1 |-> 0,
                name |-> <<>>, help |-> <<>>, labels |-> {}, type |-> "invalid"]
Valid(m) == m.type # "invalid"

\* A metric with two values of one label is none.
RawToPrometheusMetric(m) ==
    IF \E p, q \in m.labels : p[1] = q[1] /\ p # q THEN Invalid(m.of) ELSE m

\* The walk serves histograms only on demand.  The first key alone is one if it is all.
IsHistogramPath(path) ==
    path = <<"histograms">> \/ \E i \in 2..Len(path) : path[i] = "histograms"
=============================================================================
