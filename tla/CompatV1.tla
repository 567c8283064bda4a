------------------------------ MODULE CompatV1 ------------------------------
(***************************************************************************)
(* The metrics of version 1 of the exporter: the tables that convert a     *)
(* metric, and how a row of a table applies (exporter/v1_compatibility.go, *)
(* and metricRenameAndLabel of exporter/metrics.go).                       *)
(*                                                                         *)
(* A row matches a metric by its whole name, or by the words its name      *)
(* begins with.  The code compares characters; a prefix that ends inside   *)
(* a word leaves a rest that no row has.                                   *)
(***************************************************************************)
EXTENDS Naming, Integers

\* What a row maps, names and values of labels or the rest of a name, is a set of pairs.
Row(old, whole, words, label, suffixes) ==
    [old |-> old, whole |-> whole, words |-> words, names |-> {}, values |-> {},
     label |-> label, suffixes |-> suffixes]

Renamed(old, words) == Row(<<old>>, TRUE, words, "", {})
\* One label gets another name.
Relabelled(old, words, from, to, values) ==
    [Renamed(old, words) EXCEPT !.names = {<<from, to>>}, !.values = values]

\* The rest of the name becomes the value of a label, as "suffixes" maps it.
Suffixed(old, words, label, suffixes) == Row(<<old>>, FALSE, words, label, suffixes)

\* Suffixes of one word.
Each(pairs)  == {<<<<pair[1]>>, pair[2]>> : pair \in pairs}
Alike(words) == {<<<<w>>, w>> : w \in words}

Singular == {<<"readers", "reader">>, <<"writers", "writer">>}
OpWords == {<<"commands", "command">>, <<"reads", "read">>, <<"writes", "write">>}
ApplyBatches(rest) == <<"ss", "metrics", "repl", "apply", "batches", rest>>
Network(rest)      == <<"ss", "metrics", "repl", "network">> \o rest
Checkpoint(rest)   == <<"ss", "wt", "txn", "transaction", "checkpoint">> \o rest
Minutes == {<<<<"min", "time", "msecs">>, "min">>, <<<<"max", "time", "msecs">>, "max">>}

\* The first third of the table: up to the replication metrics.
ServerConversions ==
    <<Relabelled("asserts_total", <<"ss", "asserts">>, "assert_type", "type", {}),
      Relabelled("connections", <<"ss", "connections">>, "conn_type", "state", {}),
      Renamed("connections_metrics_created_total", <<"ss", "connections", "totalCreated">>),
      Renamed("extra_info_page_faults_total", <<"ss", "extra", "info", "page", "faults">>),
      Renamed("mongod_durability_journaled_megabytes", <<"ss", "dur", "journaledMB">>),
      Renamed("mongod_durability_commits", <<"ss", "dur", "commits">>),
      Renamed("mongod_background_flushing_average_milliseconds",
              <<"ss", "backgroundFlushing", "average", "ms">>),
      Suffixed("mongod_global_lock_client", <<"ss", "globalLock", "activeClients">>, "type",
               Each(Singular \cup {<<"total", "total">>})),
      Relabelled("mongod_global_lock_current_queue", <<"ss", "globalLock", "currentQueue">>,
                 "count_type", "type", Singular),
      Renamed("instance_local_time", <<"start">>),
      Renamed("mongod_instance_uptime_seconds", <<"ss", "uptime">>),
      Renamed("instance_uptime_seconds", <<"ss", "uptime">>),
      Renamed("mongod_locks_time_locked_local_microseconds_total",
              <<"ss", "locks", "Local", "acquireCount", "[rw]">>),
      Renamed("memory", <<"ss", "mem", "[resident|virtual]">>),
      Suffixed("memory", <<"ss", "mem">>, "type",
               Each({<<"mapped", "mapped">>, <<"mappedWithJournal", "mapped_with_journal">>})),
      Relabelled("mongod_metrics_cursor_open", <<"ss", "metrics", "cursor", "open">>,
                 "csr_type", "state", {}),
      Renamed("mongod_metrics_cursor_timed_out_total", <<"ss", "metrics", "cursor", "timedOut">>),
      Relabelled("mongod_metrics_document_total", <<"ss", "metric", "document">>,
                 "doc_op_type", "type", {}),
      Renamed("mongod_metrics_get_last_error_wtime_num_total",
              <<"ss", "metrics", "getLastError", "wtime", "num">>),
      Renamed("mongod_metrics_get_last_error_wtimeouts_total",
              <<"ss", "metrics", "getLastError", "wtimeouts">>),
      Suffixed("mongod_metrics_operation_total", <<"ss", "metrics", "operation">>, "state",
               Alike({"scanAndOrder", "writeConflicts"})),
      Suffixed("mongod_metrics_query_executor_total", <<"ss", "metrics", "query">>, "state", {}),
      Renamed("mongod_metrics_record_moves_total", <<"ss", "metrics", "record", "moves">>)>>

\* The second third: replication, network, and what WiredTiger counts.
ReplConversions ==
    <<Renamed("mongod_metrics_repl_apply_batches_num_total", ApplyBatches("num")),
      Renamed("mongod_metrics_repl_apply_batches_total_milliseconds", ApplyBatches("totalMillis")),
      Renamed("mongod_metrics_repl_apply_ops_total", <<"ss", "metrics", "repl", "apply", "ops">>),
      Renamed("mongod_metrics_repl_buffer_count", <<"ss", "metrics", "repl", "buffer", "count">>),
      Renamed("mongod_metrics_repl_buffer_max_size_bytes",
              <<"ss", "metrics", "repl", "buffer", "maxSizeBytes">>),
      Renamed("mongod_metrics_repl_buffer_size_bytes",
              <<"ss", "metrics", "repl", "buffer", "sizeBytes">>),
      Suffixed("mongod_metrics_repl_executor_queue",
               <<"ss", "metrics", "repl", "executor", "queues">>, "type", {}),
      Renamed("mongod_metrics_repl_executor_unsignaled_events",
              <<"ss", "metrics", "repl", "executor", "unsignaledEvents">>),
      Renamed("mongod_metrics_repl_network_bytes_total", Network(<<"bytes">>)),
      Renamed("mongod_metrics_repl_network_getmores_num_total", Network(<<"getmores", "num">>)),
      Renamed("mongod_metrics_repl_network_getmores_total_milliseconds",
              Network(<<"getmores", "totalMillis">>)),
      Renamed("mongod_metrics_repl_network_ops_total", Network(<<"ops">>)),
      Renamed("mongod_metrics_repl_network_readers_created_total", Network(<<"readersCreated">>)),
      Renamed("mongod_metrics_ttl_deleted_documents_total",
              <<"ss", "metrics", "ttl", "deletedDocuments">>),
      Renamed("mongod_metrics_ttl_passes_total", <<"ss", "metrics", "ttl", "passes">>),
      Suffixed("network_bytes_total", <<"ss", "network">>, "state", {}),
      Renamed("network_metrics_num_requests_total", <<"ss", "network", "numRequests">>),
      Relabelled("mongod_op_counters_repl_total", <<"ss", "opcountersRepl">>,
                 "legacy_op_type", "type", {}),
      Relabelled("op_counters_total", <<"ss", "opcounters">>, "legacy_op_type", "type", {}),
      Suffixed("mongod_wiredtiger_blockmanager_blocks_total", <<"ss", "wt", "block", "manager">>,
               "type", {}),
      Renamed("mongod_wiredtiger_cache_max_bytes",
              <<"ss", "wt", "cache", "maximum", "bytes", "configured">>),
      Renamed("mongod_wiredtiger_cache_overhead_percent",
              <<"ss", "wt", "cache", "percentage", "overhead">>),
      Renamed("mongod_wiredtiger_concurrent_transactions_available_tickets",
              <<"ss", "wt", "concurrentTransactions", "available">>),
      Renamed("mongod_wiredtiger_concurrent_transactions_out_tickets",
              <<"ss", "wt", "concurrentTransactions", "out">>),
      Renamed("mongod_wiredtiger_concurrent_transactions_total_tickets",
              <<"ss", "wt", "concurrentTransactions", "totalTickets">>),
      Renamed("mongod_wiredtiger_log_records_scanned_total",
              <<"ss", "wt", "log", "records", "processed", "by", "log", "scan">>),
      Renamed("mongod_wiredtiger_session_open_cursors_total",
              <<"ss", "wt", "session", "open", "cursor", "count">>),
      Renamed("mongod_wiredtiger_session_open_sessions_total",
              <<"ss", "wt", "session", "open", "session", "count">>),
      Renamed("mongod_wiredtiger_transactions_checkpoint_milliseconds_total",
              Checkpoint(<<"total", "time", "msecs">>)),
      Renamed("mongod_wiredtiger_transactions_checkpoint_milliseconds_total",
              <<"ss", "wt", "checkpoint", "total", "time", "msecs">>),
      Renamed("mongod_wiredtiger_transactions_running_checkpoints",
              Checkpoint(<<"currently", "running">>)),
      Renamed("mongod_wiredtiger_transactions_running_checkpoints",
              <<"ss", "wt", "checkpoint", "currently", "running">>),
      Renamed("ss_tcmalloc_tcmalloc_thread_cache_free_bytes",
              <<"ss", "tcmalloc", "tcmalloc", "thread", "cache", "free">>)>>

\* The last third: WiredTiger by the rest of the name, latencies, databases.
StorageConversions ==
    <<Suffixed("mongod_wiredtiger_transactions_total", <<"ss", "wt", "txn", "transactions">>, "type",
               {<<<<w>>, w>> : w \in {"begins", "checkpoints", "committed"}}
               \cup {<<<<"rolled", "back">>, "rolled_back">>}),
      Suffixed("mongod_wiredtiger_blockmanager_bytes_total", <<"ss", "wt", "block", "manager">>, "type",
               {<<<<"bytes", "read">>, "read">>,
                <<<<"mapped", "bytes", "read">>, "read_mapped">>,
                <<<<"bytes", "written">>, "written">>}),
      Suffixed("mongod_wiredtiger_cache_bytes", <<"ss", "wt", "cache", "bytes">>, "type",
               {<<<<"currently", "in", "the", "cache">>, "total">>,
                <<<<"tracked", "dirty", "bytes", "in", "the", "cache">>, "dirty">>,
                <<<<"tracked", "bytes", "belonging", "to", "internal", "pages", "in", "the",
                   "cache">>, " internal_pages">>,
                <<<<"tracked", "bytes", "belonging", "to", "leaf", "pages", "in", "the",
                   "cache">>, "internal_pages">>}),
      Suffixed("mongod_wiredtiger_cache_bytes_total", <<"ss", "wt", "cache">>, "type",
               {<<<<"bytes", "read", "into", "cache">>, "read">>,
                <<<<"bytes", "written", "from", "cache">>, "written">>}),
      Suffixed("mongod_wiredtiger_cache_pages", <<"ss", "wt", "cache">>, "type",
               {<<<<"pages", "currently", "held", "in", "the", "cache">>, "total">>,
                <<<<"tracked", "dirty", "pages", "in", "the", "cache">>, "dirty">>}),
      Suffixed("mongod_wiredtiger_cache_pages_total", <<"ss", "wt", "cache">>, "type",
               {<<<<"pages", "read", "into", "cache">>, "read">>,
                <<<<"pages", "written", "from", "cache">>, "written">>}),
      Suffixed("mongod_wiredtiger_log_records_total", <<"ss", "wt", "log">>, "type",
               {<<<<"log", "records", "compressed">>, "compressed">>,
                <<<<"log", "records", "not", "compressed">>, "uncompressed">>}),
      Suffixed("mongod_wiredtiger_log_bytes_total", <<"ss", "wt", "log">>, "type",
               {<<<<"log", "bytes", "of", "payload", "data">>, "payload">>,
                <<<<"log", "bytes", "written">>, "unwritten">>}),
      Suffixed("mongod_wiredtiger_log_operations_total", <<"ss", "wt", "log">>, "type",
               {<<<<"log", op, "operations">>, op>> : op \in {"read", "write", "scan", "sync", "flush"}}
               \cup {<<<<"log", "scan", "records", "requiring", "two", "reads">>, "scan_double">>,
                     <<<<"log", "sync", "dir", "operations">>, "sync_dir">>}),
      Suffixed("mongod_wiredtiger_transactions_checkpoint_milliseconds", Checkpoint(<<>>), "type", Minutes),
      Suffixed("mongod_wiredtiger_transactions_checkpoint_milliseconds",
               <<"ss", "wt", "checkpoint">>, "type", Minutes),
      Suffixed("mongod_global_lock_current_queue",
               <<"mongod", "global", "lock", "current", "queue">>, "", {}),
      Relabelled("mongod_op_latencies_ops_total", <<"ss", "opLatencies", "ops">>, "op_type", "type",
                 OpWords),
      Relabelled("mongod_op_latencies_latency_total", <<"ss", "opLatencies", "latency">>,
                 "op_type", "type", OpWords),
      Relabelled("mongod_metrics_document_total", <<"ss", "metrics", "document">>,
                 "doc_op_type", "state", {}),
      Suffixed("mongod_metrics_query_executor_total", <<"ss", "metrics", "queryExecutor">>, "state",
               Each({<<"scanned", "scanned">>, <<"scannedObjects", "scanned_objects">>})),
      Suffixed("memory", <<"ss", "mem">>, "type", Alike({"resident", "virtual"})),
      Renamed("mongod_metrics_get_last_error_wtime_total_milliseconds",
              <<"ss", "metrics", "getLastError", "wtime", "totalMillis">>),
      Renamed("mongod_db_collections_total", <<"dbstats", "collections">>),
      Renamed("mongod_db_data_size_bytes", <<"dbstats", "dataSize">>),
      Renamed("mongod_db_index_size_bytes", <<"dbstats", "indexSize">>),
      Renamed("mongod_db_indexes_total", <<"dbstats", "indexes">>),
      Renamed("mongod_db_objects_total", <<"dbstats", "objects">>)>>

Conversions == ServerConversions \o ReplConversions \o StorageConversions

-----------------------------------------------------------------------------
\* Conversions of every metric, in compatible mode or not: the latencies and the tickets.
Latencies(what) ==
    Row(<<"ss", "opLatencies", what>>, FALSE, <<"ss", "opLatencies">>, "op_type",
        {<<<<op, what>>, op>> : op \in {"commands", "reads", "transactions", "writes"}})
Tickets(what) ==
    Row(<<"ss", "wt", "concurrentTransactions", what>>, FALSE,
        <<"ss", "wt", "concurrentTransactions">>, "txn_rw",
        {<<<<op, what>>, op>> : op \in {"read", "write"}})
SpecialConversions ==
    <<Latencies("ops"), Latencies("latency"), Tickets("out"), Tickets("available"),
      Tickets("totalTickets")>>

-----------------------------------------------------------------------------
Mapped(pairs, x) ==
    IF \E pair \in pairs : pair[1] = x THEN (CHOOSE pair \in pairs : pair[1] = x)[2] ELSE x

\* A row for the whole name: the labels stay, under the names and with the values of v1.
NewToOldMetric(m, row) ==
    [m EXCEPT !.name = row.old,
              !.labels = {<<Mapped(row.names, p[1]), Mapped(row.values, p[2])>> : p \in @}]

Rest(m, row) == SubSeq(m.name, Len(row.words) + 1, Len(m.name))

\* A row for the first words: one label is left.
CreateOldMetricFromNew(m, row) ==
    [m EXCEPT !.name = row.old, !.help = row.old,
              !.labels = {<<row.label, Mapped(row.suffixes, Rest(m, row))>>}]

Matches(m, row) ==
    IF row.whole THEN m.name = row.words
    ELSE IsPrefix(row.words, m.name) /\ \E pair \in row.suffixes : pair[1] = Rest(m, row)

Convert(m, row) == IF row.whole THEN NewToOldMetric(m, row) ELSE CreateOldMetricFromNew(m, row)

\* metricRenameAndLabel: the rows that apply to m, all of them.
Rows(m, table) == {i \in 1..Len(table) : Matches(m, table[i])}

\* A metric with a special conversion is replaced by it.
Specially(m) ==
    LET rows == Rows(m, SpecialConversions) IN
    IF rows = {} THEN {m}
    ELSE {[Convert(m, SpecialConversions[i]) EXCEPT !.special = i] : i \in rows}

Compatible(m) == {[Convert(m, Conversions[i]) EXCEPT !.v1 = i] : i \in Rows(m, Conversions)}

-----------------------------------------------------------------------------
(***************************************************************************)
(* The metrics of diagnostic data that no row converts: locks, and sums.   *)
(***************************************************************************)
Lock(what, resource, counted, mode, labelled) ==
    [name |-> <<"ss", "locks", what>>, path |-> <<"serverStatus", "locks", resource, counted, mode>>,
     labels |-> {<<"lock_mode", mode>>, <<"resource", labelled>>}]

LockMetrics ==
    LET PBWM == "ParallelBatchWriterMode"
        RST  == "ReplicationStateTransition"
    IN {Lock("acquireCount", PBWM, "acquireCount", "r", PBWM),
        Lock("acquireCount", PBWM, "acquireCount", "w", RST),
        Lock("acquireCount", RST, "acquireCount", "w", RST),
        Lock("acquireWaitCount", RST, "acquireCount", "W", RST),
        Lock("timeAcquiringMicros", RST, "timeAcquiringMicros", "w", RST)}
       \cup {Lock("acquireCount", "Global", "acquireCount", mode, "Global") : mode \in {"r", "w", "W"}}

MakeLockMetric(lock) ==
    [of |-> lock.path, special |-> 0, v1 |-> 0,
     name |-> lock.name, help |-> lock.name, labels |-> lock.labels, type |-> "untyped"]

\* The two sums of compatible mode: the name, and the values added up, in order.
GlobalLockWaits ==
    [name  |-> <<"mongod_locks_time_acquiring_global_microseconds_total">>,
     paths |-> [i \in 1..2 |-> <<"serverStatus", "locks", "Global", "timeAcquiringMicros", <<"r", "w">>[i]>>]]
CacheEvicted ==
    [name  |-> <<"mongod_wiredtiger_cache_evicted_total">>,
     paths |-> [i \in 1..2 |-> <<"serverStatus", "wiredTiger", "cache",
                                 <<"modified pages evicted", "unmodified pages evicted">>[i]>>]]
SumMetric(sum) ==
    [of |-> sum.name, special |-> 0, v1 |-> 0,
     name |-> sum.name, help |-> sum.name, labels |-> {}, type |-> "gauge"]
=============================================================================
