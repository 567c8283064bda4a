----------------------------- MODULE MetricTree -----------------------------
(***************************************************************************)
(* From a document to metrics (exporter/metrics.go): the walk over its     *)
(* maps, in Go's random order, and its arrays, the labels given on the     *)
(* way down, and what the diagnostic data collector adds.                  *)
(*                                                                         *)
(* A document is a function from the paths of its leaves to their values;  *)
(* a step into an array is its position.  The recursion of the code is a   *)
(* stack of maps and arrays being walked.                                  *)
(***************************************************************************)
EXTENDS CompatV1, FiniteSets

CONSTANTS
    Inputs,      \* the calls of makeMetrics: "call", its parameters and whether diagnosticdata
                 \* makes it, and "answer", the document the command answered
    Order,       \* the positions in arrays, in order
    Texts, Odd,  \* values no metric is made of, and values asFloat64 does not know
    Null         \* the one of those that walkTo takes for nothing

\* Labels the walk itself may give.
WalkLabels == {"member_idx", "member_state", "lower_bound", "index_name"} \cup PDLabels

\* Labels that rows of version 1 give another's place.
RowLabels == {"type", "state"}

VARIABLES
    call,        \* the parameters of makeMetrics
    answer,      \* what the command answered
    doc,         \* the document walked
    phase,       \* "read", "walk", "locks", "sums", "end", or "crashed"
    stack,       \* the maps and arrays being walked, the innermost first
    metrics      \* those made

vars == <<call, answer, doc, phase, stack, metrics>>

Positions == {Order[i] : i \in DOMAIN Order}

KeysIn(d, path) == {q[Len(path) + 1] : q \in {q \in DOMAIN d : IsStrictPrefix(path, q)}}

Key == STRING

\* A document is a map of maps and arrays.  A step into an array is no key of a map, and of a
\* bucket of a histogram there is a lower bound and a count.
IsDocument(d) ==
    /\ DOMAIN d \subseteq Seq(Key) \ {<<>>}
    /\ \A p, q \in DOMAIN d : ~IsStrictPrefix(p, q)
    /\ \A q \in DOMAIN d : q[1] \notin Positions
    /\ \A q \in DOMAIN d : \A i \in 1..(Len(q) - 1) :
          LET path == SubSeq(q, 1, i)
              keys == KeysIn(d, path)
          IN /\ keys \subseteq Positions \/ keys \cap Positions = {}
             /\ q[i] \in Positions /\ {"lowerBound", "count"} \subseteq keys =>
                   keys = {"lowerBound", "count"} /\ \A key \in keys : Append(path, key) \in DOMAIN d

\* MongoDB 8 answers getDiagnosticData in blocks, which are maps.
Split(d) == \E q \in DOMAIN d : q[1] = "common"

\* The labels of the caller are a map, of other names than the walk's and the rows'.
ASSUME MetricTreeAssumption ==
    /\ Texts \cap Odd = {} /\ Null \in Odd
    /\ Order \in Seq(Key) /\ {"lowerBound", "count"} \cap Positions = {}
    /\ \A input \in Inputs :
          /\ input.call.prefix \in Seq(Key)
          /\ \A p, q \in input.call.labels : p[1] = q[1] => p = q
          /\ \A p \in input.call.labels : p[1] \notin WalkLabels \cup RowLabels
          /\ IsDocument(input.answer)
          /\ Split(input.answer) => \A q \in DOMAIN input.answer : Len(q) > 1 => q[2] \notin Positions

Keys(path)   == KeysIn(doc, path)
IsLeaf(path) == path \in DOMAIN doc
IsList(path) == Keys(path) # {} /\ Keys(path) \subseteq Positions
IsMap(path)  == Keys(path) # {} /\ ~IsList(path)

\* Variant: what is below is looked up by the metric's name, which leaves positions out.
FrameByName(at, prefix, labels) == [at |-> at, prefix |-> prefix, labels |-> labels, left |-> Keys(prefix)]
\* A map or an array, at "at" in the document and under the name "prefix", with what is
\* left of it.
Frame(at, prefix, labels) == [at |-> at, prefix |-> prefix, labels |-> labels, left |-> Keys(at)]
Top     == Head(stack)
Path(k) == Append(Top.at, k)

Init ==
    /\ \E input \in Inputs : call = input.call /\ answer = input.answer
    /\ doc = answer
    /\ phase = "read" /\ stack = <<>> /\ metrics = {}

Given == <<call, answer>>

-----------------------------------------------------------------------------
(***************************************************************************)
(* The blocks of MongoDB 8.                                                *)
(***************************************************************************)
Blocks(d) == {q[1] : q \in {q \in DOMAIN d : Len(q) > 1}}

\* Variant: only the common block is kept.
MergedCommon(d) ==
    LET paths == {Tail(q) : q \in {q \in DOMAIN d : Len(q) > 1 /\ q[1] = "common"}}
    IN {[path \in paths |-> d[<<"common">> \o path]]}
\* The maps of all blocks in one: a key of several blocks is the one visited last.
Merged(d) ==
    LET inner == {q \in DOMAIN d : Len(q) > 1}
        keys  == {q[2] : q \in inner}
        from  == {f \in [keys -> Blocks(d)] : \A k \in keys : k \in KeysIn(d, <<f[k]>>)}
    IN {[path \in {Tail(q) : q \in {q \in inner : f[q[2]] = q[1]}} |-> d[<<f[path[1]]>> \o path]]
            : f \in from}

Read ==
    /\ phase = "read"
    /\ doc' \in IF call.diagnostic /\ Split(doc) THEN Merged(doc) ELSE {doc}
    /\ phase' = "walk"
    /\ stack' = <<[Frame(<<>>, call.prefix, call.labels) EXCEPT !.left = KeysIn(doc', <<>>)]>>
    /\ UNCHANGED <<Given, metrics>>

-----------------------------------------------------------------------------
(***************************************************************************)
(* The walk over a map.                                                    *)
(***************************************************************************)
InMap  == phase = "walk" /\ stack # <<>> /\ ~IsList(Top.at)
InList == phase = "walk" /\ stack # <<>> /\ IsList(Top.at)

Keyed == Top.prefix \in DOMAIN KeyNodesToLabels

\* Variant: the labels of a key node are a new map, not a copy.
LabelsAtAnew(k) == IF Keyed THEN {<<KeyNodesToLabels[Top.prefix], k>>} ELSE Top.labels
\* A key node's labels are a copy with the key as one more.
LabelsAt(k) == IF Keyed THEN With(Top.labels, KeyNodesToLabels[Top.prefix], k) ELSE Top.labels
PrefixAt(k) == Append(Top.prefix, IF Keyed THEN KeyNodesToLabels[Top.prefix] ELSE k)

Skipped(k) == ~call.histograms /\ IsHistogramPath(Append(Top.prefix, k))

\* asFloat64: no number for a text or an array, an error for a map and what it does not know.
NoNumber(path) == IsList(path) \/ (IsLeaf(path) /\ doc[path] \in Texts)
Unknown(path)  == IsMap(path) \/ (IsLeaf(path) /\ doc[path] \in Odd)
IsNumber(path) == IsLeaf(path) /\ doc[path] \notin Texts \cup Odd

\* appendMetricValue: the metrics made of one value.  appendCompatibleMetric would stop at a
\* row whose metric cannot be made; OneValueEach says that there is none.
AppendMetricValue(of, prefix, name, labels) ==
    CASE Unknown(of)  -> {Invalid(of)}
      [] NoNumber(of) -> {}
      [] OTHER -> LET served == Specially(MakeRawMetric(of, prefix, name, labels))
                      valid == {m \in served : RawToPrometheusMetric(m) = m}
                      v1 == IF call.compatible THEN UNION {Compatible(m) : m \in valid} ELSE {}
                  IN {RawToPrometheusMetric(m) : m \in served \cup v1}

IsHistogramBucketSlice(path, prefix) ==
    /\ IsHistogramPath(prefix)
    /\ \A i \in Keys(path) : {"lowerBound", "count"} \subseteq Keys(Append(path, i))

Bucket(path, i, key) == path \o <<i, key>>
ProcessHistogramSlice(path, prefix, labels) ==
    UNION {AppendMetricValue(Bucket(path, i, "count"), prefix, "count",
                             With(labels, "lower_bound", doc[Bucket(path, i, "lowerBound")]))
              : i \in Keys(path)}

\* A key is taken: what remains is the rest of the map, under what the key leads to.
Take(k, below) ==
    /\ k \in Top.left
    /\ stack' = below \o <<[Top EXCEPT !.left = @ \ {k}]>> \o Tail(stack)
    /\ UNCHANGED <<Given, doc, phase>>

SkipHistogram(k) ==
    /\ InMap /\ Skipped(k)
    /\ Take(k, <<>>)
    /\ UNCHANGED metrics

ServeValue(k) ==
    /\ InMap /\ ~Skipped(k) /\ IsLeaf(Path(k))
    /\ Take(k, <<>>)
    /\ metrics' = metrics \cup AppendMetricValue(Path(k), Top.prefix, k, LabelsAt(k))

ServeBuckets(k) ==
    /\ InMap /\ ~Skipped(k) /\ IsList(Path(k)) /\ IsHistogramBucketSlice(Path(k), PrefixAt(k))
    /\ Take(k, <<>>)
    /\ metrics' = metrics \cup ProcessHistogramSlice(Path(k), PrefixAt(k), LabelsAt(k))

\* A map, or an array that is no list of buckets.  An array is a primitive.A, as the driver's
\* decoder makes it; the case of a []any (metrics.go:342) is of documents no server sends.
Descend(k) ==
    /\ InMap /\ ~Skipped(k)
    /\ \/ IsMap(Path(k))
       \/ IsList(Path(k)) /\ ~IsHistogramBucketSlice(Path(k), PrefixAt(k))
    /\ Take(k, <<Frame(Path(k), PrefixAt(k), LabelsAt(k))>>)
    /\ UNCHANGED metrics

-----------------------------------------------------------------------------
(***************************************************************************)
(* The walk over an array.                                                 *)
(***************************************************************************)
First(left) ==
    Order[CHOOSE i \in DOMAIN Order : Order[i] \in left /\ \A j \in 1..(i - 1) : Order[j] \notin left]

Told(path, key) == Append(path, key) \in DOMAIN doc /\ doc[Append(path, key)] \in Texts

\* Variant: the name of a member goes before its host.
IdentifyNameLast(labels, path) ==
    LET hosted == IF Told(path, "host") THEN With(labels, "member_idx", doc[Append(path, "host")]) ELSE labels
    IN IF Told(path, "name") THEN With(hosted, "member_idx", doc[Append(path, "name")]) ELSE hosted
\* The member's own labels, over those the members before it have left.
Identify(labels, path) ==
    LET named  == IF Told(path, "name") THEN With(labels, "member_idx", doc[Append(path, "name")]) ELSE labels
        stated == IF Told(path, "stateStr") THEN With(named, "member_state", doc[Append(path, "stateStr")]) ELSE named
    IN IF Told(path, "host") THEN With(stated, "member_idx", doc[Append(path, "host")]) ELSE stated

NextMember ==
    /\ InList /\ Top.left # {}
    /\ LET i == First(Top.left)
           labels == Identify(Top.labels, Path(i))
           list == [Top EXCEPT !.left = @ \ {i}, !.labels = labels]
       IN stack' = IF IsMap(Path(i))
                   THEN <<Frame(Path(i), Top.prefix, labels), list>> \o Tail(stack)
                   ELSE <<[list EXCEPT !.labels = Top.labels]>> \o Tail(stack)
    /\ UNCHANGED <<Given, doc, phase, metrics>>

Return ==
    /\ phase = "walk" /\ stack # <<>> /\ Top.left = {}
    /\ stack' = Tail(stack)
    /\ UNCHANGED <<Given, doc, phase, metrics>>

Walked ==
    /\ phase = "walk" /\ stack = <<>>
    /\ phase' = IF call.diagnostic THEN "locks" ELSE "end"
    /\ UNCHANGED <<Given, doc, stack, metrics>>

-----------------------------------------------------------------------------
(***************************************************************************)
(* What the diagnostic data collector adds.                                *)
(***************************************************************************)
Locks ==
    /\ phase = "locks"
    /\ metrics' = metrics \cup {MakeLockMetric(lock) : lock \in {lock \in LockMetrics : IsNumber(lock.path)}}
    /\ phase' = IF call.compatible THEN "sums" ELSE "end"
    /\ UNCHANGED <<Given, doc, stack>>

\* The sums pass over what is not there, read what asFloat64 gives even if it is nil, and end
\* with an error.
Erroneous(path) == Unknown(path) /\ ~(IsLeaf(path) /\ doc[path] = Null)
\* Variant: a value that is not there is read as well.
SumCrashesIfAbsent(sum) ==
    \E i \in 1..2 : /\ ~IsNumber(sum.paths[i]) /\ ~Erroneous(sum.paths[i])
                   /\ \A j \in 1..(i - 1) : ~Erroneous(sum.paths[j])
SumCrashes(sum) ==
    \E i \in 1..2 : NoNumber(sum.paths[i]) /\ \A j \in 1..(i - 1) : ~Erroneous(sum.paths[j])
SumFails(sum) == \E i \in 1..2 : Erroneous(sum.paths[i])

Sums ==
    /\ phase = "sums"
    /\ phase' = IF \E sum \in {GlobalLockWaits, CacheEvicted} : SumCrashes(sum) THEN "crashed" ELSE "end"
    /\ metrics' = metrics \cup {SumMetric(sum) : sum \in {sum \in {GlobalLockWaits, CacheEvicted} : ~SumFails(sum)}}
    /\ UNCHANGED <<Given, doc, stack>>

\* A collect that is done, or a process that has died, makes no more metrics.
Ended == phase \in {"end", "crashed"} /\ UNCHANGED vars

Next ==
    \/ Read \/ NextMember \/ Return \/ Walked \/ Locks \/ Sums \/ Ended
    \/ \E k \in IF stack = <<>> THEN {} ELSE Top.left :
          SkipHistogram(k) \/ ServeValue(k) \/ ServeBuckets(k) \/ Descend(k)

Spec == Init /\ [][Next]_vars

-----------------------------------------------------------------------------
(***************************************************************************)
(* Properties.                                                             *)
(***************************************************************************)
Phases == {"read", "walk", "locks", "sums", "end", "crashed"}
Extra  == {MakeLockMetric(lock) : lock \in LockMetrics} \cup {SumMetric(GlobalLockWaits), SumMetric(CacheEvicted)}

TypeOK ==
    /\ phase \in Phases
    /\ \A m \in metrics : IsLeaf(m.of) \/ IsMap(m.of) \/ m \in Extra
    /\ \A i \in DOMAIN stack : stack[i].left \subseteq Keys(stack[i].at)

\* The paths of the answer as they are in the document walked; a key of two blocks may be
\* either's.
IsSplit    == call.diagnostic /\ Split(answer)
WalkedPath(q) == IF IsSplit THEN Tail(q) ELSE q
OfOneBlock(q) ==
    IsSplit => Len(q) > 1 /\ \A p \in DOMAIN answer : (Len(p) > 1 /\ p[2] = q[2]) => p[1] = q[1]

\* The code serves what is in arrays if they are arrays of maps, and of a histogram the counts.
InMaps(path) == \A i \in DOMAIN path : path[i] \in Positions => i < Len(path) /\ path[i + 1] \notin Positions
InHistogram(path) == \E i \in DOMAIN (call.prefix \o path) : (call.prefix \o path)[i] = "histograms"
Wanted(path) == InHistogram(path) => call.histograms /\ path[Len(path)] = "count"

\* Whatever order the maps are walked in, and however the answer is cut into blocks, every
\* number in it is served; a histogram's only on demand.
EveryNumberServed ==
    phase = "end" =>
        \A q \in DOMAIN answer :
            LET path == WalkedPath(q) IN
            (answer[q] \notin Texts \cup Odd /\ OfOneBlock(q) /\ InMaps(path) /\ Wanted(path))
            => \E m \in metrics : m.of = path /\ Valid(m)

\* The labels are the member's own.
OwnLabels(labels, member) ==
    /\ Told(member, "host") => <<"member_idx", doc[Append(member, "host")]>> \in labels
    /\ (Told(member, "name") /\ ~Told(member, "host")) =>
          <<"member_idx", doc[Append(member, "name")]>> \in labels
    /\ Told(member, "stateStr") => <<"member_state", doc[Append(member, "stateStr")]>> \in labels

\* The labels are those of the innermost of the members of arrays the path is in.
Innermost(path, i)  == path[i] \in Positions /\ \A j \in (i + 1)..Len(path) : path[j] \notin Positions
Tells(labels, path) == \A i \in DOMAIN path : Innermost(path, i) => OwnLabels(labels, SubSeq(path, 1, i))

\* A metric of a member of an array bears that member's own name and state, and not those
\* that the labels shared by all members have kept from another; but for metrics that a row
\* gives labels of its own, the locks and the sums.
MembersTold ==
    \A m \in metrics \ Extra :
        (Valid(m) /\ m.special = 0 /\ m.v1 = 0) => Tells(m.labels, m.of)

\* The registry refuses metrics of one name that differ in help, in the names of their labels
\* or in type, and those that are the same in name and labels.
LabelNames(m) == {pair[1] : pair \in m.labels}
Clash(m, n) ==
    /\ m # n /\ m.name = n.name /\ Valid(m) /\ Valid(n)
    /\ \/ m.help # n.help \/ LabelNames(m) # LabelNames(n) \/ m.type # n.type
       \/ m.labels = n.labels

\* The keys differ in what a name does not keep.
SpelledAlike(m, n) == m.of # n.of /\ Spell(m.of) = Spell(n.of)

\* The members of an array have no names of their own, or do not all tell their state.
Identity(member) ==
    CASE Told(member, "host") -> doc[Append(member, "host")]
      [] Told(member, "name") /\ ~Told(member, "host") -> doc[Append(member, "name")]
      [] OTHER -> "nobody"
Unidentified(m, n) ==
    \E i \in DOMAIN m.of \cap DOMAIN n.of :
        LET p == SubSeq(m.of, 1, i)
            r == SubSeq(n.of, 1, i)
        IN /\ {m.of[i], n.of[i]} \subseteq Positions /\ m.of[i] # n.of[i]
           /\ \/ Identity(p) = Identity(r) \/ "nobody" \in {Identity(p), Identity(r)}
              \/ Told(p, "stateStr") # Told(r, "stateStr")

\* The server tells a thing where older servers tell it, and where newer ones do.
Moved ==
    {<<<<"serverStatus", "wiredTiger", "transaction">>, <<"serverStatus", "wiredTiger", "checkpoint">>>>,
     <<<<"serverStatus", "wiredTiger", "concurrentTransactions">>, <<"serverStatus", "queues", "execution">>>>}
BothGenerations(m, n) ==
    \E pair \in Moved : (IsPrefix(pair[1], m.of) /\ IsPrefix(pair[2], n.of))
                        \/ (IsPrefix(pair[2], m.of) /\ IsPrefix(pair[1], n.of))

\* The second row of lockMetrics bears the labels of the third.
Mislabelled(m, n) ==
    {m.of, n.of} = {<<"serverStatus", "locks", resource, "acquireCount", "w">> :
                       resource \in {"ParallelBatchWriterMode", "ReplicationStateTransition"}}

\* A metric is invalid for one reason only, a value asFloat64 does not know: however deep the
\* labels are handed down and whatever a row makes of them, none gets two values.
OneValueEach == \A m \in metrics : ~Valid(m) => Unknown(m.of)

\* The registry refuses the metrics of a document for no reason but these: no two rows of the
\* tables, in compatible mode or not, give metrics that clash.
RegistryAccepts ==
    /\ OneValueEach
    /\ \A m, n \in metrics : Clash(m, n) =>
          SpelledAlike(m, n) \/ Unidentified(m, n) \/ BothGenerations(m, n) \/ Mislabelled(m, n)

\* The labels of the caller, which tell the node and the namespace, are on every metric but
\* those that a row of a table gives labels of its own, the locks and the sums.
CallerLabelsKept ==
    \A m \in metrics \ Extra :
        (Valid(m) /\ m.special = 0 /\ m.v1 = 0) => call.labels \subseteq m.labels

\* The one panic of the conversions, the sum over a value that is no number, needs a text or
\* an array where MongoDB has a number.
DiesOfNoNumber ==
    phase = "crashed" =>
        \E q \in DOMAIN answer : \E sum \in {GlobalLockWaits, CacheEvicted} : \E i \in 1..2 :
            /\ IsPrefix(sum.paths[i], WalkedPath(q))
            /\ answer[q] \in Texts \/ WalkedPath(q) # sum.paths[i]
=============================================================================
