-------------------------- MODULE MetricTree_proofs --------------------------
(***************************************************************************)
(* Whatever the document and the order its maps are walked in: its metrics *)
(* bear the labels of the caller, those of a member of an array tell that  *)
(* member, every number in it is served, and only a text or an array in    *)
(* the place of a number makes the conversions panic.                      *)
(***************************************************************************)
EXTENDS MetricTree, SequenceLemmas

\* What CallerLabelsKept rests on: no label of the caller is one the walk gives, and every map
\* and array being walked has the labels of the caller.
LabelsInv ==
    /\ \A pair \in call.labels : pair[1] \notin WalkLabels
    /\ \E S : stack \in Seq(S) /\ \A frame \in S : call.labels \subseteq frame.labels
    /\ CallerLabelsKept

-----------------------------------------------------------------------------
(***************************************************************************)
(* Lemmas on labels and on the metrics of one value.                       *)
(***************************************************************************)

\* A label of another name leaves the labels alone.
LEMMA WithKeeps ==
    ASSUME NEW C, NEW labels, NEW name, NEW value,
           C \subseteq labels, \A pair \in C : pair[1] # name
    PROVE  C \subseteq With(labels, name, value)
  BY DEF With

\* The labels of a key node are labels the walk gives.
LEMMA KeyNodeLabel ==
    ASSUME NEW path \in DOMAIN KeyNodesToLabels
    PROVE  KeyNodesToLabels[path] \in WalkLabels
  BY DEF KeyNodesToLabels, WalkLabels

\* A metric that no row of a table has made is the one made of the value, with the labels given.
LEMMA ValueKeepsLabels ==
    ASSUME NEW of, NEW prefix, NEW name, NEW labels,
           NEW m \in AppendMetricValue(of, prefix, name, labels),
           Valid(m), m.special = 0, m.v1 = 0
    PROVE  labels \subseteq m.labels
PROOF
  <1> DEFINE raw == MakeRawMetric(of, prefix, name, labels)
             served == Specially(raw)
             valid == {s \in served : RawToPrometheusMetric(s) = s}
             v1 == IF call.compatible THEN UNION {Compatible(s) : s \in valid} ELSE {}
  <1>1. raw.labels = labels \cup NameAndLabel(prefix, name).label
    BY DEF MakeRawMetric
  <1>2. ~Valid(Invalid(of))
    BY DEF Invalid, Valid
  <1>3. m \in {RawToPrometheusMetric(s) : s \in served \cup v1}
    BY <1>2 DEF AppendMetricValue
  <1>4. PICK s \in served \cup v1 : m = RawToPrometheusMetric(s)
    BY <1>3
  <1>5. m = s
    BY <1>4 DEF RawToPrometheusMetric, Invalid, Valid
  <1>6. DOMAIN raw = {"of", "special", "v1", "name", "help", "labels", "type"}
    BY DEF MakeRawMetric
  <1>7. \A t, row : DOMAIN Convert(t, row) = DOMAIN t
    BY DEF Convert, NewToOldMetric, CreateOldMetricFromNew
  <1>8. s \notin v1
    <2>1. SUFFICES ASSUME s \in v1 PROVE FALSE
      OBVIOUS
    <2>2. PICK t \in valid : s \in Compatible(t)
      BY <2>1
    <2>3. PICK i \in Rows(t, Conversions) : s = [Convert(t, Conversions[i]) EXCEPT !.v1 = i]
      BY <2>2 DEF Compatible
    <2>4. i # 0
      BY <2>3 DEF Rows
    <2>5. DOMAIN t = {"of", "special", "v1", "name", "help", "labels", "type"}
      BY <1>6, <1>7 DEF Specially
    <2>6. s.v1 = i
      BY <2>3, <2>5, <1>7
    <2>7. QED
      BY <2>4, <2>6, <1>5
  <1>9. s = raw
    <2>1. s \in Specially(raw)
      BY <1>4, <1>8
    <2>2. CASE Rows(raw, SpecialConversions) = {}
      BY <2>1, <2>2 DEF Specially
    <2>3. CASE Rows(raw, SpecialConversions) # {}
      <3>1. PICK i \in Rows(raw, SpecialConversions) :
                s = [Convert(raw, SpecialConversions[i]) EXCEPT !.special = i]
        BY <2>1, <2>3 DEF Specially
      <3>2. i # 0
        BY <3>1 DEF Rows
      <3>3. s.special = i
        BY <3>1, <1>6, <1>7
      <3>4. QED
        BY <3>2, <3>3, <1>5
    <2>4. QED
      BY <2>2, <2>3
  <1>10. QED
    BY <1>1, <1>5, <1>9

\* The labels of a member are those of its array and more.
LEMMA IdentifyKeeps ==
    ASSUME NEW C, NEW labels, NEW path,
           C \subseteq labels, \A pair \in C : pair[1] \notin WalkLabels
    PROVE  C \subseteq Identify(labels, path)
PROOF
  <1> DEFINE named  == IF Told(path, "name")
                       THEN With(labels, "member_idx", doc[Append(path, "name")]) ELSE labels
             stated == IF Told(path, "stateStr")
                       THEN With(named, "member_state", doc[Append(path, "stateStr")]) ELSE named
  <1>1. \A pair \in C : pair[1] # "member_idx" /\ pair[1] # "member_state"
    BY DEF WalkLabels
  <1>2. C \subseteq named
    BY <1>1, WithKeeps
  <1>3. C \subseteq stated
    BY <1>1, <1>2, WithKeeps
  <1>4. C \subseteq With(stated, "member_idx", doc[Append(path, "host")])
    BY <1>1, <1>3, WithKeeps
  <1>5. QED
    BY <1>3, <1>4 DEF Identify

-----------------------------------------------------------------------------
(***************************************************************************)
(* The steps, for the labels of the caller.                                *)
(***************************************************************************)

\* A step that puts frames with the labels of the caller in place of the top, and makes no
\* metric without them, keeps the invariant.
LEMMA StepKeeps ==
    ASSUME LabelsInv, stack # <<>>, UNCHANGED call,
           NEW U, \A frame \in U : call.labels \subseteq frame.labels,
           NEW new \in Seq(U), stack' = new \o Tail(stack),
           CallerLabelsKept'
    PROVE  LabelsInv'
PROOF
  <1>1. PICK S : stack \in Seq(S) /\ \A frame \in S : call.labels \subseteq frame.labels
    BY DEF LabelsInv
  <1>2. Tail(stack) \in Seq(S)
    BY <1>1, HeadTailProperties
  <1>3. new \in Seq(U \cup S) /\ Tail(stack) \in Seq(U \cup S)
    BY <1>2, SeqMonotonic
  <1>4. stack' \in Seq(U \cup S)
    BY <1>3, ConcatProperties
  <1>5. \A frame \in U \cup S : call.labels \subseteq frame.labels
    BY <1>1
  <1>6. QED
    BY <1>4, <1>5 DEF LabelsInv

\* The metrics of one value, made under labels that have the caller's, keep the property.
LEMMA ValueKeeps ==
    ASSUME CallerLabelsKept, UNCHANGED call,
           NEW of, NEW prefix, NEW name, NEW labels, call.labels \subseteq labels,
           metrics' = metrics \cup AppendMetricValue(of, prefix, name, labels)
    PROVE  CallerLabelsKept'
  BY ValueKeepsLabels DEF CallerLabelsKept, Extra

\* The top is a frame, and the labels it gives below have the caller's.
LEMMA TopLabels ==
    ASSUME LabelsInv, stack # <<>>
    PROVE  /\ call.labels \subseteq Top.labels
           /\ \A k : call.labels \subseteq LabelsAt(k)
PROOF
  <1>1. PICK S : stack \in Seq(S) /\ \A frame \in S : call.labels \subseteq frame.labels
    BY DEF LabelsInv
  <1>2. call.labels \subseteq Top.labels
    BY <1>1, HeadTailProperties DEF Top
  <1>3. ASSUME NEW k PROVE call.labels \subseteq LabelsAt(k)
    <2>1. Keyed => \A pair \in call.labels : pair[1] # KeyNodesToLabels[Top.prefix]
      BY KeyNodeLabel DEF LabelsInv, Keyed
    <2>2. QED
      BY <1>2, <2>1, WithKeeps DEF LabelsAt
  <1>4. QED
    BY <1>2, <1>3

\* A key taken from the top leaves a frame with the same labels, under what it leads to.
LEMMA TakeKeeps ==
    ASSUME LabelsInv, stack # <<>>, NEW k, NEW below, Take(k, below), UNCHANGED call,
           NEW U, \A frame \in U : call.labels \subseteq frame.labels, below \in Seq(U),
           CallerLabelsKept'
    PROVE  LabelsInv'
PROOF
  <1> DEFINE rest == [Top EXCEPT !.left = @ \ {k}]
             V == U \cup {rest}
  <1>1. rest.labels = Top.labels
    OBVIOUS
  <1>2. \A frame \in V : call.labels \subseteq frame.labels
    BY <1>1, TopLabels
  <1>3. below \in Seq(V) /\ <<rest>> \in Seq(V)
    BY SeqMonotonic
  <1>4. below \o <<rest>> \in Seq(V)
    BY <1>3, ConcatProperties
  <1>5. stack' = (below \o <<rest>>) \o Tail(stack)
    BY DEF Take
  <1> HIDE DEF rest, V
  <1>6. QED
    BY <1>2, <1>4, <1>5, StepKeeps

\* A key that leads to nothing below.
LEMMA LeafKeeps ==
    ASSUME LabelsInv, stack # <<>>, NEW k, Take(k, <<>>), UNCHANGED call, CallerLabelsKept'
    PROVE  LabelsInv'
PROOF
  <1> DEFINE none == <<>>
             U == {}
  <1>1. none \in Seq(U) /\ \A frame \in U : call.labels \subseteq frame.labels
    OBVIOUS
  <1>2. Take(k, none)
    OBVIOUS
  <1> HIDE DEF none, U
  <1>3. QED
    BY <1>1, <1>2, TakeKeeps

\* Every step of the walk keeps the invariant.
LEMMA NextKeeps == LabelsInv /\ [Next]_vars => LabelsInv'
PROOF
  <1> SUFFICES ASSUME LabelsInv, [Next]_vars PROVE LabelsInv'
    OBVIOUS
  <1>1. CASE Read
    <2> DEFINE frame == [Frame(<<>>, call.prefix, call.labels) EXCEPT !.left = KeysIn(doc', <<>>)]
    <2>1. frame.labels = call.labels
      BY DEF Frame
    <2>2. stack' = <<frame>> /\ UNCHANGED <<call, metrics>>
      BY <1>1 DEF Read, Given
    <2> HIDE DEF frame
    <2>3. stack' \in Seq({frame}) /\ \A f \in {frame} : call.labels \subseteq f.labels
      BY <2>1, <2>2
    <2>4. CallerLabelsKept'
      BY <2>2 DEF LabelsInv, CallerLabelsKept, Extra
    <2>5. QED
      BY <2>2, <2>3, <2>4 DEF LabelsInv
  <1>2. CASE NextMember
    <2> DEFINE i == First(Top.left)
               labels == Identify(Top.labels, Path(i))
               list == [Top EXCEPT !.left = @ \ {i}, !.labels = labels]
               skipped == [list EXCEPT !.labels = Top.labels]
               member == Frame(Path(i), Top.prefix, labels)
               new == IF IsMap(Path(i)) THEN <<member, list>> ELSE <<skipped>>
               U == {f \in {member, list, skipped} : call.labels \subseteq f.labels}
    <2>1. stack # <<>> /\ UNCHANGED <<call, metrics>>
      BY <1>2 DEF NextMember, InList, Given
    <2>2. stack' = new \o Tail(stack)
      BY <1>2 DEF NextMember
    <2>3. call.labels \subseteq Top.labels /\ call.labels \subseteq labels
      BY <2>1, TopLabels, IdentifyKeeps DEF LabelsInv
    <2>4. member.labels = labels
      BY DEF Frame
    <2>5. /\ call.labels \subseteq member.labels
          /\ list.labels = Top.labels \/ list.labels = labels
          /\ skipped.labels = Top.labels \/ skipped.labels = list.labels
      BY <2>3, <2>4
    <2>6. \A f \in {member, list, skipped} : call.labels \subseteq f.labels
      BY <2>3, <2>5
    <2> HIDE DEF member, list, skipped
    <2>7. new \in Seq({member, list, skipped})
      <3>1. <<member, list>> \in Seq({member, list, skipped})
        OBVIOUS
      <3>2. <<skipped>> \in Seq({member, list, skipped})
        OBVIOUS
      <3>3. QED
        BY <3>1, <3>2
    <2> HIDE DEF new
    <2>8. CallerLabelsKept'
      BY <2>1 DEF LabelsInv, CallerLabelsKept, Extra
    <2>9. QED
      BY <2>1, <2>2, <2>6, <2>7, <2>8, StepKeeps
  <1>3. CASE Return
    <2>1. stack # <<>> /\ stack' = Tail(stack) /\ UNCHANGED <<call, metrics>>
      BY <1>3 DEF Return, Given
    <2>2. PICK S : stack \in Seq(S) /\ \A frame \in S : call.labels \subseteq frame.labels
      BY DEF LabelsInv
    <2>3. stack' \in Seq(S)
      BY <2>1, <2>2, HeadTailProperties
    <2>4. QED
      BY <2>1, <2>2, <2>3 DEF LabelsInv, CallerLabelsKept, Extra
  <1>4. CASE Walked
    BY <1>4 DEF Walked, Given, LabelsInv, CallerLabelsKept, Extra
  <1>5. CASE Locks
    <2>1. UNCHANGED <<call, stack>> /\ \A m \in metrics' : m \in metrics \/ m \in Extra
      BY <1>5 DEF Locks, Given, Extra
    <2>2. CallerLabelsKept'
      BY <2>1 DEF LabelsInv, CallerLabelsKept, Extra
    <2>3. QED
      BY <2>1, <2>2 DEF LabelsInv
  <1>6. CASE Sums
    <2>1. UNCHANGED <<call, stack>> /\ \A m \in metrics' : m \in metrics \/ m \in Extra
      BY <1>6 DEF Sums, Given, Extra
    <2>2. CallerLabelsKept'
      BY <2>1 DEF LabelsInv, CallerLabelsKept, Extra
    <2>3. QED
      BY <2>1, <2>2 DEF LabelsInv
  <1>7. ASSUME NEW k \in Top.left, SkipHistogram(k) PROVE LabelsInv'
    <2>1. stack # <<>> /\ Take(k, <<>>) /\ UNCHANGED <<call, metrics>>
      BY <1>7 DEF SkipHistogram, InMap, Take, Given
    <2>2. CallerLabelsKept'
      BY <2>1 DEF LabelsInv, CallerLabelsKept, Extra
    <2>3. QED
      BY <2>1, <2>2, LeafKeeps
  <1>8. ASSUME NEW k \in Top.left, ServeValue(k) PROVE LabelsInv'
    <2>1. stack # <<>> /\ Take(k, <<>>) /\ UNCHANGED call
      BY <1>8 DEF ServeValue, InMap, Take, Given
    <2>2. CallerLabelsKept'
      <3>1. metrics' = metrics \cup AppendMetricValue(Path(k), Top.prefix, k, LabelsAt(k))
        BY <1>8 DEF ServeValue
      <3>2. call.labels \subseteq LabelsAt(k)
        BY <2>1, TopLabels
      <3>3. QED
        BY <2>1, <3>1, <3>2, ValueKeeps DEF LabelsInv
    <2>3. QED
      BY <2>1, <2>2, LeafKeeps
  <1>9. ASSUME NEW k \in Top.left, ServeBuckets(k) PROVE LabelsInv'
    <2>1. stack # <<>> /\ Take(k, <<>>) /\ UNCHANGED call
      BY <1>9 DEF ServeBuckets, InMap, Take, Given
    <2>2. CallerLabelsKept'
      <3>1. metrics' = metrics \cup ProcessHistogramSlice(Path(k), PrefixAt(k), LabelsAt(k))
        BY <1>9 DEF ServeBuckets
      <3>2. call.labels \subseteq LabelsAt(k)
        BY <2>1, TopLabels
      <3>3. \A pair \in call.labels : pair[1] # "lower_bound"
        BY DEF LabelsInv, WalkLabels
      <3>4. ASSUME NEW m \in ProcessHistogramSlice(Path(k), PrefixAt(k), LabelsAt(k)),
                   Valid(m), m.special = 0, m.v1 = 0
            PROVE  call.labels \subseteq m.labels
        <4> DEFINE labels(i) == With(LabelsAt(k), "lower_bound", doc[Bucket(Path(k), i, "lowerBound")])
        <4>1. PICK i \in Keys(Path(k)) :
                  m \in AppendMetricValue(Bucket(Path(k), i, "count"), PrefixAt(k), "count", labels(i))
          BY <3>4 DEF ProcessHistogramSlice
        <4>2. call.labels \subseteq labels(i)
          BY <3>2, <3>3, WithKeeps
        <4> HIDE DEF labels
        <4>3. labels(i) \subseteq m.labels
          BY <3>4, <4>1, ValueKeepsLabels
        <4>4. QED
          BY <4>2, <4>3
      <3>5. QED
        BY <2>1, <3>1, <3>4 DEF LabelsInv, CallerLabelsKept, Extra
    <2>3. QED
      BY <2>1, <2>2, LeafKeeps
  <1>10. ASSUME NEW k \in Top.left, Descend(k) PROVE LabelsInv'
    <2> DEFINE frame == Frame(Path(k), PrefixAt(k), LabelsAt(k))
    <2>1. stack # <<>> /\ Take(k, <<frame>>) /\ UNCHANGED <<call, metrics>>
      BY <1>10 DEF Descend, InMap, Take, Given
    <2>2. CallerLabelsKept'
      BY <2>1 DEF LabelsInv, CallerLabelsKept, Extra
    <2>3. frame.labels = LabelsAt(k)
      BY DEF Frame
    <2> HIDE DEF frame
    <2> DEFINE below == <<frame>>
               U == {frame}
    <2>4. below \in Seq(U) /\ \A f \in U : call.labels \subseteq f.labels
      BY <2>1, <2>3, TopLabels
    <2>5. Take(k, below)
      BY <2>1
    <2> HIDE DEF below, U
    <2>6. QED
      BY <2>1, <2>2, <2>4, <2>5, TakeKeeps
  <1>11. CASE UNCHANGED vars
    BY <1>11 DEF vars, LabelsInv, CallerLabelsKept, Extra
  <1>12. QED
    BY <1>1, <1>2, <1>3, <1>4, <1>5, <1>6, <1>7, <1>8, <1>9, <1>10, <1>11 DEF Next, Ended

\* Whatever the document and the order of the walk, the labels of the caller are on every metric
\* but those that a row of a table gives labels of its own, the locks and the sums.
THEOREM CallerLabelsCorrect == Spec => []CallerLabelsKept
PROOF
  <1>1. Init => LabelsInv
    <2>1. Init => stack = <<>> /\ metrics = {} /\ \A pair \in call.labels : pair[1] \notin WalkLabels
      BY MetricTreeAssumption DEF Init
    <2>2. <<>> \in Seq({})
      OBVIOUS
    <2>3. QED
      BY <2>1, <2>2 DEF LabelsInv, CallerLabelsKept
  <1>2. LabelsInv => CallerLabelsKept
    BY DEF LabelsInv
  <1>3. QED
    BY <1>1, <1>2, NextKeeps, PTL DEF Spec

-----------------------------------------------------------------------------
(***************************************************************************)
(* The document walked.                                                    *)
(***************************************************************************)

\* What a call is given.
FixedInv ==
    /\ call.prefix \in Seq(Key)
    /\ \A p, q \in call.labels : p[1] = q[1] => p = q
    /\ \A p \in call.labels : p[1] \notin WalkLabels \cup RowLabels
    /\ IsDocument(answer)
    /\ Split(answer) => \A q \in DOMAIN answer : Len(q) > 1 => q[2] \notin Positions

\* The document walked is the answer, or made of its blocks.
DocInv ==
    /\ FixedInv
    /\ phase \in Phases
    /\ phase = "read" => doc = answer /\ stack = <<>> /\ metrics = {}
    /\ phase # "read" => doc \in IF IsSplit THEN Merged(answer) ELSE {answer}
    /\ DiesOfNoNumber

\* The document m is made of the blocks of d, the key k of the block f[k].
FromBlocks(m, d, f) ==
    /\ \A q \in DOMAIN d : Len(q) > 1 => q[2] \in KeysIn(d, <<f[q[2]]>>)
    /\ DOMAIN m = {Tail(q) : q \in {q \in DOMAIN d : Len(q) > 1 /\ f[q[2]] = q[1]}}
    /\ \A q \in DOMAIN d : Len(q) > 1 /\ f[q[2]] = q[1] => m[Tail(q)] = d[q]

\* What the blocks make together: each key is of one block.
LEMMA MergedIs ==
    ASSUME NEW d, IsDocument(d), NEW m \in Merged(d)
    PROVE  \E f : FromBlocks(m, d, f)
<1> DEFINE inner == {q \in DOMAIN d : Len(q) > 1}
           keys  == {q[2] : q \in inner}
<1>1. PICK f \in [keys -> Blocks(d)] :
          /\ \A k \in keys : k \in KeysIn(d, <<f[k]>>)
          /\ m = [path \in {Tail(q) : q \in {q \in inner : f[q[2]] = q[1]}} |-> d[<<f[path[1]]>> \o path]]
  BY DEF Merged
<1>2. DOMAIN m = {Tail(q) : q \in {q \in DOMAIN d : Len(q) > 1 /\ f[q[2]] = q[1]}}
  BY <1>1
<1>3. ASSUME NEW q \in DOMAIN d, Len(q) > 1, f[q[2]] = q[1] PROVE m[Tail(q)] = d[q]
  <2>1. q \in Seq(Key) /\ q # <<>>
    BY DEF IsDocument
  <2>2. Tail(q) \in DOMAIN m
    BY <1>2, <1>3
  <2>3. Tail(q)[1] = q[2] /\ q = <<q[1]>> \o Tail(q)
    BY <1>3, <2>1
  <2>4. QED BY <1>1, <1>3, <2>2, <2>3
<1>4. QED BY <1>1, <1>2, <1>3 DEF FromBlocks

\* What is walked over comes from the answer.
LEMMA WalkedFrom ==
    ASSUME DocInv, NEW p \in DOMAIN doc, phase # "read"
    PROVE  \E q \in DOMAIN answer : WalkedPath(q) = p /\ answer[q] = doc[p]
<1>1. CASE ~IsSplit
  BY <1>1 DEF DocInv, WalkedPath
<1>2. CASE IsSplit
  <2>1. doc \in Merged(answer) /\ IsDocument(answer)
    BY <1>2 DEF DocInv, FixedInv
  <2>2. PICK f : FromBlocks(doc, answer, f)
    BY <2>1, MergedIs
  <2>3. PICK q \in DOMAIN answer : Len(q) > 1 /\ f[q[2]] = q[1] /\ p = Tail(q)
    BY <2>2 DEF FromBlocks
  <2>4. QED BY <1>2, <2>2, <2>3 DEF WalkedPath, FromBlocks
<1>3. QED BY <1>1, <1>2

\* The paths of a document are sequences of keys.
LEMMA DocPaths ==
    ASSUME IsDocument(doc)
    PROVE  \A p \in DOMAIN doc : p \in Seq(Key) /\ p # <<>>
BY DEF IsDocument

\* A map or an array of a block has the keys it has in the document made of the blocks.
LEMMA KeysMerged ==
    ASSUME NEW d, IsDocument(d), NEW m, NEW f, FromBlocks(m, d, f),
           NEW path \in Seq(Key), Len(path) > 1, f[path[2]] = path[1]
    PROVE  KeysIn(m, Tail(path)) = KeysIn(d, path)
<1>0. PICK rest : rest = Tail(path)
  OBVIOUS
<1>1. rest \in Seq(Key) /\ rest # <<>> /\ path # <<>> /\ Len(path) = Len(rest) + 1 /\ rest[1] = path[2]
  <2>1. path # <<>>
    OBVIOUS
  <2>2. rest \in Seq(Key) /\ Len(rest) = Len(path) - 1 /\ \A i \in 1..Len(rest) : rest[i] = path[i + 1]
    BY <1>0, <2>1, HeadTailProperties
  <2>3. Len(path) \in Nat /\ 1 \in 1..Len(rest) /\ 1 + 1 = 2
    BY <2>2
  <2>4. rest[1] = path[2]
    BY <2>2, <2>3
  <2>5. rest # <<>>
    BY <2>3
  <2>6. QED BY <2>1, <2>2, <2>3, <2>4, <2>5
<1>2. ASSUME NEW k \in KeysIn(m, rest) PROVE k \in KeysIn(d, path)
  <2>1. PICK r \in DOMAIN m : IsStrictPrefix(rest, r) /\ k = r[Len(rest) + 1]
    BY DEF KeysIn
  <2>2. PICK q \in DOMAIN d : Len(q) > 1 /\ f[q[2]] = q[1] /\ r = Tail(q)
    BY <2>1 DEF FromBlocks
  <2>3. q \in Seq(Key) /\ q # <<>> /\ r \in Seq(Key) /\ r[1] = q[2] /\ Len(q) = Len(r) + 1
        /\ \A i \in 1..Len(r) : r[i] = q[i + 1]
    BY <2>2 DEF IsDocument
  <2>4. Len(rest) < Len(r) /\ r[1] = rest[1]
    <3>1. IsPrefix(rest, r)
      BY <2>1 DEF IsStrictPrefix
    <3>2. 1 \in 1..Len(rest)
      BY <1>1
    <3>3. rest[1] = r[1]
      BY <1>1, <2>3, <3>1, <3>2, PrefixGives
    <3>4. QED BY <1>1, <2>1, <2>3, <3>3, StrictStep
  <2>5. q[1] = path[1]
    BY <1>1, <2>2, <2>3, <2>4
  <2>6. IsStrictPrefix(path, q)
    BY <1>0, <1>1, <2>1, <2>2, <2>3, <2>5, TailStrict
  <2>7. k = q[Len(path) + 1]
    <3>1. Len(rest) + 1 \in 1..Len(r)
      BY <1>1, <2>3, <2>4
    <3>2. QED BY <1>1, <2>1, <2>3, <3>1
  <2>8. QED BY <2>6, <2>7 DEF KeysIn
<1>3. ASSUME NEW k \in KeysIn(d, path) PROVE k \in KeysIn(m, rest)
  <2>1. PICK q \in DOMAIN d : IsStrictPrefix(path, q) /\ k = q[Len(path) + 1]
    BY DEF KeysIn
  <2>2. q \in Seq(Key) /\ q # <<>>
    BY DEF IsDocument
  <2>3. IsPrefix(path, q)
    BY <2>1 DEF IsStrictPrefix
  <2>4. Len(path) < Len(q) /\ q[1] = path[1] /\ q[2] = path[2]
    <3>1. 1 \in 1..Len(path) /\ 2 \in 1..Len(path)
      BY <1>1
    <3>2. q[1] = path[1] /\ q[2] = path[2]
      BY <2>2, <2>3, <3>1, PrefixGives
    <3>3. QED BY <2>1, <2>2, <3>2, StrictStep
  <2>5. PICK r : r = Tail(q)
    OBVIOUS
  <2>6. Len(q) > 1 /\ r \in DOMAIN m
    BY <1>1, <2>4, <2>5, <2>2 DEF FromBlocks
  <2>7. r \in Seq(Key) /\ Len(q) = Len(r) + 1 /\ \A i \in 1..Len(r) : r[i] = q[i + 1]
    BY <2>2, <2>5, HeadTailProperties
  <2>8. IsStrictPrefix(rest, r)
    BY <1>0, <1>1, <2>1, <2>2, <2>5, TailStrict
  <2>9. k = r[Len(rest) + 1]
    <3>1. Len(rest) + 1 \in 1..Len(r)
      BY <1>1, <2>2, <2>4, <2>7
    <3>2. QED BY <1>1, <2>1, <2>7, <3>1
  <2>10. QED BY <2>6, <2>8, <2>9 DEF KeysIn
<1>4. QED BY <1>0, <1>2, <1>3

\* The maps of all blocks in one are a document.
LEMMA MergedDocument ==
    ASSUME NEW d, IsDocument(d), NEW m \in Merged(d),
           \A q \in DOMAIN d : Len(q) > 1 => q[2] \notin Positions
    PROVE  IsDocument(m)
<1>1. PICK f : FromBlocks(m, d, f)
  BY MergedIs
<1>2. ASSUME NEW p \in DOMAIN m
      PROVE  \E q \in DOMAIN d :
                /\ q \in Seq(Key) /\ Len(q) > 1 /\ f[q[2]] = q[1] /\ p = Tail(q)
                /\ p \in Seq(Key) /\ p # <<>> /\ p[1] = q[2] /\ Len(q) = Len(p) + 1
                /\ \A i \in 1..Len(p) : p[i] = q[i + 1]
  <2>1. PICK q \in DOMAIN d : Len(q) > 1 /\ f[q[2]] = q[1] /\ p = Tail(q)
    BY <1>1 DEF FromBlocks
  <2>2. q \in Seq(Key) /\ q # <<>>
    BY DEF IsDocument
  <2>3. p \in Seq(Key) /\ Len(q) = Len(p) + 1 /\ \A i \in 1..Len(p) : p[i] = q[i + 1]
    BY <2>1, <2>2, HeadTailProperties
  <2>4. p # <<>> /\ p[1] = q[2]
    <3>1. Len(q) \in Nat /\ 1 \in 1..Len(p) /\ 1 + 1 = 2
      BY <2>1, <2>2, <2>3
    <3>2. p[1] = q[2]
      BY <2>3, <3>1
    <3>3. QED BY <3>1, <3>2
  <2>5. QED BY <2>1, <2>2, <2>3, <2>4
<1>3. DOMAIN m \subseteq Seq(Key) \ {<<>>}
  BY <1>2
<1>4. \A p \in DOMAIN m : p[1] \notin Positions
  BY <1>2
<1>5. ASSUME NEW p \in DOMAIN m, NEW r \in DOMAIN m, IsStrictPrefix(p, r) PROVE FALSE
  <2>1. PICK q \in DOMAIN d :
            /\ q \in Seq(Key) /\ Len(q) > 1 /\ f[q[2]] = q[1] /\ p = Tail(q)
            /\ p \in Seq(Key) /\ p # <<>> /\ p[1] = q[2]
    BY <1>2
  <2>2. PICK s \in DOMAIN d :
            /\ s \in Seq(Key) /\ Len(s) > 1 /\ f[s[2]] = s[1] /\ r = Tail(s)
            /\ r \in Seq(Key) /\ r # <<>> /\ r[1] = s[2]
    BY <1>2
  <2>3. p[1] = r[1]
    <3>1. 1 \in 1..Len(p)
      BY <2>1
    <3>2. IsPrefix(p, r)
      BY <1>5 DEF IsStrictPrefix
    <3>3. p \in Seq(Key) /\ r \in Seq(Key)
      BY <2>1, <2>2
    <3>4. \A i \in 1..Len(p) : p[i] = r[i]
      BY <3>2, <3>3, PrefixGives
    <3>5. QED BY <3>1, <3>4
  <2>4. q[1] = s[1] /\ q # <<>> /\ s # <<>>
    BY <2>1, <2>2, <2>3
  <2>5. IsStrictPrefix(q, s)
    BY <1>5, <2>1, <2>2, <2>4, TailStrict
  <2>6. QED BY <2>5 DEF IsDocument
<1>6. ASSUME NEW p \in DOMAIN m, NEW i \in 1..(Len(p) - 1)
      PROVE  LET path == SubSeq(p, 1, i)
                 keys == KeysIn(m, path)
             IN /\ keys \subseteq Positions \/ keys \cap Positions = {}
                /\ p[i] \in Positions /\ {"lowerBound", "count"} \subseteq keys =>
                      keys = {"lowerBound", "count"} /\ \A key \in keys : Append(path, key) \in DOMAIN m
  <2>1. PICK q \in DOMAIN d :
            /\ q \in Seq(Key) /\ Len(q) > 1 /\ f[q[2]] = q[1] /\ p = Tail(q)
            /\ p \in Seq(Key) /\ p # <<>> /\ p[1] = q[2] /\ Len(q) = Len(p) + 1
            /\ \A j \in 1..Len(p) : p[j] = q[j + 1]
    BY <1>2
  <2>2. i + 1 \in 1..(Len(q) - 1) /\ p[i] = q[i + 1]
    BY <2>1
  <2>3. PICK full : full = SubSeq(q, 1, i + 1)
    OBVIOUS
  <2>4. /\ full \in Seq(Key) /\ Len(full) = i + 1
        /\ \A j \in 1..(i + 1) : full[j] = q[j]
    BY <2>1, <2>2, <2>3
  <2>5. PICK path : path = SubSeq(p, 1, i)
    OBVIOUS
  <2>6. path = Tail(full)
    <3>1. path \in Seq(Key) /\ Len(path) = i /\ \A j \in 1..i : path[j] = p[j]
      BY <2>1, <2>5
    <3>2. Tail(full) \in Seq(Key) /\ Len(Tail(full)) = i /\ \A j \in 1..i : Tail(full)[j] = full[j + 1]
      BY <2>4
    <3>3. \A j \in 1..i : path[j] = Tail(full)[j]
      <4>1. ASSUME NEW j \in 1..i PROVE path[j] = Tail(full)[j]
        <5>1. j + 1 \in 1..(i + 1) /\ j \in 1..Len(p)
          BY <2>1
        <5>2. QED BY <2>1, <2>4, <3>1, <3>2, <5>1
      <4>2. QED BY <4>1
    <3>4. QED BY <3>1, <3>2, <3>3, SeqEqual
  <2>7. KeysIn(m, path) = KeysIn(d, full)
    <3>1. Len(full) > 1 /\ f[full[2]] = full[1]
      BY <2>1, <2>4
    <3>2. QED BY <1>1, <2>4, <2>6, <3>1, KeysMerged
  <2>8. PICK keys : keys = KeysIn(d, full)
    OBVIOUS
  <2>9. /\ keys \subseteq Positions \/ keys \cap Positions = {}
        /\ q[i + 1] \in Positions /\ {"lowerBound", "count"} \subseteq keys =>
              keys = {"lowerBound", "count"} /\ \A key \in keys : Append(full, key) \in DOMAIN d
    BY <2>2, <2>3, <2>8 DEF IsDocument
  <2>10. ASSUME NEW key \in keys, Append(full, key) \in DOMAIN d PROVE Append(path, key) \in DOMAIN m
    <3>1. PICK s : s = Append(full, key)
      OBVIOUS
    <3>2. s \in Seq(Key) /\ key \in Key
      <4>1. PICK r \in DOMAIN d : IsStrictPrefix(full, r) /\ key = r[Len(full) + 1]
        BY <2>8 DEF KeysIn
      <4>2. key \in Key
        BY <2>4, <4>1, StrictStep DEF IsDocument
      <4>3. QED BY <2>4, <3>1, <4>2
    <3>3. /\ Len(s) = i + 2 /\ \A j \in 1..(i + 1) : s[j] = full[j]
      BY <2>4, <3>1, <3>2, AppendProperties
    <3>4. s[1] = q[1] /\ s[2] = q[2]
      BY <2>4, <3>3
    <3>5. Tail(s) \in DOMAIN m
      <4>1. s \in DOMAIN d /\ Len(s) > 1 /\ f[s[2]] = s[1]
        BY <2>1, <2>10, <3>1, <3>3, <3>4
      <4>2. QED BY <1>1, <4>1 DEF FromBlocks
    <3>6. Tail(s) = Append(path, key)
      <4>1. full # <<>>
        BY <2>4
      <4>2. QED BY <2>4, <2>6, <3>1, <4>1, HeadTailAppend
    <3>7. QED BY <3>5, <3>6
  <2>11. QED BY <2>2, <2>5, <2>7, <2>8, <2>9, <2>10
<1>7. QED BY <1>3, <1>4, <1>5, <1>6 DEF IsDocument

\* What is walked over is a document.
LEMMA DocIsDocument ==
    ASSUME DocInv
    PROVE  IsDocument(doc)
<1>1. CASE phase = "read" \/ ~IsSplit
  BY <1>1 DEF DocInv, FixedInv
<1>2. CASE phase # "read" /\ IsSplit
  <2>1. IsDocument(answer) /\ doc \in Merged(answer) /\ \A q \in DOMAIN answer : Len(q) > 1 => q[2] \notin Positions
    BY <1>2 DEF DocInv, FixedInv, IsSplit
  <2>2. QED BY <2>1, MergedDocument
<1>3. QED BY <1>1, <1>2

\* The sum that crashes reads a text, or a value that has others below it.
LEMMA CrashOfNoNumber ==
    ASSUME DocInv, phase # "read", NEW sum \in {GlobalLockWaits, CacheEvicted}, SumCrashes(sum)
    PROVE  \E q \in DOMAIN answer : \E i \in 1..2 :
              /\ IsPrefix(sum.paths[i], WalkedPath(q))
              /\ answer[q] \in Texts \/ WalkedPath(q) # sum.paths[i]
<1>1. PICK i \in 1..2 : NoNumber(sum.paths[i])
  BY DEF SumCrashes
<1>2. PICK path : path = sum.paths[i]
  OBVIOUS
<1>3. \E p \in DOMAIN doc : IsPrefix(path, p) /\ (doc[p] \in Texts \/ p # path)
  <2>1. CASE IsList(path)
    <3>1. PICK p \in DOMAIN doc : IsStrictPrefix(path, p)
      BY <2>1 DEF IsList, Keys, KeysIn
    <3>2. QED BY <3>1 DEF IsStrictPrefix
  <2>2. CASE IsLeaf(path) /\ doc[path] \in Texts
    <3>1. path \in DOMAIN doc /\ path \in Seq(Key)
      BY <2>2, DocIsDocument, DocPaths DEF IsLeaf
    <3>2. IsPrefix(path, path)
      BY <3>1, PrefixReflexive
    <3>3. QED BY <2>2, <3>1, <3>2
  <2>3. QED BY <1>1, <1>2, <2>1, <2>2 DEF NoNumber
<1>4. PICK p \in DOMAIN doc : IsPrefix(path, p) /\ (doc[p] \in Texts \/ p # path)
  BY <1>3
<1>5. PICK q \in DOMAIN answer : WalkedPath(q) = p /\ answer[q] = doc[p]
  BY WalkedFrom
<1>6. QED BY <1>1, <1>2, <1>4, <1>5

\* Only reading the answer makes the document.
LEMMA DocKept ==
    ASSUME Next \/ UNCHANGED vars
    PROVE  /\ UNCHANGED <<call, answer>>
           /\ Read \/ UNCHANGED doc
           /\ phase' # phase => Read \/ Walked \/ Locks \/ Sums
<1>1. CASE \E k \in IF stack = <<>> THEN {} ELSE Top.left :
              SkipHistogram(k) \/ ServeValue(k) \/ ServeBuckets(k) \/ Descend(k)
  BY <1>1 DEF SkipHistogram, ServeValue, ServeBuckets, Descend, Take, Given
<1>2. CASE Read \/ NextMember \/ Return \/ Walked \/ Locks \/ Sums \/ Ended \/ UNCHANGED vars
  BY <1>2 DEF Read, NextMember, Return, Walked, Locks, Sums, Ended, vars, Given
<1>3. QED BY <1>1, <1>2 DEF Next

\* Every step keeps the document what the answer makes it.
LEMMA DocStep == DocInv /\ [Next]_vars => DocInv'
<1> SUFFICES ASSUME DocInv, Next \/ UNCHANGED vars PROVE DocInv'
  OBVIOUS
<1>1. /\ UNCHANGED <<call, answer>>
      /\ Read \/ UNCHANGED doc
      /\ phase' # phase => Read \/ Walked \/ Locks \/ Sums
  BY DocKept
<1>2. FixedInv' /\ (IsSplit' <=> IsSplit) /\ Merged(answer)' = Merged(answer)
  BY <1>1 DEF DocInv, FixedInv, IsSplit
<1>3. CASE Read
  BY <1>2, <1>3 DEF DocInv, Read, Given, Phases, IsSplit, DiesOfNoNumber
<1>4. CASE ~Read
  <2>1. phase' \in Phases /\ (phase' = "read" => phase = "read")
    BY <1>1, <1>4 DEF DocInv, Walked, Locks, Sums, Phases
  <2>2. UNCHANGED doc
    BY <1>1, <1>4
  <2>3. phase' = "read" => UNCHANGED vars
    <3> SUFFICES ASSUME phase' = "read" PROVE UNCHANGED vars
      OBVIOUS
    <3>1. phase = "read"
      BY <2>1
    <3>2. stack = <<>>
      BY <3>1 DEF DocInv
    <3>3. QED BY <1>4, <3>1, <3>2 DEF Next, NextMember, Return, Walked, Locks, Sums, Ended, InList
  <2>4. phase' = "read" => doc' = answer' /\ stack' = <<>> /\ metrics' = {}
    BY <2>1, <2>3 DEF DocInv, vars
  <2>5. phase' # "read" => phase # "read"
    BY <1>1, <1>4 DEF Walked, Locks, Sums
  <2>6. DiesOfNoNumber'
    <3> SUFFICES ASSUME phase' = "crashed"
                 PROVE  \E q \in DOMAIN answer : \E sum \in {GlobalLockWaits, CacheEvicted} : \E i \in 1..2 :
                            /\ IsPrefix(sum.paths[i], WalkedPath(q))
                            /\ answer[q] \in Texts \/ WalkedPath(q) # sum.paths[i]
      BY <1>1 DEF DiesOfNoNumber, WalkedPath, IsSplit
    <3>1. CASE phase = "crashed"
      BY <3>1 DEF DocInv, DiesOfNoNumber
    <3>2. CASE phase # "crashed"
      <4>1. Sums
        BY <1>1, <1>4, <3>2 DEF Walked, Locks
      <4>2. PICK sum \in {GlobalLockWaits, CacheEvicted} : SumCrashes(sum)
        BY <4>1 DEF Sums
      <4>3. phase # "read"
        BY <2>5
      <4>4. QED BY <4>2, <4>3, CrashOfNoNumber
    <3>3. QED BY <3>1, <3>2
  <2>7. QED BY <1>2, <2>1, <2>2, <2>4, <2>5, <2>6, <1>1 DEF DocInv
<1>5. QED BY <1>3, <1>4

\* It is so at first.
LEMMA InitDoc == Init => DocInv
<1> SUFFICES ASSUME Init PROVE DocInv
  OBVIOUS
<1>1. PICK input \in Inputs : call = input.call /\ answer = input.answer
  BY DEF Init
<1>2. FixedInv
  BY <1>1, MetricTreeAssumption DEF FixedInv
<1>3. QED BY <1>2 DEF Init, DocInv, Phases, DiesOfNoNumber

\* The one panic of the conversions needs a text or an array where MongoDB has a number.
THEOREM DiesOfNoNumberCorrect == Spec => []DiesOfNoNumber
<1>1. DocInv => DiesOfNoNumber
  BY DEF DocInv
<1>2. QED BY <1>1, InitDoc, DocStep, PTL DEF Spec

-----------------------------------------------------------------------------
(***************************************************************************)
(* The labels of the walk.                                                 *)
(***************************************************************************)

\* The labels of the maps whose keys become values are among those the walk gives, and are none
\* of a member's, a bucket's or a row's.
LEMMA PDLabelsAre ==
    /\ {"member_idx", "member_state", "lower_bound"} \cap PDLabels = {} /\ RowLabels \cap PDLabels = {}
    /\ \A path \in DOMAIN NodeToPDMetrics : NodeToPDMetrics[path] \in PDLabels
<1>1. \A row \in PDMetrics : row[2] \notin {"member_idx", "member_state", "lower_bound"} \cup RowLabels
  BY DEF PDMetrics, Under, RowLabels
<1>2. ASSUME NEW path \in DOMAIN NodeToPDMetrics PROVE NodeToPDMetrics[path] \in PDLabels
  <2>1. PICK row \in PDMetrics : row[1] = path
    BY DEF NodeToPDMetrics
  <2>2. PICK chosen : chosen = CHOOSE r \in PDMetrics : r[1] = path
    OBVIOUS
  <2>3. chosen \in PDMetrics
    BY <2>1, <2>2
  <2>4. NodeToPDMetrics[path] = chosen[2]
    BY <2>2 DEF NodeToPDMetrics
  <2>5. QED BY <2>3, <2>4 DEF PDLabels
<1>3. QED BY <1>1, <1>2 DEF PDLabels

\* The prefix is below a key node.
BelowKeyNode(prefix) == \E node \in KeyNodes : IsPrefix(node, prefix)

\* The rows of one map, whose path has one key, two or three.
LEMMA UnderRow ==
    ASSUME NEW S, NEW parent \in Seq(S), parent # <<>>, NEW keys \in SUBSET S, NEW label,
           NEW row \in Under(parent, keys, label)
    PROVE  /\ row[1][1] = parent[1] /\ Len(row[1]) = Len(parent) + 1
           /\ row[1][Len(parent) + 1] \in keys
<1>1. PICK k \in keys : row[1] = Append(parent, k)
  BY DEF Under
<1>2. PICK path : path = row[1]
  OBVIOUS
<1>3. /\ path \in Seq(S) /\ Len(path) = Len(parent) + 1
      /\ \A i \in 1..Len(parent) : path[i] = parent[i]
      /\ path[Len(parent) + 1] = k
  BY <1>1, <1>2, AppendProperties
<1>4. 1 \in 1..Len(parent)
  OBVIOUS
<1>5. QED BY <1>2, <1>3, <1>4

\* The same of one, two and three keys.
LEMMA UnderOne ==
    ASSUME NEW a, NEW keys, NEW label, NEW row \in Under(<<a>>, keys, label)
    PROVE  row[1][1] = a /\ row[1][2] \in keys
<1>0. PICK S : S = {a} \cup keys
  OBVIOUS
<1>1. PICK parent : parent = <<a>>
  OBVIOUS
<1>2. parent \in Seq(S) /\ parent # <<>> /\ parent[1] = a /\ Len(parent) + 1 = 2 /\ keys \in SUBSET S
  BY <1>0, <1>1
<1>3. row \in Under(parent, keys, label)
  BY <1>1
<1>4. row[1][1] = parent[1] /\ row[1][Len(parent) + 1] \in keys
  BY <1>2, <1>3, UnderRow
<1>5. QED BY <1>2, <1>4

LEMMA UnderTwo ==
    ASSUME NEW a, NEW b, NEW keys, NEW label, NEW row \in Under(<<a, b>>, keys, label)
    PROVE  row[1][1] = a /\ row[1][3] \in keys
<1>0. PICK S : S = {a, b} \cup keys
  OBVIOUS
<1>1. PICK parent : parent = <<a, b>>
  OBVIOUS
<1>2. parent \in Seq(S) /\ parent # <<>> /\ parent[1] = a /\ Len(parent) + 1 = 3 /\ keys \in SUBSET S
  BY <1>0, <1>1
<1>3. row \in Under(parent, keys, label)
  BY <1>1
<1>4. row[1][1] = parent[1] /\ row[1][Len(parent) + 1] \in keys
  BY <1>2, <1>3, UnderRow
<1>5. QED BY <1>2, <1>4

LEMMA UnderThree ==
    ASSUME NEW a, NEW b, NEW c, NEW keys, NEW label, NEW row \in Under(<<a, b, c>>, keys, label)
    PROVE  row[1][1] = a /\ row[1][4] \in keys
<1>0. PICK S : S = {a, b, c} \cup keys
  OBVIOUS
<1>1. PICK parent : parent = <<a, b, c>>
  OBVIOUS
<1>2. parent \in Seq(S) /\ parent # <<>> /\ parent[1] = a /\ Len(parent) + 1 = 4 /\ keys \in SUBSET S
  BY <1>0, <1>1
<1>3. row \in Under(parent, keys, label)
  BY <1>1
<1>4. row[1][1] = parent[1] /\ row[1][Len(parent) + 1] \in keys
  BY <1>2, <1>3, UnderRow
<1>5. QED BY <1>2, <1>4

\* A path that is not below a key node.
Elsewhere(path) ==
    \/ path[1] \in {"collStats", "globalLock", "serverStatus", "systemMetrics"}
    \/ path[1] # "storageStats" /\ path[3] = "indexSizes"

\* No map whose keys become values is below a key node.
LEMMA PDElsewhere ==
    ASSUME NEW row \in PDMetrics
    PROVE  Elsewhere(row[1])
<1>1. ASSUME row \in Under(<<"collStats", "storageStats">>, {"indexDetails"}, "index_name") PROVE Elsewhere(row[1])
  BY <1>1, UnderTwo DEF Elsewhere
<1>2. ASSUME row \in Under(<<"globalLock">>, {"activeQueue"}, "count_type") PROVE Elsewhere(row[1])
  BY <1>2, UnderOne DEF Elsewhere
<1>3. ASSUME row \in Under(<<"globalLock">>, {"locks"}, "lock_type") PROVE Elsewhere(row[1])
  BY <1>3, UnderOne DEF Elsewhere
<1>4. ASSUME row \in Under(<<"serverStatus">>, {"asserts"}, "assert_type") PROVE Elsewhere(row[1])
  BY <1>4, UnderOne DEF Elsewhere
<1>5. ASSUME row \in Under(<<"serverStatus">>, {"connections"}, "conn_type") PROVE Elsewhere(row[1])
  BY <1>5, UnderOne DEF Elsewhere
<1>6. ASSUME row \in Under(<<"serverStatus", "globalLock">>, {"currentQueue"}, "count_type") PROVE Elsewhere(row[1])
  BY <1>6, UnderTwo DEF Elsewhere
<1>7. ASSUME row \in Under(<<"serverStatus", "metrics">>, {"commands"}, "cmd_name") PROVE Elsewhere(row[1])
  BY <1>7, UnderTwo DEF Elsewhere
<1>8. ASSUME row \in Under(<<"serverStatus", "metrics", "cursor">>, {"open"}, "csr_type") PROVE Elsewhere(row[1])
  BY <1>8, UnderThree DEF Elsewhere
<1>9. ASSUME row \in Under(<<"serverStatus", "metrics">>, {"document"}, "doc_op_type") PROVE Elsewhere(row[1])
  BY <1>9, UnderTwo DEF Elsewhere
<1>10. ASSUME row \in Under(<<"serverStatus">>, {"opLatencies"}, "op_type") PROVE Elsewhere(row[1])
  BY <1>10, UnderOne DEF Elsewhere
<1>11. ASSUME row \in Under(<<"serverStatus">>, {"opReadConcernCounters"}, "concern_type") PROVE Elsewhere(row[1])
  BY <1>11, UnderOne DEF Elsewhere
<1>12. ASSUME row \in Under(<<"serverStatus">>, {"opcounters", "opcountersRepl"}, "legacy_op_type") PROVE Elsewhere(row[1])
  BY <1>12, UnderOne DEF Elsewhere
<1>13. ASSUME row \in Under(<<"serverStatus", "transactions">>, {"commitTypes"}, "commit_type") PROVE Elsewhere(row[1])
  BY <1>13, UnderTwo DEF Elsewhere
<1>14. ASSUME row \in Under(<<"serverStatus", "wiredTiger">>, {"concurrentTransactions"}, "txn_rw_type") PROVE Elsewhere(row[1])
  BY <1>14, UnderTwo DEF Elsewhere
<1>15. ASSUME row \in Under(<<"serverStatus", "queues">>, {"execution"}, "txn_rw_type") PROVE Elsewhere(row[1])
  BY <1>15, UnderTwo DEF Elsewhere
<1>16. ASSUME row \in Under(<<"serverStatus", "wiredTiger">>, {"perf"}, "perf_bucket") PROVE Elsewhere(row[1])
  BY <1>16, UnderTwo DEF Elsewhere
<1>17. ASSUME row \in Under(<<"systemMetrics">>, {"disks"}, "device_name") PROVE Elsewhere(row[1])
  BY <1>17, UnderOne DEF Elsewhere
<1>18. ASSUME row \in Under(<<"collstats", "storageStats">>, {"indexSizes"}, "index_name") PROVE Elsewhere(row[1])
  BY <1>18, UnderTwo DEF Elsewhere
<1>19. ASSUME row \in Under(<<"config.transactions.stats", "storageStats">>, {"indexSizes"}, "index_name") PROVE Elsewhere(row[1])
  BY <1>19, UnderTwo DEF Elsewhere
<1>20. ASSUME row \in Under(<<"config.image_collection.stats", "storageStats">>, {"indexSizes"}, "index_name") PROVE Elsewhere(row[1])
  BY <1>20, UnderTwo DEF Elsewhere
<1>21. QED BY <1>1, <1>2, <1>3, <1>4, <1>5, <1>6, <1>7, <1>8, <1>9, <1>10, <1>11, <1>12, <1>13, <1>14, <1>15, <1>16, <1>17, <1>18, <1>19, <1>20 DEF PDMetrics

\* The words the key nodes are made of.
NodeWords ==
    {"storageStats", "indexDetails", "collstats", "config.transactions.stats", "config.image_collection.stats"}

\* The key nodes.
LEMMA KeyNodesAre ==
    ASSUME NEW node \in KeyNodes
    PROVE  /\ node \in Seq(NodeWords)
           /\ \/ Len(node) = 2 /\ node[1] = "storageStats" /\ node[2] = "indexDetails"
              \/ /\ Len(node) = 3 /\ node[3] = "indexDetails"
                 /\ node[1] \in {"collstats", "config.transactions.stats", "config.image_collection.stats"}
<1>1. CASE node = <<"storageStats", "indexDetails">>
  <2>1. <<"storageStats", "indexDetails">> \in Seq(NodeWords)
    BY ShortSeqs DEF NodeWords
  <2>2. QED BY <1>1, <2>1
<1>2. ASSUME NEW parent \in {"collstats", "config.transactions.stats", "config.image_collection.stats"},
             node = <<parent, "storageStats", "indexDetails">>
      PROVE  node \in Seq(NodeWords) /\ Len(node) = 3 /\ node[3] = "indexDetails" /\ node[1] = parent
  <2>1. <<parent, "storageStats", "indexDetails">> \in Seq(NodeWords)
    BY ShortSeqs DEF NodeWords
  <2>2. QED BY <1>2, <2>1
<1>3. QED BY <1>1, <1>2 DEF KeyNodes

\* So no map below a key node has keys that become values.
LEMMA NoneBelow ==
    ASSUME NEW S, NEW prefix \in Seq(S), BelowKeyNode(prefix)
    PROVE  prefix \notin DOMAIN NodeToPDMetrics
<1>0. PICK U : U = S \cup NodeWords
  OBVIOUS
<1>1. PICK node \in KeyNodes : IsPrefix(node, prefix)
  BY DEF BelowKeyNode
<1>2. node \in Seq(U) /\ prefix \in Seq(U)
  BY <1>0, KeyNodesAre, SeqMonotonic
<1>3. Len(node) <= Len(prefix) /\ \A i \in 1..Len(node) : node[i] = prefix[i]
  BY <1>1, <1>2, PrefixGives
<1>4. ~Elsewhere(prefix)
  <2>1. CASE Len(node) = 2 /\ node[1] = "storageStats" /\ node[2] = "indexDetails"
    <3>1. prefix[1] = "storageStats" /\ prefix[2] = "indexDetails"
      BY <1>3, <2>1
    <3>2. QED BY <3>1 DEF Elsewhere
  <2>2. CASE /\ Len(node) = 3 /\ node[3] = "indexDetails"
             /\ node[1] \in {"collstats", "config.transactions.stats", "config.image_collection.stats"}
    <3>1. prefix[3] = "indexDetails" /\ prefix[1] = node[1]
      BY <1>3, <2>2
    <3>2. QED BY <2>2, <3>1 DEF Elsewhere
  <2>3. QED BY <2>1, <2>2, KeyNodesAre
<1>5. ASSUME NEW row \in PDMetrics, row[1] = prefix PROVE FALSE
  BY <1>4, <1>5, PDElsewhere
<1>6. QED BY <1>5 DEF NodeToPDMetrics

\* Labels have one value each, are none that rows rename one to, and those of the maps whose keys
\* become values are given below a key node only, where there is no such map.
LabelsFit(labels, prefix) ==
    /\ \A p, q \in labels : p[1] = q[1] => p = q
    /\ \A p \in labels : p[1] \notin RowLabels
    /\ \A p \in labels : p[1] \in PDLabels => BelowKeyNode(prefix)

\* A label the walk gives takes the place of the one of its name.
LEMMA FitWith ==
    ASSUME NEW labels, NEW prefix, LabelsFit(labels, prefix), NEW name, NEW value,
           name \notin RowLabels, name \in PDLabels => BelowKeyNode(prefix)
    PROVE  LabelsFit(With(labels, name, value), prefix)
  BY DEF LabelsFit, With

\* Labels that fit a map fit what is below it.
LEMMA FitLonger ==
    ASSUME NEW S, NEW prefix \in Seq(S), NEW k \in S, NEW labels, LabelsFit(labels, prefix)
    PROVE  LabelsFit(labels, Append(prefix, k))
<1>1. ASSUME BelowKeyNode(prefix) PROVE BelowKeyNode(Append(prefix, k))
  <2>1. PICK node \in KeyNodes : IsPrefix(node, prefix)
    BY <1>1 DEF BelowKeyNode
  <2>2. PICK U : U = S \cup NodeWords
    OBVIOUS
  <2>3. node \in Seq(U) /\ prefix \in Seq(U) /\ k \in U
    BY <2>2, KeyNodesAre, SeqMonotonic
  <2>4. Append(prefix, k) \in Seq(U) /\ IsPrefix(prefix, Append(prefix, k))
    BY <2>3, PrefixAppend
  <2>5. IsPrefix(node, Append(prefix, k))
    BY <2>1, <2>3, <2>4, PrefixTransitive
  <2>6. QED BY <2>5 DEF BelowKeyNode
<1>2. QED BY <1>1 DEF LabelsFit

\* The labels that tell the member of an array.
KeepsMember(labels, others) ==
    \A pair \in labels : pair[1] \in {"member_idx", "member_state"} => pair \in others

\* A label of another name leaves them alone.
LEMMA WithKeepsMember ==
    ASSUME NEW labels, NEW name, name \notin {"member_idx", "member_state"}, NEW value
    PROVE  KeepsMember(labels, With(labels, name, value))
  BY DEF KeepsMember, With

\* So labels that keep those tell what the first told, of a member and of a path.
LEMMA OwnKept ==
    ASSUME NEW labels, NEW others, KeepsMember(labels, others), NEW member, OwnLabels(labels, member)
    PROVE  OwnLabels(others, member)
<1>1. ASSUME NEW name \in {"member_idx", "member_state"}, NEW value, <<name, value>> \in labels
      PROVE  <<name, value>> \in others
  BY <1>1 DEF KeepsMember
<1>2. QED BY <1>1 DEF OwnLabels

LEMMA TellsKept ==
    ASSUME NEW labels, NEW others, KeepsMember(labels, others), NEW path, Tells(labels, path)
    PROVE  Tells(others, path)
BY OwnKept DEF Tells

\* A member is identified by its own labels.
LEMMA IdentifyOwn ==
    ASSUME NEW labels, NEW path
    PROVE  OwnLabels(Identify(labels, path), path)
<1> DEFINE named  == IF Told(path, "name")
                     THEN With(labels, "member_idx", doc[Append(path, "name")]) ELSE labels
           stated == IF Told(path, "stateStr")
                     THEN With(named, "member_state", doc[Append(path, "stateStr")]) ELSE named
           hosted == IF Told(path, "host")
                     THEN With(stated, "member_idx", doc[Append(path, "host")]) ELSE stated
<1>1. Told(path, "name") => <<"member_idx", doc[Append(path, "name")]>> \in named
  BY DEF With
<1>2. /\ Told(path, "name") => <<"member_idx", doc[Append(path, "name")]>> \in stated
      /\ Told(path, "stateStr") => <<"member_state", doc[Append(path, "stateStr")]>> \in stated
  BY <1>1 DEF With
<1> HIDE DEF stated
<1>3. /\ Told(path, "host") => <<"member_idx", doc[Append(path, "host")]>> \in hosted
      /\ Told(path, "name") /\ ~Told(path, "host") => <<"member_idx", doc[Append(path, "name")]>> \in hosted
      /\ Told(path, "stateStr") => <<"member_state", doc[Append(path, "stateStr")]>> \in hosted
  BY <1>2 DEF With
<1>4. Identify(labels, path) = hosted
  BY DEF Identify, stated
<1>5. QED BY <1>3, <1>4 DEF OwnLabels

\* The labels of a member fit where those of its array do.
LEMMA IdentifyFits ==
    ASSUME NEW labels, NEW prefix, LabelsFit(labels, prefix), NEW path
    PROVE  LabelsFit(Identify(labels, path), prefix)
<1> DEFINE named  == IF Told(path, "name")
                     THEN With(labels, "member_idx", doc[Append(path, "name")]) ELSE labels
           stated == IF Told(path, "stateStr")
                     THEN With(named, "member_state", doc[Append(path, "stateStr")]) ELSE named
<1>1. {"member_idx", "member_state"} \cap (PDLabels \cup RowLabels) = {}
  BY PDLabelsAre DEF RowLabels
<1>2. LabelsFit(named, prefix)
  BY <1>1, FitWith
<1>3. LabelsFit(stated, prefix)
  BY <1>1, <1>2, FitWith
<1>4. LabelsFit(With(stated, "member_idx", doc[Append(path, "host")]), prefix)
  BY <1>1, <1>3, FitWith
<1>5. QED BY <1>3, <1>4 DEF Identify

-----------------------------------------------------------------------------
(***************************************************************************)
(* The rows of the tables.                                                 *)
(***************************************************************************)

\* A row renames a metric, one of its labels too, or makes a label of the rest of its name.
IsRow(row) ==
    \/ \E old, words : row = Renamed(old, words)
    \/ \E old, words, label, suffixes : row = Suffixed(old, words, label, suffixes)
    \/ \E old, words, from, values : \E to \in RowLabels : row = Relabelled(old, words, from, to, values)

\* The first third of the table, row by row.
LEMMA ServerConversionsAreRows == \A i \in 1..23 : IsRow(ServerConversions[i])
<1>1. /\ IsRow(ServerConversions[1]) /\ IsRow(ServerConversions[2]) /\ IsRow(ServerConversions[3])
      /\ IsRow(ServerConversions[4]) /\ IsRow(ServerConversions[5]) /\ IsRow(ServerConversions[6])
      /\ IsRow(ServerConversions[7]) /\ IsRow(ServerConversions[8])
  BY DEF ServerConversions, RowLabels, IsRow
<1>2. /\ IsRow(ServerConversions[9]) /\ IsRow(ServerConversions[10]) /\ IsRow(ServerConversions[11])
      /\ IsRow(ServerConversions[12]) /\ IsRow(ServerConversions[13]) /\ IsRow(ServerConversions[14])
      /\ IsRow(ServerConversions[15]) /\ IsRow(ServerConversions[16])
  BY DEF ServerConversions, RowLabels, IsRow
<1>3. /\ IsRow(ServerConversions[17]) /\ IsRow(ServerConversions[18]) /\ IsRow(ServerConversions[19])
      /\ IsRow(ServerConversions[20]) /\ IsRow(ServerConversions[21]) /\ IsRow(ServerConversions[22])
      /\ IsRow(ServerConversions[23])
  BY DEF ServerConversions, RowLabels, IsRow
<1>4. QED BY <1>1, <1>2, <1>3

\* The same of the table as a list.
LEMMA ServerConversionsList ==
    ServerConversions \in Seq(Range(ServerConversions)) /\ \A row \in Range(ServerConversions) : IsRow(row)
<1>1. DOMAIN ServerConversions = 1..23
  BY DEF ServerConversions
<1>2. PICK S : S = Range(ServerConversions)
  OBVIOUS
<1>3. \A i \in 1..23 : ServerConversions[i] \in S
  BY <1>1, <1>2 DEF Range
<1>4. ServerConversions = [i \in 1..23 |-> ServerConversions[i]]
  BY DEF ServerConversions
<1>5. QED BY <1>1, <1>2, <1>3, <1>4, ServerConversionsAreRows DEF Range

\* The second third.
LEMMA ReplConversionsAreRows == \A i \in 1..33 : IsRow(ReplConversions[i])
<1>1. /\ IsRow(ReplConversions[1]) /\ IsRow(ReplConversions[2]) /\ IsRow(ReplConversions[3])
      /\ IsRow(ReplConversions[4]) /\ IsRow(ReplConversions[5]) /\ IsRow(ReplConversions[6])
      /\ IsRow(ReplConversions[7]) /\ IsRow(ReplConversions[8])
  BY DEF ReplConversions, RowLabels, IsRow
<1>2. /\ IsRow(ReplConversions[9]) /\ IsRow(ReplConversions[10]) /\ IsRow(ReplConversions[11])
      /\ IsRow(ReplConversions[12]) /\ IsRow(ReplConversions[13]) /\ IsRow(ReplConversions[14])
      /\ IsRow(ReplConversions[15]) /\ IsRow(ReplConversions[16])
  BY DEF ReplConversions, RowLabels, IsRow
<1>3. /\ IsRow(ReplConversions[17]) /\ IsRow(ReplConversions[18]) /\ IsRow(ReplConversions[19])
      /\ IsRow(ReplConversions[20]) /\ IsRow(ReplConversions[21]) /\ IsRow(ReplConversions[22])
      /\ IsRow(ReplConversions[23]) /\ IsRow(ReplConversions[24])
  BY DEF ReplConversions, RowLabels, IsRow
<1>4. /\ IsRow(ReplConversions[25]) /\ IsRow(ReplConversions[26]) /\ IsRow(ReplConversions[27])
      /\ IsRow(ReplConversions[28]) /\ IsRow(ReplConversions[29]) /\ IsRow(ReplConversions[30])
      /\ IsRow(ReplConversions[31]) /\ IsRow(ReplConversions[32])
  BY DEF ReplConversions, RowLabels, IsRow
<1>5. /\ IsRow(ReplConversions[33])
  BY DEF ReplConversions, RowLabels, IsRow
<1>6. QED BY <1>1, <1>2, <1>3, <1>4, <1>5

\* The same of the table as a list.
LEMMA ReplConversionsList ==
    ReplConversions \in Seq(Range(ReplConversions)) /\ \A row \in Range(ReplConversions) : IsRow(row)
<1>1. DOMAIN ReplConversions = 1..33
  BY DEF ReplConversions
<1>2. PICK S : S = Range(ReplConversions)
  OBVIOUS
<1>3. \A i \in 1..33 : ReplConversions[i] \in S
  BY <1>1, <1>2 DEF Range
<1>4. ReplConversions = [i \in 1..33 |-> ReplConversions[i]]
  BY DEF ReplConversions
<1>5. QED BY <1>1, <1>2, <1>3, <1>4, ReplConversionsAreRows DEF Range

\* The last third.
LEMMA StorageConversionsAreRows == \A i \in 1..23 : IsRow(StorageConversions[i])
<1>1. /\ IsRow(StorageConversions[1]) /\ IsRow(StorageConversions[2]) /\ IsRow(StorageConversions[3])
      /\ IsRow(StorageConversions[4]) /\ IsRow(StorageConversions[5]) /\ IsRow(StorageConversions[6])
      /\ IsRow(StorageConversions[7]) /\ IsRow(StorageConversions[8])
  BY DEF StorageConversions, RowLabels, IsRow
<1>2. /\ IsRow(StorageConversions[9]) /\ IsRow(StorageConversions[10]) /\ IsRow(StorageConversions[11])
      /\ IsRow(StorageConversions[12]) /\ IsRow(StorageConversions[13]) /\ IsRow(StorageConversions[14])
      /\ IsRow(StorageConversions[15]) /\ IsRow(StorageConversions[16])
  BY DEF StorageConversions, RowLabels, IsRow
<1>3. /\ IsRow(StorageConversions[17]) /\ IsRow(StorageConversions[18]) /\ IsRow(StorageConversions[19])
      /\ IsRow(StorageConversions[20]) /\ IsRow(StorageConversions[21]) /\ IsRow(StorageConversions[22])
      /\ IsRow(StorageConversions[23])
  BY DEF StorageConversions, RowLabels, IsRow
<1>4. QED BY <1>1, <1>2, <1>3

\* The same of the table as a list.
LEMMA StorageConversionsList ==
    StorageConversions \in Seq(Range(StorageConversions)) /\ \A row \in Range(StorageConversions) : IsRow(row)
<1>1. DOMAIN StorageConversions = 1..23
  BY DEF StorageConversions
<1>2. PICK S : S = Range(StorageConversions)
  OBVIOUS
<1>3. \A i \in 1..23 : StorageConversions[i] \in S
  BY <1>1, <1>2 DEF Range
<1>4. StorageConversions = [i \in 1..23 |-> StorageConversions[i]]
  BY DEF StorageConversions
<1>5. QED BY <1>1, <1>2, <1>3, <1>4, StorageConversionsAreRows DEF Range

\* All rows of the table are rows.
LEMMA ConversionsAreRows == \A i \in 1..Len(Conversions) : IsRow(Conversions[i])
<1>1. PICK server, repl, storage, two :
          /\ server = ServerConversions /\ repl = ReplConversions /\ storage = StorageConversions
          /\ two = server \o repl
  OBVIOUS
<1>2. two \in Seq(Range(two)) /\ Range(two) = Range(server) \cup Range(repl)
  BY <1>1, ServerConversionsList, ReplConversionsList, Concatenation
<1>3. PICK all : all = two \o storage
  OBVIOUS
<1>4. all \in Seq(Range(all)) /\ Range(all) = Range(two) \cup Range(storage)
  BY <1>1, <1>2, <1>3, StorageConversionsList, Concatenation
<1>5. Conversions = all
  BY <1>1, <1>3 DEF Conversions
<1>6. \A row \in Range(all) : IsRow(row)
  BY <1>1, <1>2, <1>4, ServerConversionsList, ReplConversionsList, StorageConversionsList
<1>7. \A i \in 1..Len(all) : all[i] \in Range(all)
  BY <1>4 DEF Range
<1>8. QED BY <1>5, <1>6, <1>7

\* A row for a whole name keeps labels apart that are none that rows rename one to.
KeepsApart(row) ==
    row.whole =>
        \A x, y : (x \notin RowLabels /\ y \notin RowLabels /\ Mapped(row.names, x) = Mapped(row.names, y))
                  => x = y

\* Each kind of row does.
LEMMA RowKeepsApart ==
    ASSUME NEW row, IsRow(row)
    PROVE  KeepsApart(row)
<1>1. ASSUME NEW old, NEW words, row = Renamed(old, words) PROVE KeepsApart(row)
  <2>1. row.names = {}
    BY <1>1 DEF Renamed, Row
  <2>2. ASSUME NEW x PROVE Mapped(row.names, x) = x
    BY <2>1 DEF Mapped
  <2>3. QED BY <2>2 DEF KeepsApart
<1>2. ASSUME NEW old, NEW words, NEW label, NEW suffixes, row = Suffixed(old, words, label, suffixes)
      PROVE  KeepsApart(row)
  BY <1>2 DEF Suffixed, Row, KeepsApart
<1>3. ASSUME NEW old, NEW words, NEW from, NEW values, NEW to \in RowLabels,
             row = Relabelled(old, words, from, to, values)
      PROVE  KeepsApart(row)
  <2> DEFINE names == {<<from, to>>}
  <2>1. row.names = names
    BY <1>3 DEF Relabelled, Renamed, Row
  <2>2. ASSUME NEW x PROVE Mapped(names, x) = IF x = from THEN to ELSE x
    <3>1. (\E pair \in names : pair[1] = x) <=> x = from
      OBVIOUS
    <3>2. x = from => (CHOOSE pair \in names : pair[1] = x) = <<from, to>>
      OBVIOUS
    <3>3. QED BY <3>1, <3>2 DEF Mapped
  <2>3. QED BY <2>1, <2>2 DEF KeepsApart
<1>4. QED BY <1>1, <1>2, <1>3 DEF IsRow

-----------------------------------------------------------------------------
(***************************************************************************)
(* The metrics of one value.                                               *)
(***************************************************************************)

\* The rows of both tables keep the value and the type.
LEMMA ConvertKeeps ==
    ASSUME NEW m, DOMAIN m = {"of", "special", "v1", "name", "help", "labels", "type"}, NEW row
    PROVE  Convert(m, row).of = m.of /\ Convert(m, row).type = m.type /\ DOMAIN Convert(m, row) = DOMAIN m
BY DEF Convert, NewToOldMetric, CreateOldMetricFromNew

\* The fields of a metric.
RawDomain == {"of", "special", "v1", "name", "help", "labels", "type"}

\* The metric made of a value, before any conversion.
LEMMA RawIs ==
    ASSUME NEW of, NEW prefix, NEW name, NEW labels
    PROVE  LET raw == MakeRawMetric(of, prefix, name, labels)
           IN DOMAIN raw = RawDomain /\ raw.of = of /\ Valid(raw)
              /\ raw.labels = labels \cup NameAndLabel(prefix, name).label
BY DEF MakeRawMetric, RawDomain, Valid

\* A metric replaced by a special conversion is of the same value, and has one label.
LEMMA SpeciallyIs ==
    ASSUME NEW raw, DOMAIN raw = RawDomain, Valid(raw), NEW m \in Specially(raw)
    PROVE  /\ DOMAIN m = RawDomain /\ m.of = raw.of /\ Valid(m)
           /\ m = raw \/ \E pair : m.labels = {pair}
<1>1. CASE Rows(raw, SpecialConversions) = {}
  BY <1>1 DEF Specially
<1>2. CASE Rows(raw, SpecialConversions) # {}
  <2>1. PICK i \in Rows(raw, SpecialConversions) :
            m = [Convert(raw, SpecialConversions[i]) EXCEPT !.special = i]
    BY <1>2 DEF Specially
  <2>2. PICK row : row = SpecialConversions[i]
    OBVIOUS
  <2>3. row.whole = FALSE
    <3>1. i \in 1..5 /\ Len(SpecialConversions) = 5
      BY <2>1 DEF Rows, SpecialConversions
    <3>2. QED BY <2>2, <3>1 DEF SpecialConversions, Latencies, Tickets, Row
  <2>4. PICK converted : converted = Convert(raw, row)
    OBVIOUS
  <2>5. DOMAIN converted = RawDomain /\ converted.of = raw.of /\ converted.type = raw.type
    BY <2>4, ConvertKeeps DEF RawDomain
  <2>6. converted.labels = {<<row.label, Mapped(row.suffixes, Rest(raw, row))>>}
    BY <2>3, <2>4 DEF Convert, CreateOldMetricFromNew, RawDomain
  <2>7. m = [converted EXCEPT !.special = i]
    BY <2>1, <2>2, <2>4
  <2>8. DOMAIN m = RawDomain /\ m.of = raw.of /\ m.type = raw.type /\ m.labels = converted.labels
    BY <2>5, <2>7 DEF RawDomain
  <2>9. QED BY <2>6, <2>8 DEF Valid
<1>3. QED BY <1>1, <1>2

\* All the metrics made of a value are of it.
LEMMA ValueOf ==
    ASSUME NEW of, NEW prefix, NEW name, NEW labels, NEW m \in AppendMetricValue(of, prefix, name, labels)
    PROVE  m.of = of
<1> DEFINE raw == MakeRawMetric(of, prefix, name, labels)
           served == Specially(raw)
           valid == {s \in served : RawToPrometheusMetric(s) = s}
           v1 == IF call.compatible THEN UNION {Compatible(s) : s \in valid} ELSE {}
<1>1. Invalid(of).of = of
  BY DEF Invalid
<1>2. m = Invalid(of) \/ m \in {RawToPrometheusMetric(s) : s \in served \cup v1}
  BY DEF AppendMetricValue
<1>3. ASSUME NEW s \in served \cup v1 PROVE s.of = of
  <2>1. DOMAIN raw = RawDomain /\ raw.of = of /\ Valid(raw)
    BY RawIs
  <2>2. \A t \in served : DOMAIN t = RawDomain /\ t.of = of
    BY <2>1, SpeciallyIs
  <2>3. ASSUME s \in v1 PROVE s.of = of
    <3>1. PICK t \in served : s \in Compatible(t)
      BY <2>3
    <3>2. PICK i \in Rows(t, Conversions) : s = [Convert(t, Conversions[i]) EXCEPT !.v1 = i]
      BY <3>1 DEF Compatible
    <3>3. PICK converted : converted = Convert(t, Conversions[i])
      OBVIOUS
    <3>4. DOMAIN converted = RawDomain /\ converted.of = of
      BY <2>2, <3>1, <3>3, ConvertKeeps DEF RawDomain
    <3>5. s = [converted EXCEPT !.v1 = i]
      BY <3>2, <3>3
    <3>6. QED BY <3>4, <3>5 DEF RawDomain
  <2>4. QED BY <2>2, <2>3
<1>4. ASSUME NEW s \in served \cup v1 PROVE RawToPrometheusMetric(s).of = of
  BY <1>3, <1>1 DEF RawToPrometheusMetric, Invalid
<1>5. QED BY <1>1, <1>2, <1>4

\* Nothing is below a leaf.
LEMMA LeafAlone ==
    ASSUME IsDocument(doc), NEW path, IsLeaf(path)
    PROVE  Keys(path) = {}
BY DEF IsDocument, IsLeaf, Keys, KeysIn

\* A metric whose labels have one value each.
OneEach(m) == \A p, q \in m.labels : p[1] = q[1] => p = q

\* Under labels that fit, the metric made of a value has one value of each label, and none that
\* rows rename one to.
LEMMA RawFits ==
    ASSUME NEW S, NEW of, NEW prefix \in Seq(S), NEW name, NEW labels, LabelsFit(labels, prefix)
    PROVE  LET raw == MakeRawMetric(of, prefix, name, labels)
           IN OneEach(raw) /\ \A p \in raw.labels : p[1] \notin RowLabels
<1>0. PICK raw : raw = MakeRawMetric(of, prefix, name, labels)
  OBVIOUS
<1>1. raw.labels = labels \cup NameAndLabel(prefix, name).label
  BY <1>0, RawIs
<1>2. CASE prefix \in DOMAIN NodeToPDMetrics
  <2>1. ~BelowKeyNode(prefix)
    BY <1>2, NoneBelow
  <2>2. NodeToPDMetrics[prefix] \in PDLabels /\ NodeToPDMetrics[prefix] \notin RowLabels
    BY <1>2, PDLabelsAre
  <2>3. \A p \in labels : p[1] # NodeToPDMetrics[prefix]
    BY <2>1, <2>2 DEF LabelsFit
  <2>4. raw.labels = labels \cup {<<NodeToPDMetrics[prefix], name>>}
    BY <1>1, <1>2 DEF NameAndLabel
  <2>5. QED BY <1>0, <2>2, <2>3, <2>4 DEF LabelsFit, OneEach
<1>3. CASE prefix \notin DOMAIN NodeToPDMetrics
  <2>1. raw.labels = labels
    BY <1>1, <1>3 DEF NameAndLabel
  <2>2. QED BY <1>0, <2>1 DEF LabelsFit, OneEach
<1>4. QED BY <1>2, <1>3

\* What a row of version 1 makes of such a metric has one value of each label.
LEMMA CompatibleFits ==
    ASSUME NEW m, DOMAIN m = RawDomain, Valid(m), OneEach(m), NEW s \in Compatible(m),
           (\A p \in m.labels : p[1] \notin RowLabels) \/ \E pair : m.labels = {pair}
    PROVE  Valid(s) /\ OneEach(s)
<1>1. PICK i \in Rows(m, Conversions) : s = [Convert(m, Conversions[i]) EXCEPT !.v1 = i]
  BY DEF Compatible
<1>2. PICK row : row = Conversions[i]
  OBVIOUS
<1>3. KeepsApart(row)
  BY <1>2, ConversionsAreRows, RowKeepsApart DEF Rows
<1>4. PICK converted : converted = Convert(m, row)
  OBVIOUS
<1>5. DOMAIN converted = RawDomain /\ converted.type = m.type
  BY <1>4, ConvertKeeps DEF RawDomain
<1>6. s.type = m.type /\ s.labels = converted.labels
  BY <1>1, <1>2, <1>4, <1>5 DEF RawDomain
<1>7. OneEach(converted)
  <2>1. CASE row.whole
    <3>1. converted.labels = {<<Mapped(row.names, p[1]), Mapped(row.values, p[2])>> : p \in m.labels}
      BY <1>4, <2>1 DEF Convert, NewToOldMetric, RawDomain
    <3>2. ASSUME NEW p \in m.labels, NEW q \in m.labels, Mapped(row.names, p[1]) = Mapped(row.names, q[1])
          PROVE  p = q
      <4>1. CASE \A r \in m.labels : r[1] \notin RowLabels
        <5>1. p[1] = q[1]
          BY <1>3, <2>1, <3>2, <4>1 DEF KeepsApart
        <5>2. QED BY <5>1 DEF OneEach
      <4>2. CASE \E pair : m.labels = {pair}
        BY <4>2
      <4>3. QED BY <4>1, <4>2
    <3>3. QED BY <3>1, <3>2 DEF OneEach
  <2>2. CASE ~row.whole
    <3>1. converted.labels = {<<row.label, Mapped(row.suffixes, Rest(m, row))>>}
      BY <1>4, <2>2 DEF Convert, CreateOldMetricFromNew, RawDomain
    <3>2. QED BY <3>1 DEF OneEach
  <2>3. QED BY <2>1, <2>2
<1>8. QED BY <1>6, <1>7 DEF Valid, OneEach

\* Of a value that asFloat64 knows, every metric is valid.
LEMMA ValueValid ==
    ASSUME NEW S, NEW of, NEW prefix \in Seq(S), NEW name, NEW labels, LabelsFit(labels, prefix),
           ~Unknown(of), NEW m \in AppendMetricValue(of, prefix, name, labels)
    PROVE  Valid(m)
<1> DEFINE raw == MakeRawMetric(of, prefix, name, labels)
           served == Specially(raw)
           valid == {s \in served : RawToPrometheusMetric(s) = s}
           v1 == IF call.compatible THEN UNION {Compatible(s) : s \in valid} ELSE {}
<1>1. PICK s \in served \cup v1 : m = RawToPrometheusMetric(s)
  BY DEF AppendMetricValue
<1>2. /\ DOMAIN raw = RawDomain /\ Valid(raw)
      /\ OneEach(raw) /\ \A p \in raw.labels : p[1] \notin RowLabels
  BY RawIs, RawFits
<1> HIDE DEF raw
<1>3. ASSUME NEW t \in served
      PROVE  /\ DOMAIN t = RawDomain /\ Valid(t) /\ OneEach(t)
             /\ (\A p \in t.labels : p[1] \notin RowLabels) \/ \E pair : t.labels = {pair}
  <2>1. DOMAIN t = RawDomain /\ Valid(t) /\ (t = raw \/ \E pair : t.labels = {pair})
    BY <1>2, SpeciallyIs
  <2>2. QED BY <1>2, <2>1 DEF OneEach
<1>4. ASSUME s \in v1 PROVE Valid(s) /\ OneEach(s)
  <2>1. PICK t \in served : s \in Compatible(t)
    BY <1>4
  <2>2. QED BY <1>3, <2>1, CompatibleFits
<1>5. Valid(s) /\ OneEach(s)
  BY <1>1, <1>3, <1>4
<1>6. QED BY <1>1, <1>5 DEF RawToPrometheusMetric, OneEach

\* A number is served, under labels that fit.
LEMMA ValueServed ==
    ASSUME NEW S, NEW of, NEW prefix \in Seq(S), NEW name, NEW labels, LabelsFit(labels, prefix),
           IsDocument(doc), IsNumber(of)
    PROVE  \E m \in AppendMetricValue(of, prefix, name, labels) : m.of = of /\ Valid(m)
<1> DEFINE raw == MakeRawMetric(of, prefix, name, labels)
           served == Specially(raw)
           valid == {s \in served : RawToPrometheusMetric(s) = s}
           v1 == IF call.compatible THEN UNION {Compatible(s) : s \in valid} ELSE {}
<1>1. ~Unknown(of) /\ ~NoNumber(of)
  BY LeafAlone DEF IsNumber, Unknown, NoNumber, IsMap, IsList
<1>2. AppendMetricValue(of, prefix, name, labels) = {RawToPrometheusMetric(s) : s \in served \cup v1}
  BY <1>1 DEF AppendMetricValue
<1> HIDE DEF raw, v1
<1>3. PICK s : s \in Specially(raw)
  <2>1. CASE Rows(raw, SpecialConversions) = {}
    BY <2>1 DEF Specially
  <2>2. CASE Rows(raw, SpecialConversions) # {}
    BY <2>2 DEF Specially
  <2>3. QED BY <2>1, <2>2
<1>4. RawToPrometheusMetric(s) \in AppendMetricValue(of, prefix, name, labels)
  BY <1>2, <1>3
<1>5. Valid(RawToPrometheusMetric(s)) /\ RawToPrometheusMetric(s).of = of
  BY <1>1, <1>4, ValueValid, ValueOf
<1>6. QED BY <1>4, <1>5

-----------------------------------------------------------------------------
(***************************************************************************)
(* The walk.                                                               *)
(***************************************************************************)

PrefixKey == Key \cup {"index_name"}

\* "histograms" is one of the keys of the path.
Histogram(path) == \E i \in 1..Len(path) : path[i] = "histograms"

\* A map or an array being walked.
FrameInv(f) ==
    /\ DOMAIN f = {"at", "prefix", "labels", "left"}
    /\ f.at \in Seq(Key) /\ f.prefix \in Seq(PrefixKey)
    /\ f.left \subseteq Keys(f.at)
    /\ LabelsFit(f.labels, f.prefix)
    /\ Histogram(f.prefix) => Histogram(call.prefix) \/ Histogram(f.at)
    /\ ~IsList(f.at) => Tells(f.labels, f.at)

\* What is left of the map or the array leads to the value.
Leads(f, p) == IsStrictPrefix(f.at, p) /\ p[Len(f.at) + 1] \in f.left

\* The numbers that are to be served, and those that are.
Due(p)    == p \in DOMAIN doc /\ IsNumber(p) /\ InMaps(p) /\ Wanted(p)
Served(p) == \E m \in metrics : m.of = p /\ Valid(m)

\* Of the walk: what is on the stack, what the metrics are of and tell, and that whatever is to be
\* served is, or is still led to.
WalkInv ==
    /\ stack \in Seq(Range(stack))
    /\ \A f \in Range(stack) : FrameInv(f)
    /\ \A m \in metrics : IsLeaf(m.of) \/ IsMap(m.of) \/ m \in Extra
    /\ MembersTold /\ OneValueEach
    /\ phase # "read" =>
          \A p \in DOMAIN doc : Due(p) => Served(p) \/ (phase = "walk" /\ \E f \in Range(stack) : Leads(f, p))

\* A key of a map or an array leads to a value.
LEMMA KeysGive ==
    ASSUME IsDocument(doc), NEW at \in Seq(Key), NEW k \in Keys(at)
    PROVE  k \in Key /\ \E p \in DOMAIN doc : IsPrefix(Append(at, k), p)
<1>1. PICK p \in DOMAIN doc : IsStrictPrefix(at, p) /\ k = p[Len(at) + 1]
  BY DEF Keys, KeysIn
<1>2. p \in Seq(Key)
  BY DEF IsDocument
<1>3. QED BY <1>1, <1>2, StrictStep

\* A value is a leaf, or below something.
LEMMA LeafOrBelow ==
    ASSUME IsDocument(doc), NEW path \in Seq(Key), NEW p \in DOMAIN doc, IsPrefix(path, p)
    PROVE  IF IsLeaf(path) THEN p = path
           ELSE IsStrictPrefix(path, p) /\ p[Len(path) + 1] \in Keys(path)
BY DEF IsDocument, IsLeaf, IsStrictPrefix, Keys, KeysIn

\* The keys of a map are no positions.
LEMMA MapKeys ==
    ASSUME IsDocument(doc), NEW at \in Seq(Key), ~IsList(at), NEW k \in Keys(at)
    PROVE  k \notin Positions
<1>1. PICK p \in DOMAIN doc : IsStrictPrefix(at, p) /\ k = p[Len(at) + 1]
  BY DEF Keys, KeysIn
<1>2. p \in Seq(Key) /\ p[1] \notin Positions
  BY DEF IsDocument
<1>3. Len(at) < Len(p) /\ IsPrefix(at, p)
  BY <1>1, <1>2, StrictStep DEF IsStrictPrefix
<1>4. CASE Len(at) = 0
  BY <1>1, <1>2, <1>4
<1>5. CASE Len(at) # 0
  <2>1. Len(at) \in 1..(Len(p) - 1)
    BY <1>2, <1>3, <1>5
  <2>2. SubSeq(p, 1, Len(at)) = at
    BY <1>3 DEF IsPrefix
  <2>3. KeysIn(doc, at) \subseteq Positions \/ KeysIn(doc, at) \cap Positions = {}
    BY <2>1, <2>2 DEF IsDocument
  <2>4. QED BY <2>3 DEF Keys, IsList
<1>6. QED BY <1>4, <1>5

\* A number in maps that is in a member of an array is in a member that is a map.
LEMMA MemberIsMap ==
    ASSUME IsDocument(doc), NEW at \in Seq(Key), NEW i \in Positions, NEW p \in DOMAIN doc,
           IsPrefix(Append(at, i), p), InMaps(p), i \in Key
    PROVE  IsMap(Append(at, i)) /\ IsStrictPrefix(Append(at, i), p)
           /\ p[Len(Append(at, i)) + 1] \in Keys(Append(at, i)) \ Positions
<1>1. p \in Seq(Key)
  BY DEF IsDocument
<1>2. p[Len(at) + 1] = i /\ Len(at) < Len(p)
  BY <1>1, StepStrict
<1>3. Len(at) + 1 \in DOMAIN p
  BY <1>1, <1>2
<1>4. Len(at) + 1 < Len(p) /\ p[Len(at) + 1 + 1] \notin Positions
  BY <1>2, <1>3 DEF InMaps
<1>5. PICK path : path = Append(at, i)
  OBVIOUS
<1>6. path \in Seq(Key) /\ Len(path) = Len(at) + 1
  BY <1>5, AppendProperties
<1>7. path # p
  BY <1>4, <1>6
<1>8. IsStrictPrefix(path, p)
  BY <1>5, <1>7 DEF IsStrictPrefix
<1>9. p[Len(path) + 1] \in Keys(path)
  BY <1>8 DEF Keys, KeysIn
<1>10. p[Len(path) + 1] \notin Positions
  BY <1>4, <1>6
<1>11. QED BY <1>5, <1>8, <1>9, <1>10 DEF IsMap, IsList

\* The first of the positions left is one of them.
LEMMA FirstLeft ==
    ASSUME NEW left \in SUBSET Positions, left # {}
    PROVE  First(left) \in left
<1>1. Order \in Seq(Key)
  BY MetricTreeAssumption
<1> DEFINE I == {i \in DOMAIN Order : Order[i] \in left}
<1>2. I # {} /\ I \in SUBSET Nat
  BY <1>1 DEF Positions
<1>3. PICK i \in I : \A j \in I : i <= j
  BY <1>2, Least
<1>4. \A j \in 1..(i - 1) : Order[j] \notin left
  <2> SUFFICES ASSUME NEW j \in 1..(i - 1), Order[j] \in left PROVE FALSE
    OBVIOUS
  <2>1. i \in 1..Len(Order)
    BY <1>1
  <2>2. j \in DOMAIN Order
    BY <1>1, <2>1
  <2>3. i <= j
    BY <1>3, <2>2
  <2>4. QED BY <2>1, <2>3
<1>5. Order[CHOOSE n \in DOMAIN Order : Order[n] \in left /\ \A j \in 1..(n - 1) : Order[j] \notin left] \in left
  BY <1>3, <1>4
<1>6. QED BY <1>5 DEF First

\* A path goes on with a key.
LEMMA HistogramAppend ==
    ASSUME NEW S, NEW s \in Seq(S), NEW k \in S
    PROVE  Histogram(Append(s, k)) <=> Histogram(s) \/ k = "histograms"
<1>1. PICK t : t = Append(s, k)
  OBVIOUS
<1>2. /\ t \in Seq(S) /\ Len(t) = Len(s) + 1 /\ \A i \in 1..Len(s) : t[i] = s[i]
      /\ t[Len(s) + 1] = k
  BY <1>1, AppendProperties
<1>3. Len(s) \in Nat
  OBVIOUS
<1>4. Histogram(t) => Histogram(s) \/ k = "histograms"
  BY <1>2, <1>3 DEF Histogram
<1>5. Histogram(s) \/ k = "histograms" => Histogram(t)
  <2>1. k = "histograms" => Histogram(t)
    <3>1. Len(s) + 1 \in 1..Len(t)
      BY <1>2, <1>3
    <3>2. QED BY <1>2, <3>1 DEF Histogram
  <2>2. Histogram(s) => Histogram(t)
    <3> SUFFICES ASSUME NEW i \in 1..Len(s), s[i] = "histograms" PROVE Histogram(t)
      BY DEF Histogram
    <3>1. i \in 1..Len(t)
      BY <1>2, <1>3
    <3>2. QED BY <1>2, <3>1 DEF Histogram
  <2>3. QED BY <2>1, <2>2
<1>6. QED BY <1>1, <1>4, <1>5

\* A histogram under the name of the call, or in the path of a map, is in the path of a value in it.
LEMMA HistogramBelow ==
    ASSUME call.prefix \in Seq(Key), NEW path \in Seq(Key), NEW p \in Seq(Key), IsPrefix(path, p),
           Histogram(call.prefix) \/ Histogram(path)
    PROVE  InHistogram(p)
<1>1. PICK whole : whole = call.prefix \o p
  OBVIOUS
<1>2. /\ whole \in Seq(Key) /\ Len(whole) = Len(call.prefix) + Len(p)
      /\ \A i \in 1..Len(call.prefix) : whole[i] = call.prefix[i]
      /\ \A i \in 1..Len(p) : whole[Len(call.prefix) + i] = p[i]
  BY <1>1
<1>3. Len(path) <= Len(p) /\ \A i \in 1..Len(path) : path[i] = p[i]
  BY PrefixGives
<1>4. Len(call.prefix) \in Nat /\ Len(p) \in Nat /\ Len(path) \in Nat
  OBVIOUS
<1>5. \E i \in 1..Len(whole) : whole[i] = "histograms"
  <2>1. CASE Histogram(call.prefix)
    <3>1. PICK i \in 1..Len(call.prefix) : call.prefix[i] = "histograms"
      BY <2>1 DEF Histogram
    <3>2. i \in 1..Len(whole)
      BY <1>2, <1>4
    <3>3. QED BY <1>2, <3>1, <3>2
  <2>2. CASE Histogram(path)
    <3>1. PICK i \in 1..Len(path) : path[i] = "histograms"
      BY <2>2 DEF Histogram
    <3>2. i \in 1..Len(p) /\ p[i] = "histograms" /\ Len(call.prefix) + i \in 1..Len(whole)
      BY <1>2, <1>3, <1>4, <3>1
    <3>3. QED BY <1>2, <3>2
  <2>3. QED BY <2>1, <2>2
<1>6. DOMAIN whole = 1..Len(whole)
  BY <1>2
<1>7. QED BY <1>1, <1>5, <1>6 DEF InHistogram

\* What the walk takes for a histogram has the key in its path.
LEMMA HistogramPath ==
    ASSUME NEW S, NEW path \in Seq(S), IsHistogramPath(path)
    PROVE  Histogram(path)
<1>1. CASE path = <<"histograms">>
  BY <1>1 DEF Histogram
<1>2. ASSUME NEW i \in 2..Len(path), path[i] = "histograms" PROVE Histogram(path)
  BY <1>2 DEF Histogram
<1>3. QED BY <1>1, <1>2 DEF IsHistogramPath

\* A path goes on with a key of a map: the innermost member is the same.
LEMMA TellsBelow ==
    ASSUME NEW labels, NEW at \in Seq(Key), Tells(labels, at), NEW k \in Key, k \notin Positions
    PROVE  Tells(labels, Append(at, k))
<1>1. PICK path : path = Append(at, k)
  OBVIOUS
<1>2. /\ path \in Seq(Key) /\ Len(path) = Len(at) + 1 /\ \A i \in 1..Len(at) : path[i] = at[i]
      /\ path[Len(at) + 1] = k
  BY <1>1, AppendProperties
<1>3. Len(at) \in Nat /\ DOMAIN path = 1..(Len(at) + 1) /\ DOMAIN at = 1..Len(at)
  BY <1>2
<1>4. ASSUME NEW i \in DOMAIN path, Innermost(path, i) PROVE OwnLabels(labels, SubSeq(path, 1, i))
  <2>1. i \in 1..Len(at)
    BY <1>2, <1>3, <1>4 DEF Innermost
  <2>2. Innermost(at, i)
    BY <1>2, <1>3, <1>4, <2>1 DEF Innermost
  <2>3. SubSeq(path, 1, i) = SubSeq(at, 1, i)
    <3>1. PICK a : a = SubSeq(path, 1, i)
      OBVIOUS
    <3>2. PICK b : b = SubSeq(at, 1, i)
      OBVIOUS
    <3>3. a \in Seq(Key) /\ Len(a) = i /\ \A j \in 1..i : a[j] = path[j]
      BY <1>2, <1>3, <2>1, <3>1
    <3>4. b \in Seq(Key) /\ Len(b) = i /\ \A j \in 1..i : b[j] = at[j]
      BY <1>2, <1>3, <2>1, <3>2
    <3>5. \A j \in 1..i : a[j] = b[j]
      BY <1>2, <1>3, <2>1, <3>3, <3>4
    <3>6. QED BY <3>1, <3>2, <3>3, <3>4, <3>5, SeqEqual
  <2>4. QED BY <1>3, <2>1, <2>2, <2>3 DEF Tells
<1>5. QED BY <1>1, <1>4 DEF Tells

\* A path that ends in a position is that of the member.
LEMMA TellsMember ==
    ASSUME NEW labels, NEW at \in Seq(Key), NEW i \in Positions, i \in Key, OwnLabels(labels, Append(at, i))
    PROVE  Tells(labels, Append(at, i))
<1>1. PICK path : path = Append(at, i)
  OBVIOUS
<1>2. path \in Seq(Key) /\ Len(path) = Len(at) + 1 /\ path[Len(at) + 1] = i
  BY <1>1, AppendProperties
<1>3. Len(at) \in Nat /\ DOMAIN path = 1..(Len(at) + 1)
  BY <1>2
<1>4. ASSUME NEW n \in DOMAIN path, Innermost(path, n) PROVE OwnLabels(labels, SubSeq(path, 1, n))
  <2>1. n = Len(at) + 1
    BY <1>2, <1>3, <1>4 DEF Innermost
  <2>2. SubSeq(path, 1, n) = path
    <3>1. PICK a : a = SubSeq(path, 1, n)
      OBVIOUS
    <3>2. a \in Seq(Key) /\ Len(a) = n /\ \A j \in 1..n : a[j] = path[j]
      BY <1>2, <1>3, <2>1, <3>1
    <3>3. QED BY <1>2, <2>1, <3>1, <3>2, SeqEqual
  <2>3. QED BY <1>1, <2>2
<1>5. QED BY <1>1, <1>4 DEF Tells

-----------------------------------------------------------------------------
(***************************************************************************)
(* The steps of the walk.                                                  *)
(***************************************************************************)

\* The top is one of the maps and arrays being walked, and the others are below it.
LEMMA TopFrame ==
    ASSUME WalkInv, stack # <<>>
    PROVE  /\ FrameInv(Top)
           /\ Tail(stack) \in Seq(Range(Tail(stack)))
           /\ Range(stack) = {Top} \cup Range(Tail(stack))
<1>1. PICK S : S = Range(stack)
  OBVIOUS
<1>2. stack \in Seq(S)
  BY <1>1 DEF WalkInv
<1>3. /\ Len(stack) \in Nat \ {0} /\ DOMAIN stack = 1..Len(stack) /\ Top = stack[1]
      /\ Tail(stack) \in Seq(S) /\ Len(Tail(stack)) = Len(stack) - 1
      /\ \A i \in 1..Len(Tail(stack)) : Tail(stack)[i] = stack[i + 1]
  BY <1>2, HeadTailProperties, EmptySeq DEF Top
<1>4. DOMAIN Tail(stack) = 1..(Len(stack) - 1)
  BY <1>3
<1>5. Range(stack) \subseteq {Top} \cup Range(Tail(stack))
  <2> SUFFICES ASSUME NEW i \in 1..Len(stack), i # 1 PROVE stack[i] \in Range(Tail(stack))
    BY <1>3 DEF Range
  <2>1. i - 1 \in 1..Len(Tail(stack)) /\ (i - 1) + 1 = i
    BY <1>3
  <2>2. Tail(stack)[i - 1] = stack[i]
    BY <1>3, <2>1
  <2>3. QED BY <1>3, <1>4, <2>1, <2>2 DEF Range
<1>6. {Top} \cup Range(Tail(stack)) \subseteq Range(stack)
  <2>1. Top \in Range(stack)
    BY <1>3 DEF Range
  <2>2. ASSUME NEW i \in 1..(Len(stack) - 1) PROVE Tail(stack)[i] \in Range(stack)
    <3>1. i \in 1..Len(Tail(stack)) /\ i + 1 \in 1..Len(stack)
      BY <1>3
    <3>2. QED BY <1>3, <3>1 DEF Range
  <2>3. QED BY <1>4, <2>1, <2>2 DEF Range
<1>7. Tail(stack) \in Seq(Range(Tail(stack)))
  BY <1>3, SeqOfRange
<1>8. QED BY <1>5, <1>6, <1>7 DEF WalkInv

\* What a step hands on: frames and metrics.
Sound(new, made) ==
    /\ new \in Seq(Range(new)) /\ \A f \in Range(new) : FrameInv(f)
    /\ \A m \in made : /\ IsLeaf(m.of) /\ (Valid(m) \/ Unknown(m.of))
                       /\ Valid(m) /\ m.special = 0 /\ m.v1 = 0 => Tells(m.labels, m.of)
Handed(p, new, made) == (\E m \in made : m.of = p /\ Valid(m)) \/ \E f \in Range(new) : Leads(f, p)

\* A step of the walk that serves or hands on what the top leads to keeps the invariant.
LEMMA WalkStep ==
    ASSUME WalkInv, phase = "walk", stack # <<>>, UNCHANGED <<call, answer, doc, phase>>,
           NEW new, NEW made, Sound(new, made),
           stack' = new \o Tail(stack), metrics' = metrics \cup made,
           \A p \in DOMAIN doc : Due(p) /\ Leads(Top, p) => Handed(p, new, made)
    PROVE  WalkInv'
<1>1. /\ FrameInv(Top)
      /\ Tail(stack) \in Seq(Range(Tail(stack)))
      /\ Range(stack) = {Top} \cup Range(Tail(stack))
  BY TopFrame
<1>2. stack' \in Seq(Range(stack')) /\ Range(stack') = Range(new) \cup Range(Tail(stack))
  BY <1>1, Concatenation DEF Sound
<1>3. (stack \in Seq(Range(stack)))'
  BY <1>2
<1>4. \A f : FrameInv(f)' <=> FrameInv(f)
  BY DEF FrameInv, IsList, Keys, Tells, OwnLabels, Told
<1>5. (\A f \in Range(stack) : FrameInv(f))'
  BY <1>1, <1>2, <1>4 DEF Sound, WalkInv
<1>6. (\A m \in metrics : IsLeaf(m.of) \/ IsMap(m.of) \/ m \in Extra)'
  <2>1. Extra' = Extra
    BY DEF Extra
  <2>2. \A path : (IsLeaf(path)' <=> IsLeaf(path)) /\ (IsMap(path)' <=> IsMap(path))
    BY DEF IsLeaf, IsMap, IsList, Keys
  <2>3. QED BY <2>1, <2>2 DEF Sound, WalkInv
<1>7. MembersTold'
  <2>1. Extra' = Extra
    BY DEF Extra
  <2>2. \A labels, path : Tells(labels, path)' <=> Tells(labels, path)
    BY DEF Tells, OwnLabels, Told
  <2>3. QED BY <2>1, <2>2 DEF Sound, WalkInv, MembersTold
<1>8. OneValueEach'
  <2>1. \A path : Unknown(path)' <=> Unknown(path)
    BY DEF Unknown, IsLeaf, IsMap, IsList, Keys
  <2>2. QED BY <2>1 DEF Sound, WalkInv, OneValueEach
<1>9. ASSUME NEW p \in DOMAIN doc, Due(p)
      PROVE  (\E m \in metrics' : m.of = p /\ Valid(m)) \/ \E f \in Range(stack') : Leads(f, p)
  <2>1. CASE Served(p)
    BY <2>1 DEF Served
  <2>2. ASSUME NEW f \in Range(stack), Leads(f, p)
        PROVE  (\E m \in metrics' : m.of = p /\ Valid(m)) \/ \E g \in Range(stack') : Leads(g, p)
    <3>1. CASE f = Top
      <4>1. Handed(p, new, made)
        BY <1>9, <2>2, <3>1
      <4>2. QED BY <1>2, <4>1 DEF Handed
    <3>2. CASE f \in Range(Tail(stack))
      BY <1>2, <2>2, <3>2
    <3>3. QED BY <1>1, <3>1, <3>2
  <2>3. QED BY <1>9, <2>1, <2>2 DEF WalkInv
<1>10. \A p : Due(p)' <=> Due(p)
  BY DEF Due, IsNumber, IsLeaf, InMaps, Wanted, InHistogram
<1>11. QED BY <1>3, <1>5, <1>6, <1>7, <1>8, <1>9, <1>10 DEF WalkInv, Served, Leads

\* Below a key of the map walked.
LEMMA BelowTop ==
    ASSUME DocInv, WalkInv, InMap, NEW k \in Top.left
    PROVE  /\ k \in Key /\ k \notin Positions /\ Path(k) \in Seq(Key)
           /\ PrefixAt(k) \in Seq(PrefixKey)
           /\ LabelsFit(LabelsAt(k), Top.prefix) /\ LabelsFit(LabelsAt(k), PrefixAt(k))
           /\ Histogram(Append(Top.prefix, k)) \/ Histogram(PrefixAt(k)) =>
                 Histogram(call.prefix) \/ Histogram(Path(k))
           /\ Tells(LabelsAt(k), Path(k))
<1>0. IsDocument(doc) /\ stack # <<>> /\ ~IsList(Top.at)
  BY DocIsDocument DEF InMap
<1>1. FrameInv(Top)
  BY <1>0, TopFrame
<1>2. Top.at \in Seq(Key) /\ Top.prefix \in Seq(PrefixKey) /\ k \in Keys(Top.at)
  BY <1>1 DEF FrameInv
<1>3. k \in Key /\ k \notin Positions
  BY <1>0, <1>2, KeysGive, MapKeys
<1>4. Path(k) \in Seq(Key)
  BY <1>2, <1>3, AppendProperties DEF Path
<1>5. k \in PrefixKey /\ "index_name" \in PrefixKey
  BY <1>3 DEF PrefixKey
<1>6. Keyed => Top.prefix \in KeyNodes /\ KeyNodesToLabels[Top.prefix] = "index_name"
  BY DEF Keyed, KeyNodesToLabels
<1>7. PrefixAt(k) \in Seq(PrefixKey)
  BY <1>2, <1>5, <1>6, AppendProperties DEF PrefixAt
<1>8. LabelsFit(LabelsAt(k), Top.prefix)
  <2>1. CASE Keyed
    <3>1. BelowKeyNode(Top.prefix)
      BY <1>2, <1>6, <2>1, PrefixReflexive DEF BelowKeyNode
    <3>2. LabelsFit(Top.labels, Top.prefix)
      BY <1>1 DEF FrameInv
    <3>3. LabelsFit(With(Top.labels, "index_name", k), Top.prefix)
      BY <3>1, <3>2, FitWith DEF RowLabels
    <3>4. QED BY <1>6, <2>1, <3>3 DEF LabelsAt
  <2>2. CASE ~Keyed
    BY <1>1, <2>2 DEF LabelsAt, FrameInv
  <2>3. QED BY <2>1, <2>2
<1>9. LabelsFit(LabelsAt(k), PrefixAt(k))
  <2>1. PICK more \in PrefixKey : PrefixAt(k) = Append(Top.prefix, more)
    BY <1>5, <1>6 DEF PrefixAt
  <2>2. QED BY <1>2, <1>8, <2>1, FitLonger
<1>10. Histogram(Append(Top.prefix, k)) \/ Histogram(PrefixAt(k)) =>
          Histogram(call.prefix) \/ Histogram(Path(k))
  <2>1. Histogram(Append(Top.prefix, k)) => Histogram(Top.prefix) \/ k = "histograms"
    BY <1>2, <1>5, HistogramAppend
  <2>2. Histogram(PrefixAt(k)) => Histogram(Top.prefix) \/ k = "histograms"
    <3>1. CASE Keyed
      <4>1. PrefixAt(k) = Append(Top.prefix, "index_name")
        BY <1>6, <3>1 DEF PrefixAt
      <4>2. Histogram(PrefixAt(k)) => Histogram(Top.prefix) \/ "index_name" = "histograms"
        BY <1>2, <1>5, <4>1, HistogramAppend
      <4>3. QED BY <4>2
    <3>2. CASE ~Keyed
      BY <2>1, <3>2 DEF PrefixAt
    <3>3. QED BY <3>1, <3>2
  <2>3. Histogram(Top.at) \/ k = "histograms" => Histogram(Path(k))
    BY <1>2, <1>3, HistogramAppend DEF Path
  <2>4. QED BY <1>1, <2>1, <2>2, <2>3 DEF FrameInv
<1>11. Tells(LabelsAt(k), Path(k))
  <2>1. Tells(Top.labels, Path(k))
    BY <1>0, <1>1, <1>2, <1>3, TellsBelow DEF FrameInv, Path
  <2>2. KeepsMember(Top.labels, LabelsAt(k))
    <3>1. CASE Keyed
      BY <1>6, <3>1, WithKeepsMember DEF LabelsAt
    <3>2. CASE ~Keyed
      BY <3>2 DEF LabelsAt, KeepsMember
    <3>3. QED BY <3>1, <3>2
  <2>3. QED BY <2>1, <2>2, TellsKept
<1>12. QED BY <1>3, <1>4, <1>7, <1>8, <1>9, <1>10, <1>11

\* A key taken from a map: what it leads to is served, or handed on.
LEMMA TakeStep ==
    ASSUME WalkInv, InMap, NEW k \in Top.left, NEW below, NEW made,
           Take(k, below), metrics' = metrics \cup made, Sound(below, made),
           \A p \in DOMAIN doc : Due(p) /\ p \in Seq(Key) /\ IsPrefix(Path(k), p) => Handed(p, below, made),
           DOMAIN doc \subseteq Seq(Key)
    PROVE  WalkInv'
<1>0. stack # <<>> /\ phase = "walk"
  BY DEF InMap
<1>1. FrameInv(Top)
  BY <1>0, TopFrame
<1>2. PICK rest : rest = [Top EXCEPT !.left = @ \ {k}]
  OBVIOUS
<1>3. /\ DOMAIN rest = {"at", "prefix", "labels", "left"}
      /\ rest.at = Top.at /\ rest.prefix = Top.prefix /\ rest.labels = Top.labels
      /\ rest.left = Top.left \ {k}
  BY <1>1, <1>2 DEF FrameInv
<1>4. FrameInv(rest)
  BY <1>1, <1>3 DEF FrameInv
<1>5. PICK new : new = below \o <<rest>>
  OBVIOUS
<1>6. stack' = new \o Tail(stack) /\ UNCHANGED <<call, answer, doc, phase>>
  BY <1>2, <1>5 DEF Take, Given
<1>7. new \in Seq(Range(new)) /\ Range(new) = Range(below) \cup {rest}
  <2>1. PICK one : one = <<rest>>
    OBVIOUS
  <2>2. one \in Seq(Range(one)) /\ Range(one) = {rest}
    BY <2>1, OneRange
  <2>3. below \in Seq(Range(below)) /\ new = below \o one
    BY <1>5, <2>1 DEF Sound
  <2>4. QED BY <2>2, <2>3, Concatenation
<1>8. Sound(new, made)
  BY <1>4, <1>7 DEF Sound
<1>9. ASSUME NEW p \in DOMAIN doc, Due(p), Leads(Top, p) PROVE Handed(p, new, made)
  <2>1. p \in Seq(Key) /\ Top.at \in Seq(Key)
    BY <1>1 DEF FrameInv
  <2>2. CASE p[Len(Top.at) + 1] = k
    <3>1. IsPrefix(Path(k), p)
      BY <1>9, <2>1, <2>2, StrictStep DEF Leads, Path
    <3>2. Handed(p, below, made)
      BY <1>9, <2>1, <3>1
    <3>3. QED BY <1>7, <3>2 DEF Handed
  <2>3. CASE p[Len(Top.at) + 1] # k
    <3>1. Leads(rest, p)
      BY <1>3, <1>9, <2>3 DEF Leads
    <3>2. QED BY <1>7, <3>1 DEF Handed
  <2>4. QED BY <2>2, <2>3
<1>10. QED BY <1>0, <1>6, <1>8, <1>9, WalkStep

\* Of a histogram nobody asked for, nothing is due.
LEMMA SkipStep ==
    ASSUME DocInv, WalkInv, NEW k \in Top.left, SkipHistogram(k)
    PROVE  WalkInv'
<1>1. InMap /\ Skipped(k) /\ Take(k, <<>>) /\ metrics' = metrics \cup {}
  BY DEF SkipHistogram
<1>2. Sound(<<>>, {})
  BY NoRange DEF Sound
<1>3. DOMAIN doc \subseteq Seq(Key)
  BY DocIsDocument, DocPaths
<1>4. ASSUME NEW p \in DOMAIN doc, Due(p), p \in Seq(Key), IsPrefix(Path(k), p) PROVE FALSE
  <2>1. ~call.histograms /\ IsHistogramPath(Append(Top.prefix, k))
    BY <1>1 DEF Skipped
  <2>2. Append(Top.prefix, k) \in Seq(PrefixKey)
    <3>1. FrameInv(Top) /\ k \in Key
      BY <1>1, TopFrame, BelowTop DEF InMap
    <3>2. QED BY <3>1, AppendProperties DEF FrameInv, PrefixKey
  <2>3. Histogram(call.prefix) \/ Histogram(Path(k))
    BY <1>1, <2>1, <2>2, HistogramPath, BelowTop
  <2>4. InHistogram(p)
    BY <1>1, <1>4, <2>3, BelowTop, HistogramBelow DEF DocInv, FixedInv
  <2>5. QED BY <1>4, <2>1, <2>4 DEF Due, Wanted
<1>5. QED BY <1>1, <1>2, <1>3, <1>4, TakeStep

\* A value is served, under the labels of the map it is in.
LEMMA ValueStep ==
    ASSUME DocInv, WalkInv, NEW k \in Top.left, ServeValue(k)
    PROVE  WalkInv'
<1>1. PICK made : made = AppendMetricValue(Path(k), Top.prefix, k, LabelsAt(k))
  OBVIOUS
<1>2. InMap /\ IsLeaf(Path(k)) /\ Take(k, <<>>) /\ metrics' = metrics \cup made
  BY <1>1 DEF ServeValue
<1>3. IsDocument(doc) /\ DOMAIN doc \subseteq Seq(Key)
  BY DocIsDocument, DocPaths
<1>4. Sound(<<>>, made)
  <2>1. ASSUME NEW m \in made
        PROVE  /\ IsLeaf(m.of) /\ (Valid(m) \/ Unknown(m.of))
               /\ Valid(m) /\ m.special = 0 /\ m.v1 = 0 => Tells(m.labels, m.of)
    <3>1. m.of = Path(k)
      BY <1>1, ValueOf
    <3>4. Top.prefix \in Seq(PrefixKey) /\ LabelsFit(LabelsAt(k), Top.prefix)
      BY <1>2, TopFrame, BelowTop DEF FrameInv, InMap
    <3>5. Valid(m) \/ Unknown(Path(k))
      BY <1>1, <3>4, ValueValid
    <3>2. ASSUME Valid(m), m.special = 0, m.v1 = 0 PROVE Tells(m.labels, Path(k))
      <4>1. LabelsAt(k) \subseteq m.labels
        BY <1>1, <3>2, ValueKeepsLabels
      <4>2. Tells(LabelsAt(k), Path(k))
        BY <1>2, BelowTop
      <4>3. KeepsMember(LabelsAt(k), m.labels)
        BY <4>1 DEF KeepsMember
      <4>4. QED BY <4>2, <4>3, TellsKept
    <3>3. QED BY <1>2, <3>1, <3>2, <3>5
  <2>2. QED BY <2>1, NoRange DEF Sound
<1>5. ASSUME NEW p \in DOMAIN doc, Due(p), p \in Seq(Key), IsPrefix(Path(k), p) PROVE Handed(p, <<>>, made)
  <2>1. p = Path(k)
    BY <1>2, <1>3, <1>5, BelowTop, LeafOrBelow
  <2>2. Top.prefix \in Seq(PrefixKey)
    BY <1>2, TopFrame DEF FrameInv, InMap
  <2>3. LabelsFit(LabelsAt(k), Top.prefix)
    BY <1>2, BelowTop
  <2>4. IsNumber(Path(k))
    BY <1>5, <2>1 DEF Due
  <2>5. \E m \in made : m.of = Path(k) /\ Valid(m)
    BY <1>1, <1>3, <2>2, <2>3, <2>4, ValueServed
  <2>6. QED BY <2>1, <2>5 DEF Handed
<1>6. QED BY <1>2, <1>3, <1>4, <1>5, TakeStep

\* What is in a map is handed on.
LEMMA DescendStep ==
    ASSUME DocInv, WalkInv, NEW k \in Top.left, Descend(k)
    PROVE  WalkInv'
<1>1. PICK frame : frame = Frame(Path(k), PrefixAt(k), LabelsAt(k))
  OBVIOUS
<1>2. /\ InMap /\ (IsMap(Path(k)) \/ IsList(Path(k)))
      /\ Take(k, <<frame>>) /\ metrics' = metrics \cup {}
  BY <1>1 DEF Descend
<1>3. IsDocument(doc) /\ DOMAIN doc \subseteq Seq(Key)
  BY DocIsDocument, DocPaths
<1>4. /\ DOMAIN frame = {"at", "prefix", "labels", "left"}
      /\ frame.at = Path(k) /\ frame.prefix = PrefixAt(k) /\ frame.labels = LabelsAt(k)
      /\ frame.left = Keys(Path(k))
  BY <1>1 DEF Frame
<1>5. FrameInv(frame)
  BY <1>2, <1>4, BelowTop DEF FrameInv
<1>6. Sound(<<frame>>, {})
  BY <1>5, OneRange DEF Sound
<1>7. ASSUME NEW p \in DOMAIN doc, p \in Seq(Key), IsPrefix(Path(k), p) PROVE Handed(p, <<frame>>, {})
  <2>1. ~IsLeaf(Path(k))
    BY <1>2, <1>3, LeafAlone DEF IsMap, IsList
  <2>2. IsStrictPrefix(Path(k), p) /\ p[Len(Path(k)) + 1] \in Keys(Path(k))
    BY <1>2, <1>3, <1>7, <2>1, BelowTop, LeafOrBelow
  <2>3. Leads(frame, p)
    BY <1>4, <2>2 DEF Leads
  <2>4. QED BY <2>3, OneRange DEF Handed
<1>8. QED BY <1>2, <1>3, <1>6, <1>7, TakeStep

\* Of a histogram the counts are served.
LEMMA BucketsStep ==
    ASSUME DocInv, WalkInv, NEW k \in Top.left, ServeBuckets(k)
    PROVE  WalkInv'
<1>1. PICK made : made = ProcessHistogramSlice(Path(k), PrefixAt(k), LabelsAt(k))
  OBVIOUS
<1>2. /\ InMap /\ IsList(Path(k)) /\ IsHistogramBucketSlice(Path(k), PrefixAt(k))
      /\ Take(k, <<>>) /\ metrics' = metrics \cup made
  BY <1>1 DEF ServeBuckets
<1>3. IsDocument(doc) /\ DOMAIN doc \subseteq Seq(Key)
  BY DocIsDocument, DocPaths
<1>4. PICK path \in Seq(Key) : path = Path(k)
  BY <1>2, BelowTop
<1>5. ASSUME NEW i \in Keys(path)
      PROVE  /\ i \in Key /\ i \in Positions /\ Append(path, i) \in Seq(Key)
             /\ Keys(Append(path, i)) = {"lowerBound", "count"}
             /\ \A key \in {"lowerBound", "count"} : Append(Append(path, i), key) \in DOMAIN doc
             /\ Bucket(path, i, "count") = Append(Append(path, i), "count")
  <2>1. i \in Key /\ i \in Positions
    BY <1>2, <1>3, <1>4, <1>5, KeysGive DEF IsList
  <2>2. PICK at : at = Append(path, i)
    OBVIOUS
  <2>3. at \in Seq(Key) /\ Len(at) = Len(path) + 1 /\ at[Len(path) + 1] = i
    BY <2>1, <2>2, AppendProperties
  <2>4. {"lowerBound", "count"} \subseteq Keys(at)
    BY <1>2, <1>4, <1>5, <2>2 DEF IsHistogramBucketSlice
  <2>5. PICK p \in DOMAIN doc : IsStrictPrefix(at, p)
    BY <2>4 DEF Keys, KeysIn
  <2>6. p \in Seq(Key) /\ Len(at) < Len(p) /\ IsPrefix(at, p)
    BY <1>3, <2>3, <2>5, StrictStep DEF IsStrictPrefix
  <2>7. SubSeq(p, 1, Len(at)) = at /\ Len(at) \in 1..(Len(p) - 1) /\ p[Len(at)] = i
    BY <2>3, <2>6, PrefixGives DEF IsPrefix
  <2>8. /\ KeysIn(doc, at) = {"lowerBound", "count"}
        /\ \A key \in KeysIn(doc, at) : Append(at, key) \in DOMAIN doc
    BY <1>3, <2>1, <2>4, <2>7 DEF IsDocument, Keys
  <2>9. "count" \in Key
    <3>1. "count" \in Keys(at)
      BY <2>4
    <3>2. QED BY <1>3, <2>3, <3>1, KeysGive
  <2>10. path \o <<i, "count">> = Append(Append(path, i), "count")
    BY <2>1, <2>9
  <2>11. QED BY <2>1, <2>2, <2>3, <2>8, <2>10 DEF Keys, Bucket
<1>6. "lower_bound" \notin PDLabels \cup RowLabels /\ "lower_bound" \notin {"member_idx", "member_state"}
  BY PDLabelsAre DEF RowLabels
<1>7. Sound(<<>>, made)
  <2>1. ASSUME NEW m \in made
        PROVE  /\ IsLeaf(m.of) /\ (Valid(m) \/ Unknown(m.of))
               /\ Valid(m) /\ m.special = 0 /\ m.v1 = 0 => Tells(m.labels, m.of)
    <3>1. PICK i \in Keys(path) :
              m \in AppendMetricValue(Bucket(path, i, "count"), PrefixAt(k), "count",
                                      With(LabelsAt(k), "lower_bound", doc[Bucket(path, i, "lowerBound")]))
      BY <1>1, <1>4, <2>1 DEF ProcessHistogramSlice
    <3>2. m.of = Append(Append(path, i), "count") /\ IsLeaf(m.of)
      <4>1. m.of = Bucket(path, i, "count")
        BY <3>1, ValueOf
      <4>2. QED BY <1>5, <4>1 DEF IsLeaf
    <3>3. Valid(m) \/ Unknown(m.of)
      <4>1. PICK labels : labels = With(LabelsAt(k), "lower_bound", doc[Bucket(path, i, "lowerBound")])
        OBVIOUS
      <4>2. LabelsFit(labels, PrefixAt(k)) /\ PrefixAt(k) \in Seq(PrefixKey)
        BY <1>2, <1>6, <4>1, BelowTop, FitWith
      <4>3. m \in AppendMetricValue(m.of, PrefixAt(k), "count", labels)
        BY <3>1, <4>1, ValueOf
      <4>4. QED BY <4>2, <4>3, ValueValid
    <3>4. OwnLabels(m.labels, Append(path, i))
      <4>1. ASSUME NEW key \in {"host", "name", "stateStr"}, Told(Append(path, i), key) PROVE FALSE
        <5>1. PICK at \in Seq(Key) : at = Append(path, i)
          BY <1>5
        <5>2. PICK p : p = Append(at, key)
          OBVIOUS
        <5>3. p \in DOMAIN doc
          BY <4>1, <5>1, <5>2 DEF Told
        <5>4. PICK U : U = Key \cup {key}
          OBVIOUS
        <5>5. at \in Seq(U) /\ key \in U
          BY <5>4, SeqMonotonic
        <5>6. IsStrictPrefix(at, p) /\ p[Len(at) + 1] = key
          BY <5>2, <5>5, PrefixAppend, AppendProperties
        <5>7. key \in Keys(at)
          BY <5>3, <5>6 DEF Keys, KeysIn
        <5>8. QED BY <1>5, <5>1, <5>7
      <4>2. QED BY <4>1 DEF OwnLabels
    <3>5. Tells(m.labels, Append(path, i))
      BY <1>5, <3>4, TellsMember
    <3>6. "count" \in Key /\ "count" \notin Positions
      <4>1. PICK at \in Seq(Key) : at = Append(path, i)
        BY <1>5
      <4>2. "count" \in Keys(at)
        BY <1>5, <4>1
      <4>3. QED BY <1>3, <4>1, <4>2, KeysGive, MetricTreeAssumption
    <3>7. PICK at \in Seq(Key) : at = Append(path, i)
      BY <1>5
    <3>8. Tells(m.labels, at)
      BY <3>5, <3>7
    <3>9. Tells(m.labels, Append(at, "count"))
      BY <3>6, <3>8, TellsBelow
    <3>10. QED BY <3>2, <3>3, <3>7, <3>9
  <2>2. QED BY <2>1, NoRange DEF Sound
<1>8. ASSUME NEW p \in DOMAIN doc, Due(p), p \in Seq(Key), IsPrefix(Path(k), p) PROVE Handed(p, <<>>, made)
  <2>1. ~IsLeaf(path)
    BY <1>2, <1>3, <1>4, LeafAlone DEF IsList
  <2>2. PICK i \in Keys(path) : IsStrictPrefix(path, p) /\ i = p[Len(path) + 1]
    BY <1>3, <1>4, <1>8, <2>1, LeafOrBelow
  <2>3. PICK at \in Seq(Key) : at = Append(path, i)
    BY <1>5
  <2>4. IsPrefix(at, p)
    BY <1>8, <2>2, <2>3, StrictStep
  <2>5. IsStrictPrefix(at, p) /\ p[Len(at) + 1] \in {"lowerBound", "count"}
    BY <1>3, <1>5, <1>8, <2>2, <2>3, <2>4, MemberIsMap DEF Due
  <2>6. PICK key \in Key : key = p[Len(at) + 1] /\ IsPrefix(Append(at, key), p) /\ Len(at) < Len(p)
    BY <1>8, <2>5, StrictStep
  <2>7. Append(at, key) \in DOMAIN doc
    BY <1>5, <2>3, <2>5, <2>6
  <2>8. p = Append(at, key)
    BY <1>3, <1>8, <2>6, <2>7, LeafOrBelow, AppendProperties DEF IsLeaf
  <2>9. InHistogram(p)
    <3>1. Histogram(PrefixAt(k))
      BY <1>2, BelowTop, HistogramPath DEF IsHistogramBucketSlice
    <3>2. Histogram(call.prefix) \/ Histogram(path)
      BY <1>2, <1>4, <3>1, BelowTop
    <3>3. QED BY <1>4, <1>8, <3>2, HistogramBelow DEF DocInv, FixedInv
  <2>10. key = "count"
    <3>1. p[Len(p)] = key
      BY <2>6, <2>8, AppendProperties
    <3>2. QED BY <1>8, <2>9, <3>1 DEF Due, Wanted
  <2>11. p = Bucket(path, i, "count")
    BY <1>5, <2>3, <2>8, <2>10
  <2>12. PICK labels : labels = With(LabelsAt(k), "lower_bound", doc[Bucket(path, i, "lowerBound")])
    OBVIOUS
  <2>13. LabelsFit(labels, PrefixAt(k)) /\ PrefixAt(k) \in Seq(PrefixKey)
    BY <1>2, <1>6, <2>12, BelowTop, FitWith
  <2>14. \E m \in AppendMetricValue(p, PrefixAt(k), "count", labels) : m.of = p /\ Valid(m)
    BY <1>3, <1>8, <2>13, ValueServed DEF Due
  <2>15. AppendMetricValue(p, PrefixAt(k), "count", labels) \subseteq made
    BY <1>1, <1>4, <2>11, <2>12 DEF ProcessHistogramSlice
  <2>16. QED BY <2>14, <2>15 DEF Handed
<1>9. QED BY <1>2, <1>3, <1>4, <1>7, <1>8, TakeStep

\* A member that is a map is handed on; of one that is none, nothing is due.
LEMMA MemberStep ==
    ASSUME DocInv, WalkInv, NextMember
    PROVE  WalkInv'
<1>1. PICK i : i = First(Top.left)
  OBVIOUS
<1>2. PICK labels : labels = Identify(Top.labels, Path(i))
  OBVIOUS
<1>3. PICK list : list = [Top EXCEPT !.left = @ \ {i}, !.labels = labels]
  OBVIOUS
<1>4. PICK skipped : skipped = [list EXCEPT !.labels = Top.labels]
  OBVIOUS
<1>5. PICK member : member = Frame(Path(i), Top.prefix, labels)
  OBVIOUS
<1>6. /\ phase = "walk" /\ stack # <<>> /\ IsList(Top.at) /\ Top.left # {}
      /\ UNCHANGED <<call, answer, doc, phase>> /\ metrics' = metrics \cup {}
  BY DEF NextMember, InList, Given
<1>7. stack' = IF IsMap(Path(i)) THEN <<member, list>> \o Tail(stack) ELSE <<skipped>> \o Tail(stack)
  BY <1>1, <1>2, <1>3, <1>4, <1>5 DEF NextMember
<1>8. IsDocument(doc) /\ DOMAIN doc \subseteq Seq(Key)
  BY DocIsDocument, DocPaths
<1>9. FrameInv(Top)
  BY <1>6, TopFrame
<1>10. Top.at \in Seq(Key) /\ Top.left \subseteq Keys(Top.at) /\ Top.left \subseteq Positions
  BY <1>6, <1>9 DEF FrameInv, IsList
<1>11. i \in Top.left /\ i \in Key /\ i \in Positions
  <2>1. i \in Top.left
    BY <1>1, <1>6, <1>10, FirstLeft
  <2>2. QED BY <1>8, <1>10, <2>1, KeysGive
<1>12. PICK path \in Seq(Key) : path = Path(i) /\ path = Append(Top.at, i)
  BY <1>10, <1>11, AppendProperties DEF Path
<1>13. LabelsFit(labels, Top.prefix) /\ OwnLabels(labels, path)
  BY <1>2, <1>9, <1>12, IdentifyFits, IdentifyOwn DEF FrameInv
<1>14. Tells(labels, path)
  BY <1>10, <1>11, <1>12, <1>13, TellsMember
<1>15. /\ DOMAIN list = {"at", "prefix", "labels", "left"}
       /\ list.at = Top.at /\ list.prefix = Top.prefix /\ list.labels = labels /\ list.left = Top.left \ {i}
  BY <1>3, <1>9 DEF FrameInv
<1>16. /\ DOMAIN skipped = {"at", "prefix", "labels", "left"}
       /\ skipped.at = Top.at /\ skipped.prefix = Top.prefix
       /\ skipped.labels = Top.labels /\ skipped.left = Top.left \ {i}
  BY <1>4, <1>15
<1>17. FrameInv(list) /\ FrameInv(skipped)
  BY <1>6, <1>9, <1>13, <1>15, <1>16 DEF FrameInv
<1>18. /\ DOMAIN member = {"at", "prefix", "labels", "left"}
       /\ member.at = path /\ member.prefix = Top.prefix /\ member.labels = labels /\ member.left = Keys(path)
  BY <1>5, <1>12 DEF Frame
<1>19. FrameInv(member)
  <2>1. Histogram(Top.at) => Histogram(path)
    BY <1>10, <1>11, <1>12, HistogramAppend
  <2>2. QED BY <1>9, <1>13, <1>14, <1>18, <2>1 DEF FrameInv
<1>20. ASSUME NEW p \in DOMAIN doc, Due(p), Leads(Top, p)
       PROVE  IF p[Len(Top.at) + 1] = i THEN IsMap(path) /\ Leads(member, p)
              ELSE Leads(list, p) /\ Leads(skipped, p)
  <2>1. p \in Seq(Key)
    BY <1>8
  <2>2. CASE p[Len(Top.at) + 1] = i
    <3>1. IsPrefix(path, p)
      BY <1>10, <1>12, <1>20, <2>1, <2>2, StrictStep DEF Leads
    <3>2. IsMap(path) /\ IsStrictPrefix(path, p) /\ p[Len(path) + 1] \in Keys(path)
      BY <1>8, <1>10, <1>11, <1>12, <1>20, <3>1, MemberIsMap DEF Due
    <3>3. QED BY <1>18, <2>2, <3>2 DEF Leads
  <2>3. CASE p[Len(Top.at) + 1] # i
    BY <1>15, <1>16, <1>20, <2>3 DEF Leads
  <2>4. QED BY <2>2, <2>3
<1>21. CASE IsMap(path)
  <2>1. PICK new : new = <<member, list>>
    OBVIOUS
  <2>2. new \in Seq(Range(new)) /\ Range(new) = {member, list}
    <3>1. <<member, list>> \in Seq({member, list})
      OBVIOUS
    <3>2. new \in Seq({member, list}) /\ Len(new) = 2 /\ new[1] = member /\ new[2] = list
      BY <2>1, <3>1
    <3>3. DOMAIN new = {1, 2}
      BY <3>2
    <3>4. Range(new) = {member, list}
      BY <3>2, <3>3 DEF Range
    <3>5. QED BY <3>2, <3>4
  <2>3. Sound(new, {})
    BY <1>17, <1>19, <2>2 DEF Sound
  <2>4. stack' = new \o Tail(stack)
    BY <1>7, <1>12, <1>21, <2>1
  <2>5. \A p \in DOMAIN doc : Due(p) /\ Leads(Top, p) => Handed(p, new, {})
    BY <1>20, <2>2 DEF Handed
  <2>6. QED BY <1>6, <2>3, <2>4, <2>5, WalkStep
<1>22. CASE ~IsMap(path)
  <2>1. PICK new : new = <<skipped>>
    OBVIOUS
  <2>2. new \in Seq(Range(new)) /\ Range(new) = {skipped}
    BY <2>1, OneRange
  <2>3. Sound(new, {})
    BY <1>17, <2>2 DEF Sound
  <2>4. stack' = new \o Tail(stack)
    BY <1>7, <1>12, <1>22, <2>1
  <2>5. \A p \in DOMAIN doc : Due(p) /\ Leads(Top, p) => Handed(p, new, {})
    BY <1>20, <1>22, <2>2 DEF Handed
  <2>6. QED BY <1>6, <2>3, <2>4, <2>5, WalkStep
<1>23. QED BY <1>21, <1>22

\* A map or an array with nothing left leads to nothing.
LEMMA ReturnStep ==
    ASSUME DocInv, WalkInv, Return
    PROVE  WalkInv'
<1>1. /\ phase = "walk" /\ stack # <<>> /\ Top.left = {}
      /\ UNCHANGED <<call, answer, doc, phase>> /\ metrics' = metrics \cup {} /\ stack' = Tail(stack)
  BY DEF Return, Given
<1>2. PICK new : new = <<>>
  OBVIOUS
<1>3. Sound(new, {})
  BY <1>2, NoRange DEF Sound
<1>4. stack' = new \o Tail(stack)
  <2>1. Tail(stack) \in Seq(Range(Tail(stack)))
    BY <1>1, TopFrame
  <2>2. QED BY <1>1, <1>2, <2>1, ConcatEmptySeq
<1>5. \A p \in DOMAIN doc : Due(p) /\ Leads(Top, p) => Handed(p, new, {})
  BY <1>1 DEF Leads
<1>6. QED BY <1>1, <1>3, <1>4, <1>5, WalkStep

\* What is read is all that is left.
LEMMA ReadStep ==
    ASSUME DocInv, WalkInv, Read, DocInv'
    PROVE  WalkInv'
<1>1. PICK frame : frame = [Frame(<<>>, call.prefix, call.labels) EXCEPT !.left = KeysIn(doc', <<>>)]
  OBVIOUS
<1>2. stack' = <<frame>> /\ phase' = "walk" /\ UNCHANGED <<call, answer, metrics>> /\ metrics = {}
  BY <1>1 DEF Read, Given, DocInv
<1>3. /\ DOMAIN frame = {"at", "prefix", "labels", "left"}
      /\ frame.at = <<>> /\ frame.prefix = call.prefix /\ frame.labels = call.labels
      /\ frame.left = KeysIn(doc', <<>>)
  BY <1>1 DEF Frame
<1>4. stack' \in Seq(Range(stack')) /\ Range(stack') = {frame}
  BY <1>2, OneRange
<1>5. FrameInv(frame)'
  <2>1. frame.at \in Seq(Key) /\ DOMAIN frame.at = {}
    BY <1>3
  <2>2. frame.prefix \in Seq(PrefixKey)
    BY <1>3, SeqMonotonic DEF PrefixKey, DocInv, FixedInv
  <2>3. LabelsFit(frame.labels, frame.prefix)
    BY <1>3 DEF LabelsFit, DocInv, FixedInv, WalkLabels
  <2>4. Tells(frame.labels, frame.at)'
    BY <2>1 DEF Tells
  <2>5. Keys(frame.at)' = frame.left
    BY <1>3 DEF Keys
  <2>6. call' = call
    BY <1>2
  <2>7. QED BY <1>3, <2>1, <2>2, <2>3, <2>4, <2>5, <2>6 DEF FrameInv
<1>6. ASSUME NEW p \in DOMAIN doc' PROVE Leads(frame, p)
  <2>1. p \in Seq(Key) /\ p # <<>>
    <3>1. IsDocument(doc)'
      BY DocIsDocument, PTL
    <3>2. QED BY <3>1 DEF IsDocument
  <2>2. IsStrictPrefix(<<>>, p)
    <3>0. <<>> \in Seq(Key) /\ Len(<<>>) = 0
      BY EmptySeq
    <3>1. PICK none \in Seq(Key) : none = <<>> /\ Len(none) = 0
      BY <3>0
    <3>2. IsPrefix(none, p)
      <4>1. Len(none) <= Len(p) /\ \A i \in 1..Len(none) : none[i] = p[i]
        BY <2>1, <3>1
      <4>2. QED BY <2>1, <4>1, PrefixFrom
    <3>3. QED BY <2>1, <3>1, <3>2 DEF IsStrictPrefix
  <2>3. QED BY <1>3, <1>6, <2>2 DEF Leads, KeysIn
<1>7. (\A p \in DOMAIN doc : Due(p) => Served(p) \/ (phase = "walk" /\ \E f \in Range(stack) : Leads(f, p)))'
  BY <1>2, <1>4, <1>6 DEF Leads
<1>8. QED BY <1>2, <1>4, <1>5, <1>7 DEF WalkInv, MembersTold, OneValueEach

\* The collector's own metrics are apart from those of the walk.
LEMMA ExtraStep ==
    ASSUME WalkInv, phase # "read", phase' # "read", UNCHANGED <<call, answer, doc, stack>>,
           NEW made \in SUBSET Extra, metrics' = metrics \cup made,
           phase = "walk" => stack = <<>>
    PROVE  WalkInv'
<1>1. Extra' = Extra
  BY DEF Extra
<1>2. \A f : FrameInv(f)' <=> FrameInv(f)
  BY DEF FrameInv, IsList, Keys, Tells, OwnLabels, Told
<1>3. (stack \in Seq(Range(stack)))' /\ (\A f \in Range(stack) : FrameInv(f))'
  BY <1>2 DEF WalkInv
<1>4. (\A m \in metrics : IsLeaf(m.of) \/ IsMap(m.of) \/ m \in Extra)'
  <2>1. \A path : (IsLeaf(path)' <=> IsLeaf(path)) /\ (IsMap(path)' <=> IsMap(path))
    BY DEF IsLeaf, IsMap, IsList, Keys
  <2>2. QED BY <1>1, <2>1 DEF WalkInv
<1>5. MembersTold'
  <2>1. \A labels, path : Tells(labels, path)' <=> Tells(labels, path)
    BY DEF Tells, OwnLabels, Told
  <2>2. QED BY <1>1, <2>1 DEF WalkInv, MembersTold
<1>6. OneValueEach'
  <2>1. \A path : Unknown(path)' <=> Unknown(path)
    BY DEF Unknown, IsLeaf, IsMap, IsList, Keys
  <2>2. \A m \in Extra : Valid(m)
    BY DEF Extra, MakeLockMetric, SumMetric, Valid
  <2>3. QED BY <2>1, <2>2 DEF WalkInv, OneValueEach
<1>7. \A p : Due(p)' <=> Due(p)
  BY DEF Due, IsNumber, IsLeaf, InMaps, Wanted, InHistogram
<1>8. \A p \in DOMAIN doc : Due(p) => Served(p)
  <2>1. phase = "walk" => Range(stack) = {}
    BY NoRange
  <2>2. QED BY <2>1 DEF WalkInv
<1>9. \A p : Served(p) => Served(p)'
  BY DEF Served
<1>10. QED BY <1>3, <1>4, <1>5, <1>6, <1>7, <1>8, <1>9 DEF WalkInv

\* Every step keeps what holds of the walk.
LEMMA NextWalk == DocInv /\ WalkInv /\ [Next]_vars => WalkInv'
<1> SUFFICES ASSUME DocInv, WalkInv, Next \/ UNCHANGED vars PROVE WalkInv'
  OBVIOUS
<1>1. CASE Read
  <2>1. DocInv'
    BY DocStep
  <2>2. QED BY <1>1, <2>1, ReadStep
<1>2. CASE NextMember
  BY <1>2, MemberStep
<1>3. CASE Return
  BY <1>3, ReturnStep
<1>4. CASE Walked
  <2>1. /\ phase = "walk" /\ stack = <<>> /\ phase' # "read" /\ UNCHANGED <<call, answer, doc, stack>>
        /\ metrics' = metrics \cup {}
    BY <1>4 DEF Walked, Given
  <2>2. QED BY <2>1, ExtraStep
<1>5. CASE Locks
  <2>1. PICK made : made = {MakeLockMetric(lock) : lock \in {lock \in LockMetrics : IsNumber(lock.path)}}
    OBVIOUS
  <2>2. /\ phase = "locks" /\ phase' # "read" /\ UNCHANGED <<call, answer, doc, stack>>
        /\ metrics' = metrics \cup made
    BY <1>5, <2>1 DEF Locks, Given
  <2>3. made \in SUBSET Extra
    BY <2>1 DEF Extra
  <2>4. QED BY <2>2, <2>3, ExtraStep
<1>6. CASE Sums
  <2>1. PICK made : made = {SumMetric(sum) : sum \in {sum \in {GlobalLockWaits, CacheEvicted} : ~SumFails(sum)}}
    OBVIOUS
  <2>2. /\ phase = "sums" /\ phase' # "read" /\ UNCHANGED <<call, answer, doc, stack>>
        /\ metrics' = metrics \cup made
    BY <1>6, <2>1 DEF Sums, Given
  <2>3. made \in SUBSET Extra
    BY <2>1 DEF Extra
  <2>4. QED BY <2>2, <2>3, ExtraStep
<1>7. ASSUME NEW k \in IF stack = <<>> THEN {} ELSE Top.left,
             SkipHistogram(k) \/ ServeValue(k) \/ ServeBuckets(k) \/ Descend(k)
      PROVE  WalkInv'
  <2>1. k \in Top.left
    OBVIOUS
  <2>2. QED BY <1>7, <2>1, SkipStep, ValueStep, BucketsStep, DescendStep
<1>8. CASE UNCHANGED vars
  <2>1. /\ \A f : FrameInv(f)' <=> FrameInv(f)
        /\ Extra' = Extra /\ (MembersTold' <=> MembersTold) /\ (OneValueEach' <=> OneValueEach)
        /\ \A p : (IsLeaf(p)' <=> IsLeaf(p)) /\ (IsMap(p)' <=> IsMap(p))
        /\ \A p : (Due(p)' <=> Due(p)) /\ (Served(p)' <=> Served(p))
        /\ UNCHANGED <<stack, metrics, phase, doc>>
    <3>1. UNCHANGED <<call, answer, doc, phase, stack, metrics>>
      BY <1>8 DEF vars
    <3>2. \A labels, path : Tells(labels, path)' <=> Tells(labels, path)
      BY <3>1 DEF Tells, OwnLabels, Told
    <3>3. \A path : (IsList(path)' <=> IsList(path)) /\ Keys(path)' = Keys(path)
      BY <3>1 DEF IsList, Keys
    <3>4. \A f : FrameInv(f)' <=> FrameInv(f)
      BY <3>1, <3>2, <3>3 DEF FrameInv
    <3>5. Extra' = Extra
      BY DEF Extra
    <3>6. MembersTold' <=> MembersTold
      BY <3>1, <3>2, <3>5 DEF MembersTold
    <3>7. \A p : (IsLeaf(p)' <=> IsLeaf(p)) /\ (IsMap(p)' <=> IsMap(p))
      BY <3>1, <3>3 DEF IsLeaf, IsMap
    <3>8. \A p : (Due(p)' <=> Due(p)) /\ (Served(p)' <=> Served(p))
      BY <3>1 DEF Due, IsNumber, IsLeaf, InMaps, Wanted, InHistogram, Served
    <3>9. OneValueEach' <=> OneValueEach
      BY <3>1, <3>7 DEF OneValueEach, Unknown
    <3>10. QED BY <3>1, <3>4, <3>5, <3>6, <3>7, <3>8, <3>9
  <2>2. QED BY <2>1 DEF WalkInv, Leads
<1>9. CASE Ended
  BY <1>8, <1>9 DEF Ended
<1>10. QED BY <1>1, <1>2, <1>3, <1>4, <1>5, <1>6, <1>7, <1>8, <1>9 DEF Next

\* It holds at first.
LEMMA InitWalk == Init => WalkInv
<1> SUFFICES ASSUME Init PROVE WalkInv
  OBVIOUS
<1>1. stack = <<>> /\ metrics = {} /\ phase = "read"
  BY DEF Init
<1>2. QED BY <1>1, NoRange DEF WalkInv, MembersTold, OneValueEach

\* What holds of every reachable state.
Inv == DocInv /\ WalkInv

\* The invariant holds in every reachable state.
THEOREM InvHolds == Spec => []Inv
<1>1. Init => Inv
  BY InitDoc, InitWalk DEF Inv
<1>2. Inv /\ [Next]_vars => Inv'
  BY DocStep, NextWalk DEF Inv
<1>3. QED BY <1>1, <1>2, PTL DEF Spec

\* The metrics are of values of the document walked or the collector's own, and what is left of a
\* map or an array are keys of it.
THEOREM TypeCorrect == Spec => []TypeOK
<1>1. Inv => TypeOK
  <2> SUFFICES ASSUME Inv PROVE TypeOK
    OBVIOUS
  <2>1. DocInv /\ WalkInv
    BY DEF Inv
  <2>2. ASSUME NEW i \in DOMAIN stack PROVE stack[i].left \subseteq Keys(stack[i].at)
    <3>1. stack[i] \in Range(stack)
      BY DEF Range
    <3>2. QED BY <2>1, <3>1 DEF WalkInv, FrameInv
  <2>3. QED BY <2>1, <2>2 DEF TypeOK, DocInv, WalkInv
<1>2. QED BY <1>1, InvHolds, PTL

\* A metric of a member of an array bears that member's own name and state.
THEOREM MembersToldCorrect == Spec => []MembersTold
<1>1. Inv => MembersTold
  BY DEF Inv, WalkInv
<1>2. QED BY <1>1, InvHolds, PTL

\* However deep the labels are handed down and whatever rows make of them, no metric is refused for
\* two values of a label.
THEOREM OneValueEachCorrect == Spec => []OneValueEach
<1>1. Inv => OneValueEach
  BY DEF Inv, WalkInv
<1>2. QED BY <1>1, InvHolds, PTL

\* The value of a key that one block has is the same in the document walked.
LEMMA OneBlockWalked ==
    ASSUME DocInv, phase # "read", NEW q \in DOMAIN answer, OfOneBlock(q)
    PROVE  WalkedPath(q) \in DOMAIN doc /\ doc[WalkedPath(q)] = answer[q]
<1>1. CASE ~IsSplit
  BY <1>1 DEF DocInv, WalkedPath
<1>2. CASE IsSplit
  <2>1. doc \in Merged(answer) /\ IsDocument(answer)
    BY <1>2 DEF DocInv, FixedInv
  <2>2. PICK f : FromBlocks(doc, answer, f)
    BY <2>1, MergedIs
  <2>3. Len(q) > 1 /\ \A p \in DOMAIN answer : (Len(p) > 1 /\ p[2] = q[2]) => p[1] = q[1]
    BY <1>2 DEF OfOneBlock
  <2>4. PICK block : block = f[q[2]]
    OBVIOUS
  <2>5. q[2] \in KeysIn(answer, <<block>>)
    BY <2>2, <2>3, <2>4 DEF FromBlocks
  <2>6. PICK p \in DOMAIN answer : IsStrictPrefix(<<block>>, p) /\ q[2] = p[2]
    <3>1. Len(<<block>>) + 1 = 2
      OBVIOUS
    <3>2. QED BY <2>5, <3>1 DEF KeysIn
  <2>7. p \in Seq(Key) /\ Len(p) > 1 /\ p[1] = block
    <3>1. p \in Seq(Key)
      BY <2>1 DEF IsDocument
    <3>2. PICK U : U = Key \cup {block}
      OBVIOUS
    <3>3. PICK at : at = <<block>>
      OBVIOUS
    <3>4. at \in Seq(U) /\ p \in Seq(U) /\ Len(at) = 1 /\ at[1] = block /\ IsStrictPrefix(at, p)
      BY <2>6, <3>1, <3>2, <3>3, SeqMonotonic
    <3>5. IsPrefix(at, p)
      BY <3>4 DEF IsStrictPrefix
    <3>6. Len(at) < Len(p)
      BY <3>4, StrictStep
    <3>7. 1 \in 1..Len(at)
      BY <3>4
    <3>8. at[1] = p[1]
      BY <3>4, <3>5, <3>7, PrefixGives
    <3>9. QED BY <3>1, <3>4, <3>6, <3>8
  <2>8. f[q[2]] = q[1]
    BY <2>3, <2>4, <2>6, <2>7
  <2>9. QED BY <1>2, <2>2, <2>3, <2>8 DEF WalkedPath, FromBlocks
<1>3. QED BY <1>1, <1>2

\* Whatever the document, its blocks and the order its maps are walked in, every number in it is
\* served.
THEOREM EveryNumberServedCorrect == Spec => []EveryNumberServed
<1>1. Inv => EveryNumberServed
  <2> SUFFICES ASSUME Inv, phase = "end", NEW q \in DOMAIN answer,
                      answer[q] \notin Texts \cup Odd, OfOneBlock(q), InMaps(WalkedPath(q)), Wanted(WalkedPath(q))
               PROVE  \E m \in metrics : m.of = WalkedPath(q) /\ Valid(m)
    BY DEF EveryNumberServed
  <2>1. PICK path : path = WalkedPath(q)
    OBVIOUS
  <2>2. path \in DOMAIN doc /\ doc[path] = answer[q]
    BY <2>1, OneBlockWalked DEF Inv
  <2>3. Due(path)
    BY <2>1, <2>2 DEF Due, IsNumber, IsLeaf
  <2>4. Served(path)
    BY <2>2, <2>3 DEF Inv, WalkInv
  <2>5. QED BY <2>1, <2>4 DEF Served
<1>2. QED BY <1>1, InvHolds, PTL
==============================================================================
