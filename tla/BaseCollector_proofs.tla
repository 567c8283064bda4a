------------------------ MODULE BaseCollector_proofs ------------------------
(***************************************************************************)
(* For any collectors, metrics and bounds: the response holds what was     *)
(* collected, and what it lacks it lacks for want of time.                 *)
(***************************************************************************)
EXTENDS BaseCollector, SequenceTheorems, TLAPS

\* What a collector sends.
Series == Seq(Metrics \cup {Time})

\* The types the other parts rest on.
ShapeInv ==
    /\ client \in BOOLEAN /\ expired \in BOOLEAN /\ refused \in BOOLEAN
    /\ main \in {"register", "gather", "panic"}
    /\ waiting \subseteq Collectors /\ current \in Collectors \cup {None}
    /\ desc \in {"none", "enter", "receive", "send", "closed"}
    /\ held \in Metrics \cup {Time, None} /\ (desc = "send" => held # None)
    /\ descs \in Series /\ Len(descs) <= DescBuffer
    /\ coll \in {"none", "collect", "closed"}
    /\ sent \in [Collectors -> Series]
    /\ replayed \in [Collectors -> Series]

\* Where the goroutines of one registration are, relative to each other.
PhaseInv ==
    /\ desc = "none" <=> current = None
    /\ desc \in {"none", "enter"} => coll = "none"
    /\ coll = "collect" => desc \in {"receive", "send"}
    /\ desc \in {"receive", "send"} => coll # "none"
    /\ main # "register" => current = None
    /\ main = "gather" => waiting = {}
    /\ current \notin waiting

\* The cache is what has been sent: a collector is registered once in a scrape, and what it
\* cached in an earlier one is not its own.
CacheInv ==
    /\ cache = sent
    /\ \A c \in waiting : sent[c] = <<>>
    /\ desc = "enter" => sent[current] = <<>>

\* What Collect has sent is the beginning of the cache.
ReplayInv ==
    /\ main = "register" => replayed = Empty
    /\ \A c \in Collectors :
          /\ Len(replayed[c]) <= Len(cache[c])
          /\ \A i \in 1..Len(replayed[c]) : replayed[c][i] = cache[c][i]

\* A collector that is done has sent something, or there were a client and no time.
DoneInv ==
    /\ coll = "closed" => sent[current] # <<>>
    /\ desc = "closed" => sent[current] # <<>> \/ (client /\ expired)
    /\ \A c \in Collectors \ waiting :
          c # current /\ main # "panic" => sent[c] # <<>> \/ (client /\ expired)

\* The inductive invariant.
BaseInv == ShapeInv /\ PhaseInv /\ CacheInv /\ ReplayInv /\ DoneInv

-----------------------------------------------------------------------------

\* It holds at first.
LEMMA InitInv == Init => BaseInv
PROOF
  <1> SUFFICES ASSUME Init PROVE BaseInv
    OBVIOUS
  <1>1. Empty \in [Collectors -> Series]
    BY DEF Empty, Series
  <1>2. <<>> \in Series /\ Len(<<>>) = 0
    BY DEF Series
  <1>3. \A c \in Collectors : Empty[c] = <<>>
    BY DEF Empty
  <1>4. ShapeInv
    <2>1. descs \in Series /\ Len(descs) <= DescBuffer
      BY <1>2, BaseAssumption DEF Init
    <2>2. QED
      BY <1>1, <2>1 DEF Init, ShapeInv
  <1>5. PhaseInv /\ CacheInv /\ DoneInv
    <2>1. PhaseInv
      BY BaseAssumption DEF Init, PhaseInv
    <2>2. CacheInv
      BY <1>3 DEF Init, CacheInv
    <2>3. DoneInv
      BY DEF Init, DoneInv
    <2>4. QED
      BY <2>1, <2>2, <2>3
  <1>6. ReplayInv
    BY <1>2, <1>3 DEF Init, ReplayInv
  <1>7. QED
    BY <1>4, <1>5, <1>6 DEF BaseInv

\* A metric that is sent is cached: both lists grow by it.
LEMMA SendKeeps ==
    ASSUME BaseInv, NEW m \in Metrics \cup {Time}, Send(m), coll' \in {"collect", "closed"}
    PROVE  BaseInv'
PROOF
  <1> USE DEF BaseInv
  <1>1. current \in Collectors /\ main = "register" /\ desc' = "send"
    BY DEF Send, ShapeInv, PhaseInv
  <1>2. sent[current] \in Series
    BY <1>1 DEF ShapeInv
  <1>3. Append(sent[current], m) \in Series /\ Append(sent[current], m) # <<>>
    BY <1>2, AppendProperties DEF Series
  <1>4. sent' = [sent EXCEPT ![current] = Append(sent[current], m)] /\ cache' = sent'
    BY DEF Send, Cached, CacheInv
  <1>5. UNCHANGED <<client, expired, main, waiting, current, refused, descs, replayed>> /\ held' = m
    BY DEF Send
  <1>6. ShapeInv'
    BY <1>1, <1>3, <1>4, <1>5, BaseAssumption DEF ShapeInv
  <1>7. PhaseInv'
    BY <1>1, <1>5, BaseAssumption DEF PhaseInv
  <1>8. CacheInv'
    BY <1>1, <1>4, <1>5 DEF CacheInv, PhaseInv, ShapeInv
  <1>9. ReplayInv'
    <2>1. replayed = Empty /\ \A c \in Collectors : replayed[c] = <<>>
      BY <1>1 DEF ReplayInv, Empty
    <2>2. \A c \in Collectors : cache'[c] \in Series
      BY <1>4, <1>6 DEF ShapeInv
    <2>3. \A c \in Collectors : Len(cache'[c]) \in Nat
      BY <2>2 DEF Series
    <2>4. QED
      BY <1>1, <1>5, <2>1, <2>3 DEF ReplayInv
  <1>10. DoneInv'
    BY <1>1, <1>3, <1>4, <1>5 DEF DoneInv, ShapeInv, PhaseInv
  <1>11. QED
    BY <1>6, <1>7, <1>8, <1>9, <1>10

-----------------------------------------------------------------------------
\* Every step keeps the invariant.
LEMMA NextInv == BaseInv /\ [Next]_vars => BaseInv'
PROOF
  <1> SUFFICES ASSUME BaseInv, [Next]_vars PROVE BaseInv'
    OBVIOUS
  <1> USE BaseAssumption DEF BaseInv
  <1>1. CASE StartRegister
    BY <1>1 DEF StartRegister, ShapeInv, PhaseInv, CacheInv, ReplayInv, DoneInv
  <1>2. CASE EnterDescribe
    <2>1. current \in Collectors /\ main = "register" /\ coll = "none" /\ sent[current] = <<>>
      BY <1>2 DEF EnterDescribe, ShapeInv, PhaseInv, CacheInv
    <2>2. cache' = cache
      <3>1. cache[current] = <<>> /\ cache \in [Collectors -> Series]
        BY <2>1 DEF CacheInv, ShapeInv
      <3>2. [cache EXCEPT ![current] = <<>>] = cache
        BY <2>1, <3>1
      <3>3. QED
        BY <1>2, <3>2 DEF EnterDescribe
    <2>3. UNCHANGED <<client, expired, main, waiting, current, refused, held, descs, sent, replayed>>
      BY <1>2 DEF EnterDescribe
    <2>4. \/ Describes /\ desc' = "receive" /\ coll' = "collect"
          \/ ~Describes /\ desc' = "closed" /\ coll' = coll
      BY <1>2 DEF EnterDescribe
    <2>5. ShapeInv' /\ PhaseInv' /\ CacheInv' /\ ReplayInv'
      BY <2>1, <2>2, <2>3, <2>4 DEF ShapeInv, PhaseInv, CacheInv, ReplayInv
    <2>6. DoneInv'
      BY <2>1, <2>3, <2>4 DEF Describes, DoneInv, ShapeInv
    <2>7. QED
      BY <2>5, <2>6
  <1>3. CASE CollectMetric
    BY <1>3, SendKeeps DEF CollectMetric
  <1>4. CASE EndCollect
    BY <1>4, SendKeeps DEF EndCollect
  <1>5. CASE SendDesc
    <2>1. held \in Metrics \cup {Time}
      BY <1>5 DEF SendDesc, ShapeInv
    <2>2. descs' \in Series /\ Len(descs') = Len(descs) + 1 /\ Len(descs) \in Nat
      BY <1>5, <2>1, AppendProperties DEF SendDesc, ShapeInv, Series
    <2>3. Len(descs') <= DescBuffer
      BY <1>5, <2>2 DEF SendDesc
    <2>4. UNCHANGED <<client, expired, main, waiting, current, refused, coll, sent, cache, replayed>>
      BY <1>5 DEF SendDesc
    <2>5. desc = "send" /\ desc' = "receive" /\ held' = None
      BY <1>5 DEF SendDesc
    <2>6. ShapeInv'
      BY <2>2, <2>3, <2>4, <2>5 DEF ShapeInv
    <2>7. PhaseInv' /\ CacheInv' /\ ReplayInv' /\ DoneInv'
      BY <2>4, <2>5 DEF PhaseInv, CacheInv, ReplayInv, DoneInv
    <2>8. QED
      BY <2>6, <2>7
  <1>6. CASE EndDescribe
    BY <1>6 DEF EndDescribe, ShapeInv, PhaseInv, CacheInv, ReplayInv, DoneInv
  <1>7. CASE ReadDesc
    <2>1. UNCHANGED <<client, expired, main, waiting, current, desc, held, coll, sent, cache, replayed>>
      BY <1>7 DEF ReadDesc
    <2>2. descs # <<>> /\ descs \in Series
      BY <1>7 DEF ReadDesc, ShapeInv
    <2>3. descs' \in Series /\ Len(descs') = Len(descs) - 1 /\ Len(descs) \in Nat
      BY <1>7, <2>2, HeadTailProperties DEF ReadDesc, Series
    <2>4. refused' \in BOOLEAN
      BY <1>7 DEF ReadDesc, ShapeInv
    <2>5. ShapeInv'
      BY <2>1, <2>3, <2>4 DEF ShapeInv
    <2>6. PhaseInv' /\ CacheInv' /\ ReplayInv' /\ DoneInv'
      BY <2>1 DEF PhaseInv, CacheInv, ReplayInv, DoneInv
    <2>7. QED
      BY <2>5, <2>6
  <1>8. CASE EndRegister
    <2>1. current \in Collectors /\ main = "register"
      BY <1>8 DEF EndRegister, ShapeInv, PhaseInv
    <2>2. UNCHANGED <<client, expired, waiting, refused, held, descs, sent, cache, replayed>>
      BY <1>8 DEF EndRegister
    <2>3. /\ main' \in {"register", "gather", "panic"} /\ (main' = "gather" => waiting = {})
          /\ current' = None /\ desc' = "none" /\ coll' = "none"
      BY <1>8 DEF EndRegister
    <2>4. ShapeInv' /\ PhaseInv' /\ CacheInv' /\ ReplayInv'
      BY <2>1, <2>2, <2>3 DEF ShapeInv, PhaseInv, CacheInv, ReplayInv
    <2>5. DoneInv'
      BY <1>8, <2>1, <2>2, <2>3 DEF EndRegister, DoneInv
    <2>6. QED
      BY <2>4, <2>5
  <1>9. ASSUME NEW c \in Collectors, Replay(c) PROVE BaseInv'
    <2> DEFINE n == Len(replayed[c])
    <2>1. main = "gather" /\ n < Len(cache[c])
      BY <1>9 DEF Replay
    <2>2. cache[c] \in Series /\ replayed[c] \in Series
      BY DEF ShapeInv, CacheInv
    <2>3. n \in Nat /\ Len(cache[c]) \in Nat
      BY <2>2 DEF Series
    <2>4. cache[c][n + 1] \in Metrics \cup {Time}
      BY <2>1, <2>2, <2>3, ElementOfSeq DEF Series
    <2> DEFINE new == Append(replayed[c], cache[c][n + 1])
    <2>5. replayed' = [replayed EXCEPT ![c] = new]
      BY <1>9 DEF Replay, ShapeInv
    <2>6. new \in Series /\ Len(new) = n + 1 /\ new[n + 1] = cache[c][n + 1]
          /\ \A i \in 1..n : new[i] = replayed[c][i]
      BY <2>2, <2>3, <2>4, AppendProperties DEF Series
    <2>7. UNCHANGED <<client, expired, main, waiting, current, refused, desc, held, descs, coll, sent, cache>>
      BY <1>9 DEF Replay
    <2> HIDE DEF new
    <2>8. ShapeInv'
      BY <2>5, <2>6, <2>7 DEF ShapeInv
    <2>9. ReplayInv'
      <3>1. Len(new) <= Len(cache[c]) /\ \A i \in 1..Len(new) : new[i] = cache[c][i]
        <4>1. \A i \in 1..n : replayed[c][i] = cache[c][i]
          BY DEF ReplayInv
        <4>2. Len(new) <= Len(cache[c])
          BY <2>1, <2>3, <2>6
        <4>3. ASSUME NEW i \in 1..(n + 1) PROVE new[i] = cache[c][i]
          <5>1. CASE i = n + 1
            BY <2>6, <5>1
          <5>2. CASE i # n + 1
            <6>1. i \in 1..n
              BY <2>3, <5>2
            <6>2. QED
              BY <2>6, <4>1, <6>1
          <5>3. QED
            BY <5>1, <5>2
        <4>4. QED
          BY <2>6, <4>2, <4>3
      <3>2. \A d \in Collectors : replayed'[d] = IF d = c THEN new ELSE replayed[d]
        BY <2>5 DEF ShapeInv
      <3>3. QED
        BY <2>1, <2>7, <3>1, <3>2 DEF ReplayInv
    <2>10. PhaseInv' /\ CacheInv' /\ DoneInv'
      BY <2>7 DEF PhaseInv, CacheInv, DoneInv
    <2>11. QED
      BY <2>8, <2>9, <2>10
  <1>10. CASE NextScrape
    <2>1. main # "register" /\ current = None /\ desc = "none" /\ coll = "none"
      BY <1>10 DEF NextScrape, Ended, Gathered, PhaseInv
    <2>2. /\ client' \in BOOLEAN /\ expired' = FALSE /\ refused' = FALSE
          /\ main' = "register" /\ waiting' = Collectors
          /\ sent' = Empty /\ cache' = Empty /\ replayed' = Empty
          /\ UNCHANGED <<current, desc, held, descs, coll>>
      BY <1>10 DEF NextScrape
    <2>3. Empty \in [Collectors -> Series] /\ \A c \in Collectors : Empty[c] = <<>>
      BY DEF Empty, Series
    <2>4. ShapeInv'
      BY <2>2, <2>3 DEF ShapeInv
    <2>5. PhaseInv' /\ CacheInv' /\ DoneInv'
      BY <2>1, <2>2, <2>3 DEF PhaseInv, CacheInv, DoneInv
    <2>6. ReplayInv'
      BY <2>2, <2>3 DEF ReplayInv
    <2>7. QED
      BY <2>4, <2>5, <2>6
  <1>11. CASE Expire
    BY <1>11 DEF Expire, ShapeInv, PhaseInv, CacheInv, ReplayInv, DoneInv
  <1>12. CASE UNCHANGED vars
    BY <1>12 DEF vars, ShapeInv, PhaseInv, CacheInv, ReplayInv, DoneInv
  <1>13. QED
    BY <1>1, <1>2, <1>3, <1>4, <1>5, <1>6, <1>7, <1>8, <1>9, <1>10, <1>11, <1>12 DEF Next, Steps

\* The inductive invariant holds of every behaviour.
THEOREM BaseCorrect == Spec => []BaseInv
  BY InitInv, NextInv, PTL DEF Spec

-----------------------------------------------------------------------------
\* What the response holds of a collector is what its one collect sent, all of it, once and
\* in order.
THEOREM ServedIsCollectedCorrect == Spec => []ServedIsCollected
PROOF
  <1>1. BaseInv => ServedIsCollected
    <2> SUFFICES ASSUME BaseInv, Gathered, NEW c \in Collectors PROVE replayed[c] = sent[c]
      BY DEF ServedIsCollected
    <2>1. cache[c] = sent[c] /\ sent[c] \in Series /\ replayed[c] \in Series
      BY DEF BaseInv, CacheInv, ShapeInv
    <2>2. Len(replayed[c]) = Len(sent[c])
      BY <2>1 DEF Gathered
    <2>3. \A i \in 1..Len(replayed[c]) : replayed[c][i] = sent[c][i]
      BY <2>1 DEF BaseInv, ReplayInv
    <2>4. QED
      BY <2>1, <2>2, <2>3, SeqEqual DEF Series
  <1>2. QED
    BY <1>1, BaseCorrect, PTL

\* A collector that is missing from the response had a client and no time.
THEOREM NothingSilentlyMissingCorrect == Spec => []NothingSilentlyMissing
PROOF
  <1>1. BaseInv => NothingSilentlyMissing
    <2> SUFFICES ASSUME BaseInv, Gathered, NEW c \in Collectors, replayed[c] = <<>>
                 PROVE  client /\ expired
      BY DEF NothingSilentlyMissing
    <2>1. waiting = {} /\ current = None /\ main = "gather"
      BY DEF Gathered, BaseInv, PhaseInv
    <2>2. c # current
      BY <2>1, BaseAssumption
    <2>3. sent[c] \in Series /\ Len(sent[c]) = 0
      BY DEF Gathered, BaseInv, CacheInv, ShapeInv
    <2>4. sent[c] = <<>>
      BY <2>3, EmptySeq DEF Series
    <2>5. QED
      BY <2>1, <2>2, <2>4 DEF BaseInv, DoneInv
  <1>2. QED
    BY <1>1, BaseCorrect, PTL

-----------------------------------------------------------------------------
\* The bound on the metrics of a collect bounds the lists, of which the time is the last.
LengthInv ==
    /\ \A c \in Collectors : Len(sent[c]) <= MaxMetrics + 1
    /\ coll = "collect" => Len(sent[current]) <= MaxMetrics

LEMMA NextLength == BaseInv /\ LengthInv /\ [Next]_vars => LengthInv'
PROOF
  <1> SUFFICES ASSUME BaseInv, LengthInv, [Next]_vars PROVE LengthInv'
    OBVIOUS
  <1> USE BaseAssumption
  <1>1. ASSUME NEW m \in Metrics \cup {Time}, Send(m), coll = "collect",
               Len(sent[current]) < MaxMetrics \/ coll' # "collect"
        PROVE  LengthInv'
    <2>1. current \in Collectors /\ sent \in [Collectors -> Series]
      BY <1>1 DEF BaseInv, ShapeInv, PhaseInv
    <2>2. sent' = [sent EXCEPT ![current] = Append(sent[current], m)] /\ current' = current
      BY <1>1 DEF Send
    <2>3. Len(sent'[current]) = Len(sent[current]) + 1 /\ Len(sent[current]) \in Nat
      BY <2>1, <2>2, AppendProperties DEF Series
    <2>4. \A c \in Collectors : c # current => sent'[c] = sent[c]
      BY <2>1, <2>2
    <2>5. QED
      BY <1>1, <2>1, <2>2, <2>3, <2>4 DEF LengthInv
  <1>2. CASE CollectMetric
    BY <1>1, <1>2 DEF CollectMetric
  <1>3. CASE EndCollect
    BY <1>1, <1>3 DEF EndCollect
  <1>4. CASE EnterDescribe
    <2>1. sent[current] = <<>> /\ UNCHANGED <<sent, current>>
      BY <1>4 DEF EnterDescribe, BaseInv, CacheInv
    <2>2. Len(<<>>) <= MaxMetrics
      OBVIOUS
    <2>3. QED
      BY <2>1, <2>2 DEF LengthInv
  <1>5. CASE NextScrape
    <2>1. coll' = "none" /\ sent' = Empty
      BY <1>5 DEF NextScrape, Ended, Gathered, BaseInv, PhaseInv
    <2>2. \A c \in Collectors : Len(Empty[c]) = 0
      BY DEF Empty
    <2>3. QED
      BY <2>1, <2>2 DEF LengthInv
  <1>6. CASE StartRegister
    BY <1>6 DEF StartRegister, LengthInv, BaseInv, PhaseInv
  <1>7. CASE SendDesc \/ EndDescribe \/ ReadDesc \/ Expire \/ UNCHANGED vars
    BY <1>7 DEF SendDesc, EndDescribe, ReadDesc, Expire, vars, LengthInv
  <1>8. CASE EndRegister
    BY <1>8 DEF EndRegister, LengthInv
  <1>9. ASSUME NEW c \in Collectors, Replay(c) PROVE LengthInv'
    BY <1>9 DEF Replay, LengthInv
  <1>10. QED
    BY <1>2, <1>3, <1>4, <1>5, <1>6, <1>7, <1>8, <1>9 DEF Next, Steps

\* The lists of metrics keep their bounds, the channel of descriptors its capacity.
THEOREM BaseTypeCorrect == Spec => []TypeOK
PROOF
  <1>1. Init => LengthInv
    BY BaseAssumption DEF Init, LengthInv, Empty
  <1>2. BaseInv /\ LengthInv => TypeOK
    <2> SUFFICES ASSUME BaseInv, LengthInv PROVE TypeOK
      OBVIOUS
    <2>1. ASSUME NEW s \in Series, Len(s) <= MaxMetrics + 1 PROVE s \in Sent
      <3>1. Len(s) \in 0..MaxMetrics + 1 /\ s \in [1..Len(s) -> Metrics \cup {Time}]
        BY <2>1, LenProperties, BaseAssumption DEF Series
      <3>2. QED
        BY <3>1 DEF Sent
    <2>2. ASSUME NEW c \in Collectors
          PROVE  sent[c] \in Sent /\ cache[c] \in Sent /\ replayed[c] \in Sent
      <3>1. sent[c] \in Series /\ cache[c] = sent[c] /\ replayed[c] \in Series
        BY DEF BaseInv, ShapeInv, CacheInv
      <3>2. Len(replayed[c]) \in Nat /\ Len(sent[c]) \in Nat
        BY <3>1 DEF Series
      <3>3. Len(sent[c]) <= MaxMetrics + 1 /\ Len(replayed[c]) <= MaxMetrics + 1
        BY <3>1, <3>2, BaseAssumption DEF LengthInv, BaseInv, ReplayInv
      <3>4. QED
        BY <2>1, <3>1, <3>3
    <2>3. QED
      BY <2>2 DEF TypeOK, BaseInv, ShapeInv, Series
  <1>3. QED
    BY <1>1, <1>2, InitInv, NextInv, NextLength, PTL DEF Spec
-----------------------------------------------------------------------------
(***************************************************************************)
(* The goroutines implement Registration.                                  *)
(***************************************************************************)
\* The collectors that hold metrics.
Holding == {c \in Registered : cache[c] # <<>>}

\* Steps that register nobody, and change no cache but that of the collector being
\* registered, are stutters.
LEMMA RegistryStutter ==
    ASSUME UNCHANGED <<client, expired, main>>, Registered' = Registered,
           \A c \in Registered : cache'[c] = cache[c]
    PROVE  UNCHANGED Registry!registryVars
  BY DEF Registry!registryVars

\* A collector is being registered: it is not registered yet.
LEMMA CurrentIsOut ==
    ASSUME BaseInv, current # None
    PROVE  current \in Collectors /\ main = "register" /\ current \notin Registered
  BY DEF BaseInv, ShapeInv, PhaseInv, Registered

\* What Describe and collect do to the cache is done before the collector is registered.
LEMMA CachingIsStutter ==
    ASSUME BaseInv, current # None, UNCHANGED <<client, expired, main, waiting, current>>,
           NEW s, cache' = [cache EXCEPT ![current] = s]
    PROVE  UNCHANGED Registry!registryVars
PROOF
  <1>1. Registered' = Registered
    BY DEF Registered
  <1>2. \A c \in Registered : c \in Collectors /\ c # current
    BY CurrentIsOut DEF Registered
  <1>3. cache \in [Collectors -> Series]
    BY DEF BaseInv, CacheInv, ShapeInv
  <1>4. \A c \in Registered : cache'[c] = cache[c]
    BY <1>2, <1>3
  <1>5. QED
    BY <1>1, <1>4, RegistryStutter

\* When MustRegister returns, the collector has metrics or there was no time; when it
\* panics, nothing of the registry is served.
LEMMA EndRegisterImplements ==
    ASSUME BaseInv, EndRegister
    PROVE  Registry!RegistryNext
PROOF
  <1>1. /\ current \in Collectors /\ current # None /\ main = "register"
        /\ current \notin Registered /\ current \notin waiting
    BY BaseAssumption, CurrentIsOut DEF EndRegister, BaseInv, ShapeInv, PhaseInv
  <1>2. UNCHANGED <<client, expired, waiting, cache>> /\ current' = None
    BY DEF EndRegister
  <1>3. CASE refused
    <2>1. main' = "panic" /\ Registered' = {}
      BY <1>3 DEF EndRegister, Registered
    <2>2. Registry!RefuseAll
      BY <1>1, <1>2, <2>1 DEF Registry!RefuseAll
    <2>3. QED
      BY <2>2 DEF Registry!RegistryNext
  <1>4. CASE ~refused
    <2>1. main' \in {"register", "gather"}
      BY <1>4 DEF EndRegister
    <2>2. PICK c \in Collectors : c = current
      BY <1>1
    <2>3. Registered' = Registered \cup {c}
      BY <1>1, <1>2, <2>1, <2>2, BaseAssumption DEF Registered
    <2>4. cache[c] # <<>> \/ (client /\ expired)
      BY <2>2 DEF EndRegister, BaseInv, CacheInv, DoneInv
    <2>5. \/ Holding' = Holding \cup {c}
          \/ client /\ expired /\ Holding' = Holding
      BY <1>1, <1>2, <2>2, <2>3, <2>4 DEF Holding
    <2>6. Registry!RegisterOne(c)
      BY <1>1, <1>2, <2>1, <2>2, <2>3, <2>5 DEF Registry!RegisterOne, Holding
    <2>7. QED
      BY <2>6 DEF Registry!RegistryNext
  <1>5. QED
    BY <1>3, <1>4

\* The next scrape begins with an empty registry.
LEMMA NextScrapeImplements ==
    ASSUME BaseInv, NextScrape
    PROVE  Registry!RegistryNext
PROOF
  <1>1. main \in {"gather", "panic"} /\ current = None
    BY DEF NextScrape, Ended, Gathered, BaseInv, PhaseInv
  <1>2. main' = "register" /\ waiting' = Collectors /\ ~(client' /\ expired')
    BY DEF NextScrape
  <1>3. Registered' = {}
    BY <1>2 DEF Registered
  <1>4. Registry!Renew
    BY <1>1, <1>2, <1>3 DEF Registry!Renew, Registry!RegistryInit
  <1>5. QED
    BY <1>4 DEF Registry!RegistryNext

\* Every step fills the registry, or is none of its business.
LEMMA NextImplements ==
    ASSUME BaseInv, Next
    PROVE  Registry!RegistryNext \/ UNCHANGED Registry!registryVars
PROOF
  <1>1. CASE StartRegister
    <2>1. Registered' = Registered
      BY <1>1, BaseAssumption DEF StartRegister, Registered, BaseInv, ShapeInv
    <2>2. QED
      BY <1>1, <2>1, RegistryStutter DEF StartRegister
  <1>2. CASE EnterDescribe
    <2>1. current # None
      BY <1>2 DEF EnterDescribe, BaseInv, PhaseInv
    <2>2. CASE Describes
      BY <1>2, <2>1, <2>2, CachingIsStutter DEF EnterDescribe
    <2>3. CASE ~Describes
      BY <1>2, <2>3, RegistryStutter DEF EnterDescribe, Registered
    <2>4. QED
      BY <2>2, <2>3
  <1>3. ASSUME NEW m, Send(m) PROVE UNCHANGED Registry!registryVars
    <2>1. current # None
      BY <1>3 DEF Send, BaseInv, PhaseInv
    <2>2. QED
      BY <1>3, <2>1, CachingIsStutter DEF Send
  <1>4. CASE CollectMetric \/ EndCollect
    BY <1>3, <1>4 DEF CollectMetric, EndCollect
  <1>5. CASE SendDesc \/ EndDescribe \/ ReadDesc \/ \E c \in Collectors : Replay(c)
    BY <1>5, RegistryStutter DEF SendDesc, EndDescribe, ReadDesc, Replay, Registered
  <1>6. CASE Expire
    <2>1. UNCHANGED <<main, Registered, Holding>> /\ ~expired /\ expired' /\ client' = client
      BY <1>6 DEF Expire, Registered, Holding
    <2>2. CASE client
      <3>1. Registry!TimeIsOver
        BY <2>1, <2>2 DEF Registry!TimeIsOver, Holding
      <3>2. QED
        BY <3>1 DEF Registry!RegistryNext
    <2>3. CASE ~client
      BY <2>1, <2>3 DEF Registry!registryVars, Holding
    <2>4. QED
      BY <2>2, <2>3
  <1>7. QED
    BY <1>1, <1>2, <1>4, <1>5, <1>6, EndRegisterImplements, NextScrapeImplements DEF Next, Steps

\* The goroutines of MustRegister, Describe and collect fill a registry as Registration
\* promises: every collector once, with metrics unless the time is over, all or nothing.
THEOREM ImplementsRegistrationCorrect == Spec => ImplementsRegistration
PROOF
  <1>1. Init => Registry!RegistryInit
    BY DEF Init, Registered, Registry!RegistryInit
  <1>2. BaseInv /\ [Next]_vars => [Registry!RegistryNext]_(Registry!registryVars)
    <2>1. ASSUME BaseInv, UNCHANGED vars PROVE UNCHANGED Registry!registryVars
      BY <2>1 DEF vars, Registered, Registry!registryVars
    <2>2. QED
      BY <2>1, NextImplements
  <1>3. QED
    BY <1>1, <1>2, BaseCorrect, PTL DEF Spec, ImplementsRegistration, Registry!RegistrySpec
=============================================================================
