--------------------------- MODULE Commands_proofs ---------------------------
(***************************************************************************)
(* Proofs about Commands for any databases, sharded collections and roles, *)
(* whatever calls fail: no metric is sent twice, which functions can spoil *)
(* a scrape, and what a failure of shards, or on an arbiter, leaves.       *)
(***************************************************************************)
EXTENDS Commands, SequenceLemmas

\* The names of the calls in a sequence.
Names(s) == {call.name : call \in Range(s)}

\* The names of the calls that the answer to a call may give rise to, one after another.
Heirs(name) ==
    CASE name = <<"databaseNames">> -> {<<"dbStats", db>> : db \in Databases}
      [] name = <<"databases">>     ->
            {<<"find", db>> : db \in Databases} \cup {<<"chunks", db, ns>> : db \in Databases, ns \in Sharded}
      [] name[1] = "find"           -> {<<"chunks", name[2], ns>> : ns \in Sharded}
      [] OTHER                      -> {}

\* Calls with different names, in a sequence.
Distinct(s) ==
    /\ s \in Seq(Range(s)) /\ IsInjective(s)
    /\ \A c, d \in Range(s) : c.name = d.name => c = d

\* No call to come has had its metrics sent, nor has a call its answer gives rise to.
NamesInv ==
    /\ Distinct(todo)
    /\ metrics \in Seq(Range(metrics)) /\ IsInjective(metrics)
    /\ \A name \in Names(todo) :
          /\ name \notin Range(metrics) /\ Heirs(name) \cap (Range(metrics) \cup Names(todo)) = {}
          /\ name[1] = "find" => \E db \in Databases : name = <<"find", db>>
    /\ mode # "topology" /\ todo # <<>> => todo[Len(todo)] = Ask("time")

\* A call that is made whatever the role and the answers before it.
Plain(call) == call.when = Roles \cup {"unknown"} /\ call.after = {} /\ call.unless = {}

\* All that may happen when a call fails, or its answer is bad.
Policies(call) == call.fail \cup call.bad

\* The calls that may have the registry refuse the scrape.
Spoilers == {<<"getParameter">>, <<"top">>, <<"currentOp">>}

\* What a call to come may do when it fails, or its answer is bad.
CallInv(call) ==
    /\ Policies(call) \subseteq {"on", "told", "group", "return", "invalid", "invalidOn"}
    /\ "group" \in Policies(call) => call.name[1] = "dbStats"
    /\ Policies(call) \cap {"invalid", "invalidOn"} # {} =>
          mode \in {"fcv", "topmetrics", "currentopmetrics"} /\ call.name \in Spoilers
    /\ mode = "shards" => Plain(call) /\ Policies(call) = {"on"} /\ call.name # <<"databaseNames">>
    /\ mode = "diagnosticdata" =>
          /\ "return" \in Policies(call) => call.name = <<"getDiagnosticData">> /\ "return" \notin call.fail
          /\ call.name \in {<<"isMaster">>, <<"version">>} => Plain(call)
          /\ call.name = <<"hello">> => call.when = {"arbiter"} /\ call.after = {} /\ call.unless = {}
    /\ mode = "topology" =>
          /\ "return" \in Policies(call) =>
                call.name \in {<<"getCmdLineOpts">>, <<"isMaster">>, <<"replicaSetId">>}
          /\ call.name \in {<<"isMaster">>, <<"clusterId">>, <<"replSetGetStatus">>} => Plain(call)
          /\ call.name \in {<<"isMaster">>, <<"replicaSetId">>} => call.bad = {}

\* Types, what may happen to the calls to come, and what spoils a scrape.
KindsInv ==
    /\ mode \in Modes /\ compatible \in BOOLEAN /\ slow \in BOOLEAN /\ role \in Roles
    /\ expired \in BOOLEAN /\ invalid \in BOOLEAN
    /\ roleSeen \in Roles \cup {"unknown"}
    /\ Sent \subseteq replied \cup failed \cup Local
    /\ \A call \in Range(todo) : CallInv(call)
    /\ RefusalsEarned

\* Each collection is asked for, has failed or is served, or a call before it is or has.
ShardInv ==
    mode = "shards" =>
        \/ <<"databases">> \in Names(todo) \cup failed
        \/ \A db \in Databases :
              \/ <<"find", db>> \in Names(todo) \cup failed
              \/ \A ns \in Rows(db) : <<"chunks", db, ns>> \in Names(todo) \cup failed \cup Sent

\* The diagnostic data was refused, and the function returned.
Refused == <<"getDiagnosticData">> \in failed \cap replied

\* Diagnostic data in compatible mode asks for the type of the node first, and for the version
\* and, on an arbiter, hello.
DiagnosticInv ==
    mode = "diagnosticdata" /\ compatible =>
        /\ <<"isMaster">> \in Names(todo) => Head(todo).name = <<"isMaster">>
        /\ Refused \/ <<"version">> \in Names(todo) \cup Sent \cup failed
        /\ \/ Refused \/ <<"hello">> \in Names(todo) \cup Sent \cup failed
           \/ roleSeen # "arbiter" /\ <<"isMaster">> \notin Names(todo)

\* The labels of an arbiter, whose role is known from the one isMaster, which the command
\* line comes before.
TopologyInv ==
    mode = "topology" =>
        /\ <<"getCmdLineOpts">> \in Names(todo) =>
              roleSeen = "unknown" /\ Head(todo).name = <<"getCmdLineOpts">>
        /\ <<"isMaster">> \in Names(todo) => roleSeen = "unknown"
        /\ roleSeen = "arbiter" \/ <<"isMaster">> \in Names(todo) =>
              {<<"clusterId">>, <<"replSetGetStatus">>} \subseteq Names(todo) \cup Sent \cup failed

-----------------------------------------------------------------------------
(***************************************************************************)
(* Names of calls, and the calls an answer gives rise to.                  *)
(***************************************************************************)

\* What a name that comes of an answer looks like.
LEMMA HeirsAre ==
    ASSUME NEW name
    PROVE  /\ name = <<"databaseNames">> => Heirs(name) = {<<"dbStats", db>> : db \in Databases}
           /\ name = <<"databases">> =>
                 Heirs(name) = {<<"find", db>> : db \in Databases}
                                   \cup {<<"chunks", db, ns>> : db \in Databases, ns \in Sharded}
           /\ name[1] = "find" => Heirs(name) = {<<"chunks", name[2], ns>> : ns \in Sharded}
           /\ name[1] \notin {"databaseNames", "databases", "find"} => Heirs(name) = {}
<1>1. <<"databaseNames">>[1] = "databaseNames" /\ <<"databases">>[1] = "databases"
  OBVIOUS
<1>2. QED BY <1>1 DEF Heirs

\* An heir's kind tells what it is an heir of.
LEMMA HeirKind ==
    ASSUME NEW name, NEW heir \in Heirs(name)
    PROVE  \/ name = <<"databaseNames">> /\ heir[1] = "dbStats"
           \/ name = <<"databases">> /\ heir[1] \in {"find", "chunks"}
           \/ name[1] = "find" /\ heir[1] = "chunks" /\ heir[2] = name[2]
BY DEF Heirs

\* Calls with different names give rise to different ones.
LEMMA HeirsDisjoint ==
    ASSUME NEW a, NEW b, a # b, a \notin Heirs(b), b \notin Heirs(a),
           \A name \in {a, b} : name[1] = "find" => \E db \in Databases : name = <<"find", db>>
    PROVE  Heirs(a) \cap Heirs(b) = {}
<1> SUFFICES ASSUME NEW heir \in Heirs(a), heir \in Heirs(b) PROVE FALSE
  OBVIOUS
<1>1. ASSUME NEW x \in {a, b}, NEW y \in {a, b}, x # y, x = <<"databases">>, y[1] = "find" PROVE FALSE
  <2>1. PICK db \in Databases : y = <<"find", db>>
    BY <1>1
  <2>2. y \in Heirs(x)
    BY <1>1, <2>1, HeirsAre
  <2>3. QED BY <1>1, <2>2
<1>2. ASSUME a[1] = "find", b[1] = "find" PROVE a[2] # b[2]
  <2>1. PICK db \in Databases : a = <<"find", db>>
    BY <1>2
  <2>2. PICK db2 \in Databases : b = <<"find", db2>>
    BY <1>2
  <2>3. QED BY <2>1, <2>2
<1>3. /\ \/ a = <<"databaseNames">> /\ heir[1] = "dbStats"
         \/ a = <<"databases">> /\ heir[1] \in {"find", "chunks"}
         \/ a[1] = "find" /\ heir[1] = "chunks" /\ heir[2] = a[2]
      /\ \/ b = <<"databaseNames">> /\ heir[1] = "dbStats"
         \/ b = <<"databases">> /\ heir[1] \in {"find", "chunks"}
         \/ b[1] = "find" /\ heir[1] = "chunks" /\ heir[2] = b[2]
  BY HeirKind
<1>4. QED BY <1>1, <1>2, <1>3

\* A call is what Call says, and two calls of a kind differ in their names.
LEMMA CallIs ==
    ASSUME NEW name, NEW fail, NEW bad
    PROVE  /\ Call(name, fail, bad).name = name
           /\ Call(name, fail, bad).fail = fail /\ Call(name, fail, bad).bad = bad
           /\ Plain(Call(name, fail, bad))
BY DEF Call, Plain

\* A set of calls with different names makes a sequence of them.
LEMMA CallsDistinct ==
    ASSUME NEW S, IsFiniteSet(S), \A c, d \in S : c.name = d.name => c = d
    PROVE  Distinct(SetToSeq(S)) /\ Range(SetToSeq(S)) = S
<1>1. SetToSeq(S) \in Seq(S) /\ Range(SetToSeq(S)) = S /\ IsInjective(SetToSeq(S))
  BY SetToSeqIsBijection
<1>2. QED BY <1>1 DEF Distinct

\* The rows found for a database are sharded collections.
LEMMA RowsFinite ==
    ASSUME NEW db
    PROVE  Rows(db) \subseteq Sharded /\ IsFiniteSet(Rows(db))
<1>1. Rows(db) \subseteq Sharded
  BY DEF Rows
<1>2. QED BY <1>1, CommandsAssumption, FS_Subset

\* The calls for each member of a set, when one call differs from another by its name.
LEMMA CallsFor ==
    ASSUME NEW T, IsFiniteSet(T), NEW f, f = [x \in T |-> f[x]],
           \A x, y \in T : f[x].name = f[y].name => x = y
    PROVE  /\ Distinct(SetToSeq({f[x] : x \in T}))
           /\ Range(SetToSeq({f[x] : x \in T})) = {f[x] : x \in T}
<1> DEFINE S == {f[x] : x \in T}
<1>1. f \in Surjection(T, S)
  BY DEF Surjection
<1>2. IsFiniteSet(S)
  BY <1>1, FS_Surjection
<1>3. \A c, d \in S : c.name = d.name => c = d
  OBVIOUS
<1>4. QED BY <1>2, <1>3, CallsDistinct

\* The calls that an answer gives rise to are heirs of the call that was answered, and
\* none of them is an heir of another, or has heirs that are not heirs of the call.
LEMMA FollowIs ==
    ASSUME NEW name, name[1] = "find" => \E db \in Databases : name = <<"find", db>>
    PROVE  /\ Distinct(Follow(name))
           /\ \A c \in Range(Follow(name)) :
                 /\ c.name \in Heirs(name) /\ Heirs(c.name) \subseteq Heirs(name)
                 /\ \A d \in Range(Follow(name)) : d.name \notin Heirs(c.name)
                 /\ c.name[1] = "find" => \E db \in Databases : c.name = <<"find", db>>
                 /\ c.name[1] \in {"dbStats", "find", "chunks"}
                 /\ Plain(c) /\ c.bad = {}
                 /\ c.fail = IF c.name[1] = "dbStats" THEN {"group"} ELSE {"on"}
           /\ name = <<"databases">> =>
                 \A db \in Databases : <<"find", db>> \in Names(Follow(name))
           /\ name[1] = "find" =>
                 \A ns \in Rows(name[2]) : <<"chunks", name[2], ns>> \in Names(Follow(name))
<1>0. <<"databaseNames">>[1] = "databaseNames" /\ <<"databases">>[1] = "databases"
  OBVIOUS
<1>1. CASE name = <<"databaseNames">>
  <2> DEFINE C(db) == Call(<<"dbStats", db>>, {"group"}, {})
  <2>1. Follow(name) = SetToSeq({C(db) : db \in Databases})
    BY <1>1 DEF Follow
  <2>2. \A db : C(db).name = <<"dbStats", db>> /\ C(db).fail = {"group"} /\ C(db).bad = {} /\ Plain(C(db))
    BY CallIs
  <2>3. \A x, y \in Databases : C(x).name = C(y).name => x = y
    BY <2>2
  <2> HIDE DEF C
  <2>4. Distinct(Follow(name)) /\ Range(Follow(name)) = {C(db) : db \in Databases}
    <3> DEFINE f == [x \in Databases |-> C(x)]
    <3>1. f = [x \in Databases |-> f[x]] /\ \A x \in Databases : f[x] = C(x)
      OBVIOUS
    <3>2. {f[x] : x \in Databases} = {C(db) : db \in Databases}
      BY <3>1
    <3>3. \A x, y \in Databases : f[x].name = f[y].name => x = y
      BY <2>3, <3>1
    <3> HIDE DEF f
    <3>4. IsFiniteSet(Databases)
      BY CommandsAssumption
    <3>5. /\ Distinct(SetToSeq({f[x] : x \in Databases}))
          /\ Range(SetToSeq({f[x] : x \in Databases})) = {f[x] : x \in Databases}
      BY <3>1, <3>3, <3>4, CallsFor
    <3>6. QED BY <2>1, <3>2, <3>5
  <2>5. \A db \in Databases : C(db).name \in Heirs(name) /\ Heirs(C(db).name) = {}
    <3>1. \A db : <<"dbStats", db>>[1] = "dbStats"
      OBVIOUS
    <3>2. \A db : Heirs(<<"dbStats", db>>) = {}
      BY <3>1, HeirsAre
    <3>3. \A db \in Databases : <<"dbStats", db>> \in Heirs(name)
      BY <1>1, HeirsAre
    <3>4. QED BY <2>2, <3>2, <3>3
  <2>6. \A db : C(db).name[1] = "dbStats"
    BY <2>2
  <2>7. QED BY <1>0, <1>1, <2>2, <2>4, <2>5, <2>6
<1>2. CASE name = <<"databases">>
  <2> DEFINE C(db) == Call(<<"find", db>>, {"on"}, {})
  <2>1. Follow(name) = SetToSeq({C(db) : db \in Databases})
    <3>1. name # <<"databaseNames">>
      BY <1>0, <1>2
    <3>2. QED BY <1>2, <3>1 DEF Follow
  <2>2. \A db : C(db).name = <<"find", db>> /\ C(db).fail = {"on"} /\ C(db).bad = {} /\ Plain(C(db))
    BY CallIs
  <2>3. \A x, y \in Databases : C(x).name = C(y).name => x = y
    BY <2>2
  <2> HIDE DEF C
  <2>4. Distinct(Follow(name)) /\ Range(Follow(name)) = {C(db) : db \in Databases}
    <3> DEFINE f == [x \in Databases |-> C(x)]
    <3>1. f = [x \in Databases |-> f[x]] /\ \A x \in Databases : f[x] = C(x)
      OBVIOUS
    <3>2. {f[x] : x \in Databases} = {C(db) : db \in Databases}
      BY <3>1
    <3>3. \A x, y \in Databases : f[x].name = f[y].name => x = y
      BY <2>3, <3>1
    <3> HIDE DEF f
    <3>4. IsFiniteSet(Databases)
      BY CommandsAssumption
    <3>5. /\ Distinct(SetToSeq({f[x] : x \in Databases}))
          /\ Range(SetToSeq({f[x] : x \in Databases})) = {f[x] : x \in Databases}
      BY <3>1, <3>3, <3>4, CallsFor
    <3>6. QED BY <2>1, <3>2, <3>5
  <2>5. \A db \in Databases : C(db).name \in Heirs(name) /\ Heirs(C(db).name) \subseteq Heirs(name)
    <3> SUFFICES ASSUME NEW db \in Databases
                 PROVE  C(db).name \in Heirs(name) /\ Heirs(C(db).name) \subseteq Heirs(name)
      OBVIOUS
    <3>1. <<"find", db>>[1] = "find" /\ <<"find", db>>[2] = db
      OBVIOUS
    <3>2. Heirs(<<"find", db>>) = {<<"chunks", db, ns>> : ns \in Sharded}
      BY <3>1, HeirsAre
    <3>3. Heirs(name) = {<<"find", x>> : x \in Databases}
                            \cup {<<"chunks", x, ns>> : x \in Databases, ns \in Sharded}
      BY <1>2, HeirsAre
    <3>4. QED BY <2>2, <3>2, <3>3
  <2>6. \A db : C(db).name[1] = "find"
    BY <2>2
  <2>7. \A x, y \in Databases : C(x).name \notin Heirs(C(y).name)
    <3> SUFFICES ASSUME NEW x \in Databases, NEW y \in Databases, C(x).name \in Heirs(C(y).name) PROVE FALSE
      OBVIOUS
    <3>1. C(y).name[1] = "find" /\ C(x).name[1] = "find"
      BY <2>6
    <3>2. C(x).name[1] = "chunks" \/ C(y).name = <<"databaseNames">> \/ C(y).name = <<"databases">>
      BY HeirKind
    <3>3. QED BY <1>0, <3>1, <3>2
  <2>8. \A db \in Databases : <<"find", db>> \in Names(Follow(name))
    BY <2>2, <2>4 DEF Names
  <2>9. QED BY <1>0, <1>2, <2>2, <2>4, <2>5, <2>6, <2>7, <2>8
<1>3. CASE name[1] = "find"
  <2> DEFINE C(ns) == Call(<<"chunks", name[2], ns>>, {"on"}, {})
  <2>1. Follow(name) = SetToSeq({C(ns) : ns \in Rows(name[2])})
    <3>1. name # <<"databaseNames">> /\ name # <<"databases">>
      BY <1>0, <1>3
    <3>2. QED BY <1>3, <3>1 DEF Follow
  <2>2. \A ns : /\ C(ns).name = <<"chunks", name[2], ns>> /\ C(ns).fail = {"on"} /\ C(ns).bad = {}
                /\ Plain(C(ns))
    BY CallIs
  <2>3. \A x, y \in Rows(name[2]) : C(x).name = C(y).name => x = y
    <3>1. \A x, y : <<"chunks", name[2], x>> = <<"chunks", name[2], y>> => x = y
      OBVIOUS
    <3>2. QED BY <2>2, <3>1
  <2> HIDE DEF C
  <2>4. Distinct(Follow(name)) /\ Range(Follow(name)) = {C(ns) : ns \in Rows(name[2])}
    <3> DEFINE f == [x \in Rows(name[2]) |-> C(x)]
    <3>1. f = [x \in Rows(name[2]) |-> f[x]] /\ \A x \in Rows(name[2]) : f[x] = C(x)
      OBVIOUS
    <3>2. {f[x] : x \in Rows(name[2])} = {C(ns) : ns \in Rows(name[2])}
      BY <3>1
    <3>3. \A x, y \in Rows(name[2]) : f[x].name = f[y].name => x = y
      BY <2>3, <3>1
    <3> HIDE DEF f
    <3>4. IsFiniteSet(Rows(name[2]))
      BY RowsFinite
    <3>5. /\ Distinct(SetToSeq({f[x] : x \in Rows(name[2])}))
          /\ Range(SetToSeq({f[x] : x \in Rows(name[2])})) = {f[x] : x \in Rows(name[2])}
      BY <3>1, <3>3, <3>4, CallsFor
    <3>6. QED BY <2>1, <3>2, <3>5
  <2>5. \A ns \in Rows(name[2]) : C(ns).name \in Heirs(name) /\ Heirs(C(ns).name) = {}
    <3>1. \A ns : <<"chunks", name[2], ns>>[1] = "chunks"
      OBVIOUS
    <3>2. \A ns : Heirs(<<"chunks", name[2], ns>>) = {}
      BY <3>1, HeirsAre
    <3>3. \A ns \in Rows(name[2]) : <<"chunks", name[2], ns>> \in Heirs(name)
      BY <1>3, HeirsAre, RowsFinite
    <3>4. QED BY <2>2, <3>2, <3>3
  <2>6. \A ns : C(ns).name[1] = "chunks"
    BY <2>2
  <2>7. \A ns \in Rows(name[2]) : <<"chunks", name[2], ns>> \in Names(Follow(name))
    BY <2>2, <2>4 DEF Names
  <2>8. QED BY <1>0, <1>3, <2>2, <2>4, <2>5, <2>6, <2>7
<1>4. CASE name # <<"databaseNames">> /\ name # <<"databases">> /\ name[1] # "find"
  <2>1. Follow(name) = <<>>
    BY <1>4 DEF Follow
  <2>2. Range(<<>>) = {} /\ <<>> \in Seq(Range(<<>>)) /\ IsInjective(<<>>)
    BY DEF Range, IsInjective
  <2>3. QED BY <1>4, <2>1, <2>2 DEF Distinct
<1>5. QED BY <1>1, <1>2, <1>3, <1>4

-----------------------------------------------------------------------------
(***************************************************************************)
(* The programs.                                                           *)
(***************************************************************************)

\* A list of calls whose names differ.
LEMMA ListIs ==
    ASSUME NEW n \in Nat, NEW S, NEW s \in [1..n -> S],
           \A i, j \in 1..n : s[i].name = s[j].name => i = j
    PROVE  /\ Distinct(s) /\ Len(s) = n
           /\ \A c : c \in Range(s) <=> \E i \in 1..n : c = s[i]
           /\ \A x : x \in Names(s) <=> \E i \in 1..n : x = s[i].name
<1>1. Range(s) = {s[i] : i \in 1..n}
  BY DEF Range
<1>2. s \in [1..n -> Range(s)]
  BY <1>1
<1>3. s \in Seq(Range(s)) /\ Len(s) = n
  BY <1>2, FunctionIsSeq
<1>4. IsInjective(s)
  BY DEF IsInjective
<1>5. \A c, d \in Range(s) : c.name = d.name => c = d
  BY <1>1
<1>6. \A x : x \in Names(s) <=> \E i \in 1..n : x = s[i].name
  <2>1. \A i \in 1..n : s[i].name \in Names(s)
    BY <1>1 DEF Names
  <2>2. \A x \in Names(s) : \E i \in 1..n : x = s[i].name
    BY <1>1 DEF Names
  <2>3. QED BY <2>1, <2>2
<1>7. QED BY <1>1, <1>3, <1>4, <1>5, <1>6 DEF Distinct

\* One list of calls after another.
LEMMA BothLists ==
    ASSUME NEW s, NEW t, Distinct(s), Distinct(t), Names(s) \cap Names(t) = {}
    PROVE  /\ Distinct(s \o t)
           /\ Range(s \o t) = Range(s) \cup Range(t) /\ Names(s \o t) = Names(s) \cup Names(t)
           /\ t # <<>> => s \o t # <<>> /\ (s \o t)[Len(s \o t)] = t[Len(t)]
           /\ s # <<>> => s \o t # <<>> /\ Head(s \o t) = Head(s)
<1> DEFINE S == Range(s) \cup Range(t)
<1>1. s \in Seq(S) /\ t \in Seq(S)
  BY DEF Distinct
<1>2. Range(s \o t) = S
  BY <1>1, RangeConcatenation
<1>3. \A c \in Range(s) : c.name \in Names(s)
  BY DEF Names
<1>4. \A c \in Range(t) : c.name \in Names(t)
  BY DEF Names
<1>5. Range(s) \cap Range(t) = {}
  BY <1>3, <1>4
<1>6. s \o t \in Seq(S)
  BY <1>1, ConcatProperties
<1>7. IsInjective(s \o t)
  <2>1. s \in Seq(Range(s)) /\ t \in Seq(Range(t)) /\ IsInjective(s) /\ IsInjective(t)
    BY DEF Distinct
  <2>2. QED BY <2>1, <1>5, InjectiveConcat
<1>8. \A c, d \in S : c.name = d.name => c = d
  BY <1>3, <1>4 DEF Distinct
<1>9. Names(s \o t) = Names(s) \cup Names(t)
  BY <1>2 DEF Names
<1>10. /\ t # <<>> => s \o t # <<>> /\ (s \o t)[Len(s \o t)] = t[Len(t)]
       /\ s # <<>> => s \o t # <<>> /\ Head(s \o t) = Head(s)
  <2>1. /\ Len(s \o t) = Len(s) + Len(t)
        /\ \A k \in 1..Len(s) + Len(t) : (s \o t)[k] = IF k <= Len(s) THEN s[k] ELSE t[k - Len(s)]
    BY <1>1, ConcatProperties
  <2>2. Len(s) \in Nat /\ Len(t) \in Nat /\ (t # <<>> => Len(t) > 0) /\ (s # <<>> => Len(s) > 0)
    BY <1>1
  <2>3. ASSUME t # <<>> PROVE s \o t # <<>> /\ (s \o t)[Len(s \o t)] = t[Len(t)]
    <3>1. Len(s) + Len(t) \in 1..Len(s) + Len(t) /\ ~ (Len(s) + Len(t) <= Len(s))
          /\ (Len(s) + Len(t)) - Len(s) = Len(t)
      BY <2>2, <2>3
    <3>2. (s \o t)[Len(s) + Len(t)] = t[Len(t)]
      BY <2>1, <3>1
    <3>3. QED BY <2>1, <2>2, <2>3, <3>2
  <2>4. ASSUME s # <<>> PROVE s \o t # <<>> /\ Head(s \o t) = Head(s)
    <3>1. 1 \in 1..Len(s) + Len(t) /\ 1 <= Len(s) /\ Len(s) + Len(t) > 0
      BY <2>2, <2>4
    <3>2. (s \o t)[1] = s[1] /\ s \o t # <<>>
      BY <2>1, <3>1
    <3>3. Head(s \o t) = (s \o t)[1] /\ Head(s) = s[1]
      BY <1>1, <1>6, <2>4, <3>2
    <3>4. QED BY <3>2, <3>3
  <2>5. QED BY <2>3, <2>4
<1>11. QED BY <1>2, <1>6, <1>7, <1>8, <1>9, <1>10 DEF Distinct

\* Lists of one, two, three and four calls.
LEMMA OneCall ==
    ASSUME NEW c
    PROVE  Distinct(<<c>>) /\ Range(<<c>>) = {c} /\ Names(<<c>>) = {c.name} /\ Head(<<c>>) = c
<1>0. PICK s : s = <<c>>
  OBVIOUS
<1>1. s \in [1..1 -> {c}] /\ 1 \in Nat /\ s[1] = c /\ Head(s) = c
  BY <1>0
<1>2. \A i, j \in 1..1 : s[i].name = s[j].name => i = j
  BY <1>1
<1>3. Distinct(s)
  BY <1>1, <1>2, ListIs
<1>a. /\ \A x : x \in Range(s) <=> \E i \in 1..1 : x = s[i]
      /\ \A x : x \in Names(s) <=> \E i \in 1..1 : x = s[i].name
  BY <1>1 DEF Range, Names
<1>4. QED BY <1>0, <1>1, <1>3, <1>a

\* Two calls.
LEMMA TwoCalls ==
    ASSUME NEW c, NEW d, c.name # d.name
    PROVE  /\ Distinct(<<c, d>>) /\ Range(<<c, d>>) = {c, d} /\ Names(<<c, d>>) = {c.name, d.name}
           /\ Head(<<c, d>>) = c
<1>0. PICK s : s = <<c, d>>
  OBVIOUS
<1>1. s \in [1..2 -> {c, d}] /\ 2 \in Nat /\ s[1] = c /\ s[2] = d /\ Head(s) = c
  BY <1>0
<1>2. \A i, j \in 1..2 : s[i].name = s[j].name => i = j
  BY <1>1
<1>3. Distinct(s)
  BY <1>1, <1>2, ListIs
<1>a. /\ \A x : x \in Range(s) <=> \E i \in 1..2 : x = s[i]
      /\ \A x : x \in Names(s) <=> \E i \in 1..2 : x = s[i].name
  BY <1>1 DEF Range, Names
<1>4. QED BY <1>0, <1>1, <1>3, <1>a

\* Three calls.
LEMMA ThreeCalls ==
    ASSUME NEW c, NEW d, NEW e, c.name # d.name, c.name # e.name, d.name # e.name
    PROVE  /\ Distinct(<<c, d, e>>) /\ Range(<<c, d, e>>) = {c, d, e}
           /\ Names(<<c, d, e>>) = {c.name, d.name, e.name}
           /\ Head(<<c, d, e>>) = c
<1>0. PICK s : s = <<c, d, e>>
  OBVIOUS
<1>1. /\ s \in [1..3 -> {c, d, e}] /\ 3 \in Nat
      /\ s[1] = c /\ s[2] = d /\ s[3] = e /\ Head(s) = c
  BY <1>0
<1>2. \A i, j \in 1..3 : s[i].name = s[j].name => i = j
  BY <1>1
<1>3. Distinct(s)
  BY <1>1, <1>2, ListIs
<1>a. /\ \A x : x \in Range(s) <=> \E i \in 1..3 : x = s[i]
      /\ \A x : x \in Names(s) <=> \E i \in 1..3 : x = s[i].name
  BY <1>1 DEF Range, Names
<1>4. QED BY <1>0, <1>1, <1>3, <1>a

\* Kinds that only the answer to a call gives rise to.
Born == {"dbStats", "find", "chunks"}

\* A program: calls with different names, each of which may do what CallInv says.
IsProgram(s) == Distinct(s) /\ \A c \in Range(s) : CallInv(c) /\ c.name[1] \notin Born

\* What is deferred is a program of one call that changes nothing else.
LEMMA TimeIs ==
    /\ IsProgram(<<Ask("time")>>) /\ Names(<<Ask("time")>>) = {<<"time">>}
    /\ Ask("time").name = <<"time">>
<1>1. Ask("time").name = <<"time">> /\ Ask("time").fail = {"on"} /\ Ask("time").bad = {} /\ Plain(Ask("time"))
  BY CallIs DEF Ask
<1>2. CallInv(Ask("time")) /\ Ask("time").name[1] \notin Born
  BY <1>1 DEF CallInv, Policies, Spoilers, Born
<1>3. Distinct(<<Ask("time")>>) /\ Range(<<Ask("time")>>) = {Ask("time")} /\ Names(<<Ask("time")>>) = {Ask("time").name}
  BY OneCall
<1>4. QED BY <1>1, <1>2, <1>3 DEF IsProgram

\* One program after another.
LEMMA BothPrograms ==
    ASSUME NEW s, NEW t, IsProgram(s), IsProgram(t), Names(s) \cap Names(t) = {}
    PROVE  /\ IsProgram(s \o t) /\ Names(s \o t) = Names(s) \cup Names(t)
           /\ t # <<>> => s \o t # <<>> /\ (s \o t)[Len(s \o t)] = t[Len(t)]
           /\ s # <<>> => s \o t # <<>> /\ Head(s \o t) = Head(s)
BY BothLists DEF IsProgram

-----------------------------------------------------------------------------
\* General, FCV, Top, the status and the configuration of the replica set: one call each.
LEMMA ShortPrograms ==
    /\ mode = "general" => IsProgram(General) /\ Names(General) = {<<"ping">>}
    /\ mode = "fcv" => IsProgram(FCV) /\ Names(FCV) = {<<"getParameter">>}
    /\ mode = "topmetrics" => IsProgram(Top) /\ Names(Top) = {<<"top">>}
    /\ mode = "replicasetstatus" => IsProgram(ReplSetStatus) /\ Names(ReplSetStatus) = {<<"replSetGetStatus">>}
    /\ mode = "replicasetconfig" => IsProgram(ReplSetConfig) /\ Names(ReplSetConfig) = {<<"replSetGetConfig">>}
<1>1. ASSUME NEW c, CallInv(c), c.name[1] \notin Born
      PROVE  IsProgram(<<c>>) /\ Names(<<c>>) = {c.name}
  BY <1>1, OneCall DEF IsProgram
<1>2. CASE mode = "general"
  <2> DEFINE c == Call(<<"ping">>, {"told"}, {})
  <2>1. c.name = <<"ping">> /\ c.fail = {"told"} /\ c.bad = {}
    BY CallIs
  <2> HIDE DEF c
  <2>2. CallInv(c) /\ c.name[1] \notin Born
    BY <1>2, <2>1 DEF CallInv, Policies, Spoilers, Born
  <2>3. General = <<c>>
    BY DEF General, c
  <2>4. QED BY <1>1, <1>2, <2>1, <2>2, <2>3
<1>3. CASE mode = "fcv"
  <2> DEFINE c == Call(<<"getParameter">>, {"invalid"}, {"on", "invalid"})
  <2>1. c.name = <<"getParameter">> /\ c.fail = {"invalid"} /\ c.bad = {"on", "invalid"}
    BY CallIs
  <2> HIDE DEF c
  <2>2. CallInv(c) /\ c.name[1] \notin Born
    BY <1>3, <2>1 DEF CallInv, Policies, Spoilers, Born
  <2>3. FCV = <<c>>
    BY DEF FCV, c
  <2>4. QED BY <1>1, <1>3, <2>1, <2>2, <2>3
<1>4. CASE mode = "topmetrics"
  <2> DEFINE c == Call(<<"top">>, {"invalid"}, {"invalidOn"})
  <2>1. c.name = <<"top">> /\ c.fail = {"invalid"} /\ c.bad = {"invalidOn"}
    BY CallIs
  <2> HIDE DEF c
  <2>2. CallInv(c) /\ c.name[1] \notin Born
    BY <1>4, <2>1 DEF CallInv, Policies, Spoilers, Born
  <2>3. Top = <<c>>
    BY DEF Top, c
  <2>4. QED BY <1>1, <1>4, <2>1, <2>2, <2>3
<1>5. CASE mode = "replicasetstatus"
  <2> DEFINE c == Call(<<"replSetGetStatus">>, {"return"}, {})
  <2>1. c.name = <<"replSetGetStatus">> /\ c.fail = {"return"} /\ c.bad = {}
    BY CallIs
  <2> HIDE DEF c
  <2>2. CallInv(c) /\ c.name[1] \notin Born
    BY <1>5, <2>1 DEF CallInv, Policies, Spoilers, Born
  <2>3. ReplSetStatus = <<c>>
    BY DEF ReplSetStatus, c
  <2>4. QED BY <1>1, <1>5, <2>1, <2>2, <2>3
<1>6. CASE mode = "replicasetconfig"
  <2> DEFINE c == Call(<<"replSetGetConfig">>, {"return"}, {"return"})
  <2>1. c.name = <<"replSetGetConfig">> /\ c.fail = {"return"} /\ c.bad = {"return"}
    BY CallIs
  <2> HIDE DEF c
  <2>2. CallInv(c) /\ c.name[1] \notin Born
    BY <1>6, <2>1 DEF CallInv, Policies, Spoilers, Born
  <2>3. ReplSetConfig = <<c>>
    BY DEF ReplSetConfig, c
  <2>4. QED BY <1>1, <1>6, <2>1, <2>2, <2>3
<1>7. QED BY <1>2, <1>3, <1>4, <1>5, <1>6

\* currentOp and the fsync lock.
LEMMA CurrentOpProgram ==
    ASSUME mode = "currentopmetrics"
    PROVE  IsProgram(CurrentOp) /\ Names(CurrentOp) = {<<"currentOp">>, <<"fsync">>}
<1> DEFINE c == Call(<<"currentOp">>, {"invalid"}, IF slow THEN {"on", "invalidOn"} ELSE {})
           d == Ask("fsync")
<1>1. /\ c.name = <<"currentOp">> /\ c.fail = {"invalid"} /\ c.bad = IF slow THEN {"on", "invalidOn"} ELSE {}
      /\ d.name = <<"fsync">> /\ d.fail = {"on"} /\ d.bad = {} /\ Plain(d)
  BY CallIs DEF Ask
<1>2. CurrentOp = <<c, d>>
  BY DEF CurrentOp
<1> HIDE DEF c, d
<1>3. CallInv(c) /\ c.name[1] \notin Born
  BY <1>1 DEF CallInv, Policies, Spoilers, Born
<1>4. CallInv(d) /\ d.name[1] \notin Born
  BY <1>1 DEF CallInv, Policies, Spoilers, Born
<1>5. Distinct(<<c, d>>) /\ Range(<<c, d>>) = {c, d} /\ Names(<<c, d>>) = {c.name, d.name}
  <2>1. c.name # d.name
    BY <1>1
  <2>2. QED BY <2>1, TwoCalls
<1>6. QED BY <1>1, <1>2, <1>3, <1>4, <1>5 DEF IsProgram

\* The chunks, and the databases to be listed.
LEMMA ShardsProgram ==
    ASSUME mode = "shards"
    PROVE  IsProgram(Shards) /\ Names(Shards) = {<<"chunksTotal">>, <<"chunksPerShard">>, <<"databases">>}
<1> DEFINE c == Ask("chunksTotal")
           d == Ask("chunksPerShard")
           e == Ask("databases")
<1>1. /\ c.name = <<"chunksTotal">> /\ d.name = <<"chunksPerShard">> /\ e.name = <<"databases">>
      /\ \A x \in {c, d, e} : x.fail = {"on"} /\ x.bad = {} /\ Plain(x)
  BY CallIs DEF Ask
<1>2. Shards = <<c, d, e>>
  BY DEF Shards
<1> HIDE DEF c, d, e
<1>3. \A x \in {c, d, e} : CallInv(x) /\ x.name[1] \notin Born
  BY <1>1 DEF CallInv, Policies, Spoilers, Born
<1>4. /\ Distinct(<<c, d, e>>) /\ Range(<<c, d, e>>) = {c, d, e}
      /\ Names(<<c, d, e>>) = {c.name, d.name, e.name}
  <2>1. c.name # d.name /\ c.name # e.name /\ d.name # e.name
    BY <1>1
  <2>2. QED BY <2>1, ThreeCalls
<1>5. QED BY <1>1, <1>2, <1>3, <1>4 DEF IsProgram

\* What OnlyOn, After and Unless make of a call.
LEMMA CallsWith ==
    ASSUME NEW name, NEW fail, NEW bad, NEW r
    PROVE  /\ LET c == OnlyOn(r, Call(name, fail, bad))
              IN  /\ c.name = name /\ c.fail = fail /\ c.bad = bad
                  /\ c.when = {r} /\ c.after = {} /\ c.unless = {}
           /\ LET c == After(r, Call(name, fail, bad))
              IN  c.name = name /\ c.fail = fail /\ c.bad = bad
           /\ LET c == Unless(r, Call(name, fail, bad))
              IN  c.name = name /\ c.fail = fail /\ c.bad = bad
           /\ \A k : LET c == After(k, OnlyOn(r, Call(name, fail, bad)))
                     IN  c.name = name /\ c.fail = fail /\ c.bad = bad
BY DEF OnlyOn, After, Unless, Call

\* No call.
LEMMA EmptyProgram == IsProgram(<<>>) /\ Names(<<>>) = {}
<1>1. Range(<<>>) = {} /\ <<>> \in Seq(Range(<<>>)) /\ IsInjective(<<>>)
  BY DEF Range, IsInjective
<1>2. QED BY <1>1 DEF IsProgram, Distinct, Names

\* mongosMetrics.
LEMMA MongosProgram ==
    ASSUME mode = "diagnosticdata"
    PROVE  /\ IsProgram(Mongos)
           /\ Names(Mongos) = {<<"partitioned">>, <<"unpartitioned">>, <<"balancerStatus">>, <<"databaseNames">>}
<1> DEFINE n == <<"partitioned", "unpartitioned", "balancerStatus", "databaseNames">>
           S == {OnlyOn("mongos", Ask(n[i])) : i \in 1..4}
<1>0. 1..4 = {1, 2, 3, 4}
  OBVIOUS
<1>1. \A i \in 1..4 : n[i] \in {"partitioned", "unpartitioned", "balancerStatus", "databaseNames"}
  BY <1>0
<1>2. \A i, j \in 1..4 : n[i] = n[j] => i = j
  BY <1>0
<1>3. Mongos = [i \in 1..4 |-> OnlyOn("mongos", Ask(n[i]))]
  BY DEF Mongos
<1>4. n[1] = "partitioned" /\ n[2] = "unpartitioned" /\ n[3] = "balancerStatus" /\ n[4] = "databaseNames"
  OBVIOUS
<1> HIDE DEF n
<1>5. \A i \in 1..4 : Mongos[i] = OnlyOn("mongos", Ask(n[i]))
  BY <1>3
<1>6. \A i \in 1..4 : Mongos[i].name = <<n[i]>> /\ Mongos[i].fail = {"on"} /\ Mongos[i].bad = {}
  BY <1>5, CallsWith DEF Ask
<1>7. Mongos \in [1..4 -> S] /\ 4 \in Nat
  BY <1>3
<1>8. \A i, j \in 1..4 : Mongos[i].name = Mongos[j].name => i = j
  BY <1>2, <1>6
<1> HIDE DEF S
<1>9. Distinct(Mongos)
  BY <1>7, <1>8, ListIs
<1>10. \A c : c \in Range(Mongos) <=> \E i \in 1..4 : c = Mongos[i]
  BY <1>7 DEF Range
<1>11. \A i \in 1..4 : CallInv(Mongos[i]) /\ Mongos[i].name[1] \notin Born
  <2> SUFFICES ASSUME NEW i \in 1..4 PROVE CallInv(Mongos[i]) /\ Mongos[i].name[1] \notin Born
    OBVIOUS
  <2>1. PICK c : c = Mongos[i]
    OBVIOUS
  <2>2. c.name = <<n[i]>> /\ c.fail = {"on"} /\ c.bad = {}
    BY <1>6, <2>1
  <2>3. n[i] \in {"partitioned", "unpartitioned", "balancerStatus", "databaseNames"}
    BY <1>1
  <2>4. CallInv(c) /\ c.name[1] \notin Born
    BY <2>2, <2>3 DEF CallInv, Policies, Spoilers, Born
  <2>5. QED BY <2>1, <2>4
<1>12. \A x : x \in Names(Mongos) <=> \E i \in 1..4 : x = <<n[i]>>
  <2>1. \A i \in 1..4 : Mongos[i].name \in Names(Mongos)
    BY <1>10 DEF Names
  <2>2. ASSUME NEW x \in Names(Mongos) PROVE \E i \in 1..4 : x = <<n[i]>>
    <3>1. PICK c \in Range(Mongos) : x = c.name
      BY <2>2 DEF Names
    <3>2. PICK i \in 1..4 : c = Mongos[i]
      BY <1>10, <3>1
    <3>3. QED BY <1>6, <3>1, <3>2
  <2>3. QED BY <1>6, <2>1, <2>2
<1>13. Names(Mongos) = {<<"partitioned">>, <<"unpartitioned">>, <<"balancerStatus">>, <<"databaseNames">>}
  BY <1>0, <1>4, <1>12
<1>14. QED BY <1>9, <1>10, <1>11, <1>13 DEF IsProgram

\* The diagnostic data collector, compatible or not.
LEMMA DiagnosticProgram ==
    ASSUME mode = "diagnosticdata"
    PROVE  /\ IsProgram(DiagnosticData) /\ <<"time">> \notin Names(DiagnosticData)
           /\ DiagnosticData # <<>> /\ Head(DiagnosticData).name = <<"isMaster">>
           /\ compatible => {<<"version">>, <<"hello">>} \subseteq Names(DiagnosticData)
<1> DEFINE first == <<NodeType, Diagnostic, Security>>
           local == <<Ask("version"), OnlyOn("arbiter", Ask("hello"))>>
<1>1. /\ IsProgram(first) /\ Names(first) = {<<"isMaster">>, <<"getDiagnosticData">>, <<"getCmdLineOpts">>}
      /\ first # <<>> /\ Head(first).name = <<"isMaster">>
  <2>1. PICK c, d, e : c = NodeType /\ d = Diagnostic /\ e = Security
    OBVIOUS
  <2>2. /\ c.name = <<"isMaster">> /\ c.fail = {"on"} /\ c.bad = {} /\ Plain(c)
        /\ d.name = <<"getDiagnosticData">> /\ d.fail = {"on"} /\ d.bad = {"on", "return"}
        /\ e.name = <<"getCmdLineOpts">> /\ e.fail = {"on"} /\ e.bad = {"on"}
    BY <2>1, CallIs, CallsWith DEF NodeType, Diagnostic, Security, Ask
  <2>3. \A x \in {c, d, e} : CallInv(x) /\ x.name[1] \notin Born
    BY <2>2 DEF CallInv, Policies, Spoilers, Born
  <2>4. c.name # d.name /\ c.name # e.name /\ d.name # e.name
    BY <2>2
  <2>5. /\ Distinct(<<c, d, e>>) /\ Range(<<c, d, e>>) = {c, d, e}
        /\ Names(<<c, d, e>>) = {c.name, d.name, e.name} /\ Head(<<c, d, e>>) = c
    BY <2>4, ThreeCalls
  <2>6. first = <<c, d, e>>
    BY <2>1
  <2>7. first # <<>>
    OBVIOUS
  <2> HIDE DEF first
  <2>8. QED BY <2>2, <2>3, <2>5, <2>6, <2>7 DEF IsProgram
<1>2. IsProgram(Special) /\ Names(Special) = {<<"replSetGetStatus">>, <<"oplog">>}
  <2>1. PICK c, d : Special = <<c, d>> /\ c.name = <<"replSetGetStatus">> /\ d.name = <<"oplog">>
                    /\ c.fail = {"told"} /\ c.bad = {} /\ d.fail = {"on"} /\ d.bad = {}
    BY CallsWith DEF Special, Ask
  <2>2. \A x \in {c, d} : CallInv(x) /\ x.name[1] \notin Born
    BY <2>1 DEF CallInv, Policies, Spoilers, Born
  <2>3. Distinct(<<c, d>>) /\ Range(<<c, d>>) = {c, d} /\ Names(<<c, d>>) = {c.name, d.name}
    <3>1. c.name # d.name
      BY <2>1
    <3>2. QED BY <3>1, TwoCalls
  <2>4. QED BY <2>1, <2>2, <2>3 DEF IsProgram
<1>3. IsProgram(local) /\ Names(local) = {<<"version">>, <<"hello">>}
  <2>1. PICK c, d : c = Ask("version") /\ d = OnlyOn("arbiter", Ask("hello"))
    OBVIOUS
  <2>2. /\ c.name = <<"version">> /\ c.fail = {"on"} /\ c.bad = {} /\ Plain(c)
        /\ d.name = <<"hello">> /\ d.fail = {"on"} /\ d.bad = {}
        /\ d.when = {"arbiter"} /\ d.after = {} /\ d.unless = {}
    BY <2>1, CallIs, CallsWith DEF Ask
  <2>3. \A x \in {c, d} : CallInv(x) /\ x.name[1] \notin Born
    BY <2>2 DEF CallInv, Policies, Spoilers, Born
  <2>4. Distinct(<<c, d>>) /\ Range(<<c, d>>) = {c, d} /\ Names(<<c, d>>) = {c.name, d.name}
    <3>1. c.name # d.name
      BY <2>2
    <3>2. QED BY <3>1, TwoCalls
  <2>5. local = <<c, d>>
    BY <2>1
  <2> HIDE DEF local
  <2>6. QED BY <2>2, <2>3, <2>4, <2>5 DEF IsProgram
<1>4. IsProgram(<<>>) /\ Names(<<>>) = {}
  BY EmptyProgram
<1>5. DiagnosticData = first \o (IF compatible THEN (Special \o local) \o Mongos ELSE <<>>)
  BY DEF DiagnosticData
<1> HIDE DEF first, local
<1>6. IsProgram(Special \o local) /\ Names(Special \o local) = Names(Special) \cup Names(local)
  <2>1. Names(Special) \cap Names(local) = {}
    BY <1>2, <1>3
  <2>2. QED BY <1>2, <1>3, <2>1, BothPrograms
<1>7. PICK special : special = Special \o local
  OBVIOUS
<1>8. IsProgram(special \o Mongos) /\ Names(special \o Mongos) = Names(special) \cup Names(Mongos)
  <2>1. Names(special) \cap Names(Mongos) = {}
    BY <1>2, <1>3, <1>6, <1>7, MongosProgram
  <2>2. QED BY <1>6, <1>7, <2>1, MongosProgram, BothPrograms
<1>9. PICK rest : rest = IF compatible THEN special \o Mongos ELSE <<>>
  OBVIOUS
<1>10. IsProgram(rest) /\ Names(rest) = IF compatible THEN Names(special) \cup Names(Mongos) ELSE {}
  BY <1>4, <1>8, <1>9
<1>11. Names(first) \cap Names(rest) = {}
  BY <1>1, <1>2, <1>3, <1>6, <1>7, <1>10, MongosProgram
<1>12. /\ IsProgram(first \o rest) /\ Names(first \o rest) = Names(first) \cup Names(rest)
       /\ first \o rest # <<>> /\ Head(first \o rest) = Head(first)
  BY <1>1, <1>10, <1>11, BothPrograms
<1>13. DiagnosticData = first \o rest
  BY <1>5, <1>7, <1>9
<1>14. /\ <<"time">> \notin Names(first) \cup Names(rest)
       /\ compatible => {<<"version">>, <<"hello">>} \subseteq Names(rest)
  BY <1>1, <1>2, <1>3, <1>6, <1>7, <1>10, MongosProgram
<1>15. QED BY <1>1, <1>12, <1>13, <1>14

\* A program whose calls are named one by one.
LEMMA NamedProgram ==
    ASSUME NEW k \in Nat, NEW S, NEW s \in [1..k -> S], NEW n,
           \A i, j \in 1..k : n[i] = n[j] => i = j,
           \A i \in 1..k : s[i].name = <<n[i]>> /\ n[i] \notin Born /\ CallInv(s[i])
    PROVE  IsProgram(s)
<1>1. \A i, j \in 1..k : s[i].name = s[j].name => i = j
  <2>1. \A x, y : <<x>> = <<y>> => x = y
    OBVIOUS
  <2>2. QED BY <2>1
<1>2. Distinct(s)
  BY <1>1, ListIs
<1>3. \A c : c \in Range(s) <=> \E i \in 1..k : c = s[i]
  BY DEF Range
<1>4. \A i \in 1..k : s[i].name[1] = n[i]
  OBVIOUS
<1>5. QED BY <1>2, <1>3, <1>4 DEF IsProgram

\* The pbm collector.
LEMMA PBMProgram ==
    ASSUME mode = "pbm"
    PROVE  IsProgram(PBM) /\ <<"time">> \notin Names(PBM)
<1>1. PICK a, b, c, d, e, f :
         /\ a = Call(<<"pbmClient">>, {"return"}, {}) /\ b = Ask("pbmConfig")
         /\ c = After("pbmConfig", Ask("isMaster")) /\ d = PBMBackups /\ e = PBMAgents
         /\ f = Ask("configured")
  OBVIOUS
<1>2. /\ a.name = <<"pbmClient">> /\ a.fail = {"return"} /\ a.bad = {}
      /\ b.name = <<"pbmConfig">> /\ c.name = <<"isMaster">> /\ d.name = <<"pbmBackups">>
      /\ e.name = <<"pbmStatus">> /\ f.name = <<"configured">>
      /\ \A x \in {b, c, d, e, f} : x.fail = {"on"} /\ x.bad = {}
  BY <1>1, CallIs, CallsWith DEF Ask, PBMBackups, PBMAgents
<1>3. \A x \in {a, b, c, d, e, f} : CallInv(x)
  BY <1>2 DEF CallInv, Policies, Spoilers
<1>4. PBM = <<a, b, c, d, e, f>>
  BY <1>1 DEF PBM
<1> DEFINE n == <<"pbmClient", "pbmConfig", "isMaster", "pbmBackups", "pbmStatus", "configured">>
<1>5. 1..6 = {1, 2, 3, 4, 5, 6} /\ 6 \in Nat
  OBVIOUS
<1>6. /\ n[1] = "pbmClient" /\ n[2] = "pbmConfig" /\ n[3] = "isMaster" /\ n[4] = "pbmBackups"
      /\ n[5] = "pbmStatus" /\ n[6] = "configured"
  OBVIOUS
<1> HIDE DEF n
<1>7. PICK s : s = <<a, b, c, d, e, f>>
  OBVIOUS
<1>8. /\ s \in [1..6 -> {a, b, c, d, e, f}]
      /\ s[1] = a /\ s[2] = b /\ s[3] = c /\ s[4] = d /\ s[5] = e /\ s[6] = f
  BY <1>7
<1>9. \A i, j \in 1..6 : n[i] = n[j] => i = j
  BY <1>5, <1>6
<1>10. \A i \in 1..6 : s[i].name = <<n[i]>> /\ n[i] \notin Born /\ CallInv(s[i])
  BY <1>2, <1>3, <1>5, <1>6, <1>8 DEF Born
<1>11. IsProgram(s)
  BY <1>5, <1>8, <1>9, <1>10, NamedProgram
<1>12. <<"time">> \notin Names(s)
  <2>1. ASSUME NEW x \in Names(s) PROVE \E i \in 1..6 : x = <<n[i]>>
    <3>1. PICK call \in Range(s) : x = call.name
      BY <2>1 DEF Names
    <3>2. PICK i \in 1..6 : call = s[i]
      BY <1>8, <3>1 DEF Range
    <3>3. s[i].name = <<n[i]>>
      BY <1>10
    <3>4. QED BY <3>1, <3>2, <3>3
  <2>2. QED BY <1>5, <1>6, <2>1
<1>13. QED BY <1>4, <1>7, <1>11, <1>12

\* loadLabels.
LEMMA TopologyProgram ==
    ASSUME mode = "topology"
    PROVE  /\ IsProgram(Topology)
           /\ Topology # <<>> /\ Head(Topology).name = <<"getCmdLineOpts">>
           /\ {<<"clusterId">>, <<"replSetGetStatus">>} \subseteq Names(Topology)
<1>1. PICK a, b, c : /\ a = ClusterRole /\ b = Ask("replSetGetConfig")
                     /\ c = Call(<<"isMaster">>, {"return"}, {})
  OBVIOUS
<1>2. /\ a.name = <<"getCmdLineOpts">> /\ a.fail = {"told"} /\ a.bad = {"return"}
      /\ b.name = <<"replSetGetConfig">> /\ b.fail = {"on"} /\ b.bad = {}
      /\ c.name = <<"isMaster">> /\ c.fail = {"return"} /\ c.bad = {} /\ Plain(c)
  BY <1>1, CallIs DEF Ask, ClusterRole
<1>3. \A x \in {a, b, c} : CallInv(x) /\ x.name[1] \notin Born
  BY <1>2 DEF CallInv, Policies, Spoilers, Born
<1>4. /\ IsProgram(<<a, b, c>>)
      /\ Names(<<a, b, c>>) = {<<"getCmdLineOpts">>, <<"replSetGetConfig">>, <<"isMaster">>}
  <2>1. a.name # b.name /\ a.name # c.name /\ b.name # c.name
    BY <1>2
  <2>2. Distinct(<<a, b, c>>) /\ Range(<<a, b, c>>) = {a, b, c} /\ Names(<<a, b, c>>) = {a.name, b.name, c.name}
    BY <2>1, ThreeCalls
  <2>3. QED BY <1>2, <1>3, <2>2 DEF IsProgram
<1>5. PICK id : id = ClusterID
  OBVIOUS
<1>6. /\ IsProgram(id)
      /\ Names(id) = {<<"configVersion">>, <<"shardIdentity">>, <<"replicaSetId">>, <<"clusterId">>}
  <2>1. PICK p, q, r, t :
           /\ p = Ask("configVersion") /\ q = Unless({<<"configVersion">>}, Ask("shardIdentity"))
           /\ r = Unless({<<"configVersion">>, <<"shardIdentity">>},
                         Call(<<"replicaSetId">>, {"on", "return"}, {}))
           /\ t = Ask("clusterId")
    OBVIOUS
  <2>2. /\ p.name = <<"configVersion">> /\ q.name = <<"shardIdentity">> /\ r.name = <<"replicaSetId">>
        /\ t.name = <<"clusterId">> /\ Plain(t) /\ r.fail = {"on", "return"} /\ r.bad = {}
        /\ \A x \in {p, q, t} : x.fail = {"on"} /\ x.bad = {}
    BY <2>1, CallIs, CallsWith DEF Ask
  <2>3. \A x \in {p, q, r, t} : CallInv(x)
    BY <2>2 DEF CallInv, Policies, Spoilers
  <2>4. id = <<p, q, r, t>>
    BY <1>5, <2>1 DEF ClusterID
  <2> DEFINE n == <<"configVersion", "shardIdentity", "replicaSetId", "clusterId">>
  <2>5. 1..4 = {1, 2, 3, 4} /\ 4 \in Nat
    OBVIOUS
  <2>6. n[1] = "configVersion" /\ n[2] = "shardIdentity" /\ n[3] = "replicaSetId" /\ n[4] = "clusterId"
    OBVIOUS
  <2> HIDE DEF n
  <2>7. id \in [1..4 -> {p, q, r, t}] /\ id[1] = p /\ id[2] = q /\ id[3] = r /\ id[4] = t
    BY <2>4
  <2>8. \A i, j \in 1..4 : n[i] = n[j] => i = j
    BY <2>5, <2>6
  <2>9. \A i \in 1..4 : id[i].name = <<n[i]>> /\ n[i] \notin Born /\ CallInv(id[i])
    BY <2>2, <2>3, <2>5, <2>6, <2>7 DEF Born
  <2>10. IsProgram(id)
    BY <2>5, <2>7, <2>8, <2>9, NamedProgram
  <2>a. \A x : x \in Names(id) <=> \E i \in 1..4 : x = <<n[i]>>
    BY <2>7, <2>9 DEF Range, Names
  <2>11. Names(id) = {<<"configVersion">>, <<"shardIdentity">>, <<"replicaSetId">>, <<"clusterId">>}
    BY <2>5, <2>6, <2>a
  <2>12. QED BY <2>10, <2>11
<1>7. PICK d : d = Ask("replSetGetStatus")
  OBVIOUS
<1>8. IsProgram(<<d>>) /\ Names(<<d>>) = {<<"replSetGetStatus">>}
  <2>1. d.name = <<"replSetGetStatus">> /\ d.fail = {"on"} /\ d.bad = {} /\ Plain(d)
    BY <1>7, CallIs DEF Ask
  <2>2. CallInv(d) /\ d.name[1] \notin Born
    BY <2>1 DEF CallInv, Policies, Spoilers, Born
  <2>3. QED BY <2>1, <2>2, OneCall DEF IsProgram
<1>9. PICK first, last : first = <<a, b, c>> /\ last = <<d>>
  OBVIOUS
<1>a. first # <<>> /\ Head(first).name = <<"getCmdLineOpts">>
  BY <1>2, <1>9
<1>10. Topology = (first \o id) \o last
  BY <1>1, <1>5, <1>7, <1>9 DEF Topology
<1>11. /\ IsProgram(first \o id) /\ Names(first \o id) = Names(first) \cup Names(id)
       /\ first \o id # <<>> /\ Head(first \o id) = Head(first)
  <2>1. Names(first) \cap Names(id) = {}
    BY <1>4, <1>6, <1>9
  <2>2. QED BY <1>4, <1>6, <1>9, <1>a, <2>1, BothPrograms
<1>12. PICK fore : fore = first \o id
  OBVIOUS
<1>13. /\ IsProgram(fore \o last) /\ Names(fore \o last) = Names(fore) \cup Names(last)
       /\ fore \o last # <<>> /\ Head(fore \o last) = Head(fore)
  <2>1. Names(fore) \cap Names(last) = {}
    <3>1. <<"replSetGetStatus">> \notin Names(first)
      BY <1>4, <1>9
    <3>2. <<"replSetGetStatus">> \notin Names(id)
      BY <1>6
    <3>3. QED BY <1>8, <1>9, <1>11, <1>12, <3>1, <3>2
  <2>2. QED BY <1>8, <1>9, <1>11, <1>12, <2>1, BothPrograms
<1>14. QED BY <1>6, <1>8, <1>9, <1>a, <1>10, <1>11, <1>12, <1>13

\* What todo is at first.
LEMMA ProgramIs ==
    ASSUME mode \in Modes
    PROVE  /\ IsProgram(Program)
           /\ mode # "topology" => <<"time">> \notin Names(Program)
           /\ mode = "shards" => <<"databases">> \in Names(Program)
           /\ mode = "diagnosticdata" =>
                 /\ Program # <<>> /\ Head(Program).name = <<"isMaster">>
                 /\ compatible => {<<"version">>, <<"hello">>} \subseteq Names(Program)
           /\ mode = "topology" =>
                 /\ Program # <<>> /\ Head(Program).name = <<"getCmdLineOpts">>
                 /\ {<<"clusterId">>, <<"replSetGetStatus">>} \subseteq Names(Program)
<1>1. CASE mode \in {"general", "fcv", "topmetrics", "replicasetstatus", "replicasetconfig"}
  <2>1. \A x \in {"ping", "getParameter", "top", "replSetGetStatus", "replSetGetConfig"} : <<x>> # <<"time">>
    OBVIOUS
  <2>2. QED BY <1>1, <2>1, ShortPrograms DEF Program
<1>2. CASE mode = "currentopmetrics"
  <2>1. <<"time">> \notin {<<"currentOp">>, <<"fsync">>}
    OBVIOUS
  <2>2. QED BY <1>2, <2>1, CurrentOpProgram DEF Program
<1>3. CASE mode = "diagnosticdata"
  BY <1>3, DiagnosticProgram DEF Program
<1>4. CASE mode = "shards"
  <2>1. <<"time">> \notin {<<"chunksTotal">>, <<"chunksPerShard">>, <<"databases">>}
    OBVIOUS
  <2>2. QED BY <1>4, <2>1, ShardsProgram DEF Program
<1>5. CASE mode = "pbm"
  BY <1>5, PBMProgram DEF Program
<1>6. CASE mode = "topology"
  BY <1>6, TopologyProgram DEF Program
<1>7. QED BY <1>1, <1>2, <1>3, <1>4, <1>5, <1>6, CommandsAssumption

-----------------------------------------------------------------------------
(***************************************************************************)
(* The first state.                                                        *)
(***************************************************************************)
\* Calls that no answer gives rise to have no heirs among themselves.
LEMMA NotBorn ==
    ASSUME NEW name, NEW heir, heir[1] \notin Born
    PROVE  heir \notin Heirs(name)
BY HeirKind DEF Born

\* The first state, in every mode.
LEMMA InitHolds == Init => NamesInv /\ KindsInv /\ ShardInv /\ DiagnosticInv /\ TopologyInv
<1> SUFFICES ASSUME Init PROVE NamesInv /\ KindsInv /\ ShardInv /\ DiagnosticInv /\ TopologyInv
  OBVIOUS
<1>1. mode \in Modes
  BY DEF Init
<1>2. /\ IsProgram(todo) /\ Names(todo) = Names(Program) \cup Names(Deferred)
      /\ mode # "topology" => todo # <<>> /\ todo[Len(todo)] = Ask("time")
      /\ Program # <<>> => todo # <<>> /\ Head(todo) = Head(Program)
  <2>1. PICK p, d : p = Program /\ d = Deferred
    OBVIOUS
  <2>2. todo = p \o d
    BY <2>1 DEF Init
  <2>3. IsProgram(p) /\ (mode # "topology" => <<"time">> \notin Names(p))
    BY <1>1, <2>1, ProgramIs
  <2>4. /\ IsProgram(d) /\ Names(d) = IF mode = "topology" THEN {} ELSE {<<"time">>}
        /\ mode # "topology" => d # <<>> /\ d[Len(d)] = Ask("time")
    <3>1. <<Ask("time")>> # <<>> /\ <<Ask("time")>>[Len(<<Ask("time")>>)] = Ask("time")
      OBVIOUS
    <3>2. QED BY <2>1, <3>1, TimeIs, EmptyProgram DEF Deferred
  <2>5. Names(p) \cap Names(d) = {}
    BY <2>3, <2>4
  <2>6. /\ IsProgram(p \o d) /\ Names(p \o d) = Names(p) \cup Names(d)
        /\ d # <<>> => p \o d # <<>> /\ (p \o d)[Len(p \o d)] = d[Len(d)]
        /\ p # <<>> => p \o d # <<>> /\ Head(p \o d) = Head(p)
    BY <2>3, <2>4, <2>5, BothPrograms
  <2>7. QED BY <2>1, <2>2, <2>4, <2>6
<1>3. \A name \in Names(todo) : name[1] \notin Born
  BY <1>2 DEF IsProgram, Names
<1>4. NamesInv
  <2>1. metrics = <<>> /\ Range(metrics) = {} /\ metrics \in Seq(Range(metrics)) /\ IsInjective(metrics)
    <3>1. Range(<<>>) = {} /\ <<>> \in Seq(Range(<<>>)) /\ IsInjective(<<>>)
      BY DEF Range, IsInjective
    <3>2. QED BY <3>1 DEF Init
  <2>2. \A name \in Names(todo) :
           name \notin Range(metrics) /\ Heirs(name) \cap (Range(metrics) \cup Names(todo)) = {}
    BY <1>3, <2>1, NotBorn
  <2>3. \A name \in Names(todo) : name[1] # "find"
    BY <1>3 DEF Born
  <2>4. QED BY <1>2, <2>1, <2>2, <2>3 DEF NamesInv, IsProgram
<1>5. KindsInv
  <2>1. Sent = {}
    BY DEF Init, Sent
  <2>2. QED BY <1>2, <2>1 DEF KindsInv, IsProgram, Init, RefusalsEarned
<1>6. ShardInv
  BY <1>1, <1>2, ProgramIs DEF ShardInv
<1>7. DiagnosticInv
  BY <1>1, <1>2, ProgramIs DEF DiagnosticInv
<1>8. TopologyInv
  BY <1>1, <1>2, ProgramIs DEF TopologyInv, Init
<1>9. QED BY <1>4, <1>5, <1>6, <1>7, <1>8

-----------------------------------------------------------------------------
(***************************************************************************)
(* The steps.                                                              *)
(***************************************************************************)
\* The current call and those that follow it.
LEMMA TailIs ==
    ASSUME NamesInv, todo # <<>>
    PROVE  /\ Current \in Range(todo) /\ Current.name \in Names(todo)
           /\ Distinct(Tail(todo)) /\ Range(Tail(todo)) = Range(todo) \ {Current}
           /\ Names(Tail(todo)) = Names(todo) \ {Current.name}
           /\ mode # "topology" => Ask("time") \in Range(todo)
           /\ mode # "topology" /\ Current # Ask("time") =>
                 Tail(todo) # <<>> /\ Tail(todo)[Len(Tail(todo))] = Ask("time")
<1> DEFINE S == Range(todo)
           t == Tail(todo)
<1>1. todo \in Seq(S) /\ IsInjective(todo) /\ \A c, d \in S : c.name = d.name => c = d
  BY DEF NamesInv, Distinct
<1>2. t \in Seq(S) /\ IsInjective(t) /\ S = {Current} \cup Range(t) /\ Current \notin Range(t)
  BY <1>1, HeadAndRest DEF Current
<1>3. Distinct(t)
  BY <1>1, <1>2, SeqOfRange DEF Distinct
<1>4. Names(t) = Names(todo) \ {Current.name}
  <2>1. \A name \in Names(t) : name \in Names(todo) /\ name # Current.name
    BY <1>1, <1>2 DEF Names
  <2>2. \A name \in Names(todo) : name # Current.name => name \in Names(t)
    BY <1>2 DEF Names
  <2>3. QED BY <2>1, <2>2
<1>5. Len(todo) \in Nat \ {0} /\ DOMAIN todo = 1..Len(todo) /\ Current = todo[1]
  BY <1>1 DEF Current
<1>6. mode # "topology" => Ask("time") \in S
  BY <1>5 DEF NamesInv, Range
<1>7. ASSUME mode # "topology", Current # Ask("time") PROVE t # <<>> /\ t[Len(t)] = Ask("time")
  <2>1. todo[Len(todo)] = Ask("time")
    BY <1>7 DEF NamesInv
  <2>2. Len(todo) # 1
    BY <1>5, <1>7, <2>1
  <2>3. Len(t) = Len(todo) - 1 /\ \A i \in 1..(Len(todo) - 1) : t[i] = todo[i + 1]
    BY <1>1
  <2>4. PICK n \in Nat \ {0} : n = Len(todo) - 1 /\ n + 1 = Len(todo)
    <3>1. \A k \in Nat \ {0} : k # 1 => k - 1 \in Nat \ {0} /\ (k - 1) + 1 = k
      OBVIOUS
    <3>2. QED BY <1>5, <2>2, <3>1
  <2>5. t[n] = todo[n + 1] /\ Len(t) = n
    <3>1. n \in 1..n
      OBVIOUS
    <3>2. QED BY <2>3, <2>4, <3>1
  <2>6. t # <<>>
    <3>1. Len(<<>>) = 0
      OBVIOUS
    <3>2. QED BY <2>5, <3>1
  <2>7. QED BY <2>1, <2>4, <2>5, <2>6
<1>8. QED BY <1>2, <1>3, <1>4, <1>5, <1>6, <1>7 DEF Names

\* The time a function takes is its last metric.
LEMMA TimeIsLast ==
    ASSUME NamesInv, todo # <<>>, mode # "topology", Current = Ask("time")
    PROVE  Tail(todo) = <<>>
<1>1. todo \in Seq(Range(todo)) /\ IsInjective(todo) /\ todo[Len(todo)] = Ask("time")
  BY DEF NamesInv, Distinct
<1>2. Len(todo) \in Nat \ {0} /\ DOMAIN todo = 1..Len(todo) /\ Current = todo[1]
  BY <1>1 DEF Current
<1>3. 1 \in DOMAIN todo /\ Len(todo) \in DOMAIN todo
  BY <1>2
<1>4. Len(todo) = 1
  BY <1>1, <1>2, <1>3 DEF IsInjective
<1>5. Tail(todo) \in Seq(Range(todo)) /\ Len(Tail(todo)) = 0
  BY <1>1, <1>4
<1>6. QED BY <1>5, EmptySeq

\* The metrics of one call more.
LEMMA OneMore ==
    ASSUME NEW m, m \in Seq(Range(m)), IsInjective(m), NEW name, name \notin Range(m)
    PROVE  /\ Append(m, name) \in Seq(Range(Append(m, name))) /\ IsInjective(Append(m, name))
           /\ Range(Append(m, name)) = Range(m) \cup {name}
<1> DEFINE S == Range(m) \cup {name}
           a == Append(m, name)
<1>1. m \in Seq(S) /\ DOMAIN m = 1..Len(m) /\ Len(m) \in Nat
  OBVIOUS
<1>2. /\ a \in Seq(S) /\ Len(a) = Len(m) + 1
      /\ \A i \in 1..Len(m) : a[i] = m[i]
      /\ a[Len(m) + 1] = name
  BY <1>1, AppendProperties
<1>3. DOMAIN a = 1..(Len(m) + 1)
  BY <1>2
<1> HIDE DEF a
<1>4. \A i \in 1..Len(m) : m[i] \in Range(m)
  BY <1>1 DEF Range
<1>5. \A i \in 1..(Len(m) + 1) : i \in 1..Len(m) \/ i = Len(m) + 1
  BY <1>1
<1>6. IsInjective(a)
  BY <1>1, <1>2, <1>3, <1>4, <1>5 DEF IsInjective
<1>7. Range(a) = S
  <2>1. \A x \in Range(m) : \E i \in 1..Len(m) : x = m[i]
    BY <1>1 DEF Range
  <2>2. \A i \in 1..Len(m) : i \in 1..(Len(m) + 1)
    BY <1>1
  <2>3. Len(m) + 1 \in 1..(Len(m) + 1)
    BY <1>1
  <2>4. \A x \in S : \E i \in 1..(Len(m) + 1) : x = a[i]
    BY <1>2, <2>1, <2>2, <2>3
  <2>5. \A i \in 1..(Len(m) + 1) : a[i] \in S
    BY <1>2, <1>4, <1>5
  <2>6. QED BY <1>3, <2>4, <2>5 DEF Range
<1>8. a \in Seq(Range(a))
  BY <1>2, SeqOfRange
<1>9. QED BY <1>6, <1>7, <1>8 DEF a

\* What is kept of the calls to come.
LEMMA KeptCalls ==
    ASSUME NEW s, Distinct(s), NEW T
    PROVE  /\ Distinct(Keep(s, T)) /\ Range(Keep(s, T)) = Range(s) \cap T
           /\ s # <<>> /\ s[Len(s)] \in T =>
                 Keep(s, T) # <<>> /\ Keep(s, T)[Len(Keep(s, T))] = s[Len(s)]
<1>1. s \in Seq(Range(s)) /\ IsInjective(s) /\ \A c, d \in Range(s) : c.name = d.name => c = d
  BY DEF Distinct
<1>2. /\ Keep(s, T) \in Seq(Range(s))
      /\ Range(Keep(s, T)) = Range(s) \cap T
      /\ IsInjective(Keep(s, T))
      /\ s # <<>> /\ s[Len(s)] \in T => Keep(s, T) # <<>> /\ Keep(s, T)[Len(Keep(s, T))] = s[Len(s)]
  BY <1>1, KeepProperties
<1>3. QED BY <1>1, <1>2, SeqOfRange DEF Distinct

\* What is sent, as a set.
LEMMA SentIs == Sent = Range(metrics)
BY DEF Sent, Range

\* Steps that add no calls keep the names apart.
LEMMA NamesKept ==
    ASSUME NamesInv, mode' = mode, Distinct(todo'), Names(todo') \subseteq Names(todo),
           metrics' \in Seq(Range(metrics')), IsInjective(metrics'),
           Range(metrics') \subseteq Range(metrics) \cup (Names(todo) \ Names(todo')),
           mode # "topology" /\ todo' # <<>> => todo'[Len(todo')] = Ask("time")
    PROVE  NamesInv'
<1> SUFFICES /\ \A name \in Names(todo') :
                   /\ name \notin Range(metrics')
                   /\ Heirs(name) \cap (Range(metrics') \cup Names(todo')) = {}
                   /\ name[1] = "find" => \E db \in Databases : name = <<"find", db>>
  BY DEF NamesInv
<1>1. \A name \in Names(todo) :
         /\ name \notin Range(metrics) /\ Heirs(name) \cap (Range(metrics) \cup Names(todo)) = {}
         /\ name[1] = "find" => \E db \in Databases : name = <<"find", db>>
  BY DEF NamesInv
<1>2. PICK N, M, R, Q : N = Names(todo) /\ M = Names(todo') /\ R = Range(metrics) /\ Q = Range(metrics')
  OBVIOUS
<1>3. M \subseteq N /\ Q \subseteq R \cup (N \ M)
  BY <1>2
<1>4. \A name \in N : /\ name \notin R /\ Heirs(name) \cap (R \cup N) = {}
                      /\ name[1] = "find" => \E db \in Databases : name = <<"find", db>>
  BY <1>1, <1>2
<1>5. \A name \in M : /\ name \notin Q /\ Heirs(name) \cap (Q \cup M) = {}
                      /\ name[1] = "find" => \E db \in Databases : name = <<"find", db>>
  BY <1>3, <1>4
<1>6. QED BY <1>2, <1>5

\* A call that failed, or whose answer is bad.
LEMMA Reacted ==
    ASSUME NamesInv, KindsInv, Asked, NEW policy \in Policies(Current) \cup {"on"}, React(policy)
    PROVE  /\ NamesInv'
           /\ Range(todo') \subseteq Range(todo) /\ Names(todo') \subseteq Names(todo) \ {Current.name}
           /\ Sent' \subseteq Sent \cup {Current.name}
           /\ \/ policy \in {"return", "invalid"} /\ Names(todo') \subseteq {<<"time">>}
              \/ \A name \in Names(todo) \ {Current.name} : name[1] # "dbStats" => name \in Names(todo')
           /\ \A name \in Sent : name[1] # "dbStats" => name \in Sent'
<1>0. /\ Current \in Range(todo) /\ Current.name \in Names(todo)
      /\ Distinct(Tail(todo)) /\ Range(Tail(todo)) = Range(todo) \ {Current}
      /\ Names(Tail(todo)) = Names(todo) \ {Current.name}
      /\ mode # "topology" => Ask("time") \in Range(todo)
      /\ mode # "topology" /\ Current # Ask("time") =>
            Tail(todo) # <<>> /\ Tail(todo)[Len(Tail(todo))] = Ask("time")
  BY TailIs DEF Asked
<1>1. Ask("time").name = <<"time">> /\ Current.name # <<"time">> /\ Current # Ask("time")
  BY TimeIs DEF Asked, Local
<1>2. /\ metrics \in Seq(Range(metrics)) /\ IsInjective(metrics) /\ Current.name \notin Range(metrics)
      /\ Distinct(todo) /\ (mode # "topology" => todo # <<>> /\ todo[Len(todo)] = Ask("time"))
  BY <1>0 DEF NamesInv, Asked
<1>3. /\ mode' = mode
      /\ todo' = CASE policy \in {"return", "invalid"} -> Deferred
                   [] policy = "group" -> Keep(todo, {call \in Range(todo) : ~SameKind(call.name)})
                   [] OTHER -> Tail(todo)
      /\ metrics' = CASE policy = "told" -> Append(metrics, Current.name)
                      [] policy = "group" -> Keep(metrics, {name \in Range(metrics) : ~SameKind(name)})
                      [] OTHER -> metrics
  BY DEF React, Run
<1>4. Sent = Range(metrics) /\ Sent' = Range(metrics')
  BY DEF Sent, Range
<1>5. CASE policy \in {"return", "invalid"}
  <2>1. todo' = Deferred /\ metrics' = metrics
    BY <1>3, <1>5
  <2>2. /\ Distinct(Deferred) /\ Range(Deferred) \subseteq Range(todo)
        /\ Names(Deferred) \subseteq Names(todo) \ {Current.name}
        /\ mode # "topology" => Deferred[Len(Deferred)] = Ask("time")
        /\ mode = "topology" => Deferred = <<>>
        /\ Names(Deferred) \subseteq {<<"time">>}
    <3>1. CASE mode = "topology"
      <4>1. Deferred = <<>> /\ Range(<<>>) = {}
        BY <3>1 DEF Deferred, Range
      <4>2. QED BY <3>1, <4>1, EmptyProgram DEF IsProgram
    <3>2. CASE mode # "topology"
      <4>1. Deferred = <<Ask("time")>>
        BY <3>2 DEF Deferred
      <4>2. /\ Range(<<Ask("time")>>) = {Ask("time")} /\ Names(<<Ask("time")>>) = {<<"time">>}
            /\ Distinct(<<Ask("time")>>)
        BY <1>1, OneCall
      <4>3. <<Ask("time")>>[Len(<<Ask("time")>>)] = Ask("time")
        OBVIOUS
      <4>4. <<"time">> \in Names(todo)
        BY <1>0, <1>1, <3>2 DEF Names
      <4>5. QED BY <1>0, <1>1, <3>2, <4>1, <4>2, <4>3, <4>4
    <3>3. QED BY <3>1, <3>2
  <2>3. NamesInv'
    BY <1>2, <1>3, <2>1, <2>2, NamesKept
  <2>4. QED BY <1>4, <1>5, <2>1, <2>2, <2>3
<1>6. CASE policy = "group"
  <2> DEFINE T == {call \in Range(todo) : ~SameKind(call.name)}
             U == {name \in Range(metrics) : ~SameKind(name)}
  <2>1. todo' = Keep(todo, T) /\ metrics' = Keep(metrics, U)
    BY <1>3, <1>6
  <2>2. Current.name[1] = "dbStats"
    BY <1>0, <1>6 DEF KindsInv, CallInv
  <2>3. \A name : SameKind(name) <=> name[1] = "dbStats"
    BY <2>2 DEF SameKind
  <2>4. mode # "topology" => Ask("time") \in T
    BY <1>0, <1>1, <2>3
  <2> HIDE DEF T, U
  <2>5. /\ Distinct(todo') /\ Range(todo') = Range(todo) \cap T
        /\ mode # "topology" => todo' # <<>> /\ todo'[Len(todo')] = Ask("time")
    BY <1>2, <2>1, <2>4, KeptCalls
  <2>6. metrics' \in Seq(Range(metrics)) /\ Range(metrics') = Range(metrics) \cap U /\ IsInjective(metrics')
    BY <1>2, <2>1, KeepProperties
  <2>7. metrics' \in Seq(Range(metrics'))
    BY <2>6, SeqOfRange
  <2>8. Names(todo') \subseteq Names(todo)
    BY <2>5 DEF Names
  <2>9. NamesInv'
    BY <1>2, <1>3, <2>5, <2>6, <2>7, <2>8, NamesKept
  <2>10. Current.name \notin Names(todo')
    BY <2>2, <2>3, <2>5 DEF Names, T
  <2>11. \A name \in Names(todo) : name[1] # "dbStats" => name \in Names(todo')
    BY <2>3, <2>5 DEF Names, T
  <2>12. \A name \in Range(metrics) : name[1] # "dbStats" => name \in Range(metrics')
    BY <2>3, <2>6 DEF U
  <2>13. QED BY <1>4, <2>5, <2>6, <2>8, <2>9, <2>10, <2>11, <2>12
<1>7. CASE policy \notin {"return", "invalid", "group"}
  <2>1. todo' = Tail(todo) /\ metrics' = IF policy = "told" THEN Append(metrics, Current.name) ELSE metrics
    BY <1>3, <1>7
  <2>2. /\ Append(metrics, Current.name) \in Seq(Range(Append(metrics, Current.name)))
        /\ IsInjective(Append(metrics, Current.name))
        /\ Range(Append(metrics, Current.name)) = Range(metrics) \cup {Current.name}
    BY <1>2, OneMore
  <2>3. /\ metrics' \in Seq(Range(metrics')) /\ IsInjective(metrics')
        /\ Range(metrics) \subseteq Range(metrics') /\ Range(metrics') \subseteq Range(metrics) \cup {Current.name}
    BY <1>2, <2>1, <2>2
  <2>4. /\ Distinct(todo') /\ Names(todo') = Names(todo) \ {Current.name} /\ Range(todo') \subseteq Range(todo)
        /\ mode # "topology" => todo'[Len(todo')] = Ask("time")
    BY <1>0, <1>1, <2>1
  <2>5. Range(metrics') \subseteq Range(metrics) \cup (Names(todo) \ Names(todo'))
    BY <1>0, <2>3, <2>4
  <2>6. NamesInv'
    BY <1>3, <2>3, <2>4, <2>5, NamesKept
  <2>7. QED BY <1>4, <2>3, <2>4, <2>6
<1>8. QED BY <1>5, <1>6, <1>7

\* A call that is answered.
LEMMA Answered ==
    ASSUME NamesInv, Answer
    PROVE  /\ NamesInv'
           /\ Names(todo') = Names(Follow(Current.name)) \cup (Names(todo) \ {Current.name})
           /\ Range(todo') = Range(Follow(Current.name)) \cup (Range(todo) \ {Current})
           /\ Names(Follow(Current.name)) \subseteq Heirs(Current.name)
           /\ Sent' = Sent \cup {Current.name}
<1>0. /\ Current.name \in Names(todo)
      /\ Distinct(Tail(todo)) /\ Range(Tail(todo)) = Range(todo) \ {Current}
      /\ Names(Tail(todo)) = Names(todo) \ {Current.name}
      /\ mode # "topology" /\ Current # Ask("time") =>
            Tail(todo) # <<>> /\ Tail(todo)[Len(Tail(todo))] = Ask("time")
  BY TailIs DEF Answer, Asked
<1>1. Current # Ask("time")
  <2>1. Current.name # <<"time">>
    BY DEF Answer, Asked, Local
  <2>2. QED BY <2>1, TimeIs
<1>2. \A name \in Names(todo) :
         /\ name \notin Range(metrics) /\ Heirs(name) \cap (Range(metrics) \cup Names(todo)) = {}
         /\ name[1] = "find" => \E db \in Databases : name = <<"find", db>>
  BY DEF NamesInv
<1>3. mode' = mode /\ todo' = Follow(Current.name) \o Tail(todo) /\ metrics' = Append(metrics, Current.name)
  BY DEF Answer, Run
<1>4. PICK c, f, t : c = Current.name /\ f = Follow(c) /\ t = Tail(todo)
  OBVIOUS
<1>5. /\ Distinct(f)
      /\ \A x \in Range(f) :
            /\ x.name \in Heirs(c) /\ Heirs(x.name) \subseteq Heirs(c)
            /\ \A d \in Range(f) : d.name \notin Heirs(x.name)
            /\ x.name[1] = "find" => \E db \in Databases : x.name = <<"find", db>>
  <2>1. c[1] = "find" => \E db \in Databases : c = <<"find", db>>
    BY <1>0, <1>2, <1>4
  <2>2. /\ Distinct(Follow(c))
        /\ \A x \in Range(Follow(c)) :
              /\ x.name \in Heirs(c) /\ Heirs(x.name) \subseteq Heirs(c)
              /\ \A d \in Range(Follow(c)) : d.name \notin Heirs(x.name)
              /\ x.name[1] = "find" => \E db \in Databases : x.name = <<"find", db>>
    BY <2>1, FollowIs
  <2>3. QED BY <1>4, <2>2
<1>6. PICK F, N, R : F = Names(f) /\ N = Names(todo) /\ R = Range(metrics)
  OBVIOUS
<1>7. \A name \in F : /\ name \in Heirs(c) /\ Heirs(name) \subseteq Heirs(c) /\ F \cap Heirs(name) = {}
                      /\ name[1] = "find" => \E db \in Databases : name = <<"find", db>>
  BY <1>5, <1>6 DEF Names
<1>8. c \in N /\ Heirs(c) \cap (R \cup N) = {} /\ c \notin R
  BY <1>0, <1>2, <1>4, <1>6
<1>9. /\ Distinct(f \o t)
      /\ Range(f \o t) = Range(f) \cup Range(t) /\ Names(f \o t) = Names(f) \cup Names(t)
      /\ t # <<>> => f \o t # <<>> /\ (f \o t)[Len(f \o t)] = t[Len(t)]
  <2>1. Distinct(t) /\ Names(t) = N \ {c}
    BY <1>0, <1>4, <1>6
  <2>2. Names(f) \cap Names(t) = {}
    BY <1>6, <1>7, <1>8, <2>1
  <2>3. QED BY <1>5, <2>1, <2>2, BothLists
<1>10. todo' = f \o t /\ metrics' = Append(metrics, c)
  BY <1>3, <1>4
<1>11. /\ metrics' \in Seq(Range(metrics')) /\ IsInjective(metrics') /\ Range(metrics') = R \cup {c}
  <2>1. metrics \in Seq(Range(metrics)) /\ IsInjective(metrics) /\ c \notin Range(metrics)
    BY <1>6, <1>8 DEF NamesInv
  <2>2. /\ Append(metrics, c) \in Seq(Range(Append(metrics, c))) /\ IsInjective(Append(metrics, c))
        /\ Range(Append(metrics, c)) = Range(metrics) \cup {c}
    BY <2>1, OneMore
  <2>3. QED BY <1>6, <1>10, <2>2
<1>12. Names(todo') = F \cup (N \ {c}) /\ Distinct(todo') /\ Range(todo') = Range(f) \cup (Range(todo) \ {Current})
  BY <1>0, <1>4, <1>6, <1>9, <1>10
<1>13. mode # "topology" => todo'[Len(todo')] = Ask("time")
  BY <1>0, <1>1, <1>4, <1>9, <1>10
<1>14. \A name \in F \cup (N \ {c}) :
          /\ name \notin R \cup {c}
          /\ Heirs(name) \cap (R \cup {c} \cup F \cup (N \ {c})) = {}
          /\ name[1] = "find" => \E db \in Databases : name = <<"find", db>>
  <2> SUFFICES ASSUME NEW name \in F \cup (N \ {c})
               PROVE  /\ name \notin R \cup {c}
                      /\ Heirs(name) \cap (R \cup {c} \cup F \cup (N \ {c})) = {}
                      /\ name[1] = "find" => \E db \in Databases : name = <<"find", db>>
    OBVIOUS
  <2>1. CASE name \in F
    BY <1>7, <1>8, <2>1
  <2>2. CASE name \in N \ {c}
    <3>1. /\ name \notin R /\ Heirs(name) \cap (R \cup N) = {}
          /\ name[1] = "find" => \E db \in Databases : name = <<"find", db>>
      BY <1>2, <1>6, <2>2
    <3>2. c[1] = "find" => \E db \in Databases : c = <<"find", db>>
      BY <1>2, <1>6, <1>8
    <3>3. name # c /\ name \notin Heirs(c) /\ c \notin Heirs(name)
      BY <1>8, <2>2, <3>1
    <3>4. \A x \in {name, c} : x[1] = "find" => \E db \in Databases : x = <<"find", db>>
      BY <3>1, <3>2
    <3>5. Heirs(name) \cap Heirs(c) = {}
      BY <3>3, <3>4, HeirsDisjoint
    <3>6. QED BY <1>7, <1>8, <2>2, <3>1, <3>5
  <2>3. QED BY <2>1, <2>2
<1>15. NamesInv'
  <2>1. \A name \in Names(todo') :
          /\ name \notin Range(metrics')
          /\ Heirs(name) \cap (Range(metrics') \cup Names(todo')) = {}
          /\ name[1] = "find" => \E db \in Databases : name = <<"find", db>>
    BY <1>11, <1>12, <1>14
  <2>2. QED BY <1>3, <1>11, <1>12, <1>13, <2>1 DEF NamesInv
<1>16. Sent = R /\ Sent' = Range(metrics')
  BY <1>6 DEF Sent, Range
<1>17. QED BY <1>4, <1>6, <1>7, <1>11, <1>12, <1>15, <1>16

\* What the function gives up the rest of its calls for.
Quits ==
    /\ Current.name \notin Local /\ Current.name \in failed' /\ roleSeen' = roleSeen
    /\ \/ {"return", "invalid"} \cap Tolerated(Current.fail) # {}
       \/ {"return", "invalid"} \cap Current.bad # {} /\ Current.name \in replied'

\* What a step does to the calls to come and to the metrics, by the call it is about.
StepFacts ==
    /\ todo # <<>> /\ Names(todo') \subseteq (Names(todo) \ {Current.name}) \cup Heirs(Current.name)
    /\ failed \subseteq failed' /\ replied \subseteq replied'
    /\ ~Applies \/ Current.name \in Sent' \cup failed'
    /\ \/ Quits /\ Names(todo') \subseteq {<<"time">>}
       \/ \A name \in Names(todo) \ {Current.name} : name[1] # "dbStats" => name \in Names(todo')
    /\ \A name \in Sent : name[1] # "dbStats" => name \in Sent'
    /\ roleSeen' # roleSeen => Current.name = <<"isMaster">>
    /\ \/ ~Applies \/ Current.name \in failed' \cup Local
       \/ Names(Follow(Current.name)) \subseteq Names(todo')

\* A failure, or a bad answer, is such a step.
LEMMA ReactedFacts ==
    ASSUME NamesInv, KindsInv, Asked, NEW policy \in Policies(Current) \cup {"on"}, React(policy),
           replied \subseteq replied',
           policy \in {"return", "invalid"} =>
               \/ policy \in Tolerated(Current.fail)
               \/ policy \in Current.bad /\ Current.name \in replied'
    PROVE  NamesInv' /\ StepFacts
<1>1. /\ NamesInv'
      /\ Names(todo') \subseteq Names(todo) \ {Current.name}
      /\ \/ policy \in {"return", "invalid"} /\ Names(todo') \subseteq {<<"time">>}
         \/ \A name \in Names(todo) \ {Current.name} : name[1] # "dbStats" => name \in Names(todo')
      /\ \A name \in Sent : name[1] # "dbStats" => name \in Sent'
  BY Reacted
<1>2. failed' = failed \cup {Current.name} /\ roleSeen' = roleSeen
  BY DEF React
<1>3. todo # <<>> /\ Current.name \notin Local
  BY DEF Asked
<1>4. policy \in {"return", "invalid"} => Quits
  BY <1>2, <1>3 DEF Quits
<1>5. QED BY <1>1, <1>2, <1>3, <1>4 DEF StepFacts

\* What the calls that an answer gives rise to may do.
LEMMA FollowKinds ==
    ASSUME NamesInv, KindsInv, todo # <<>>
    PROVE  \A call \in Range(Follow(Current.name)) : CallInv(call)
<1> SUFFICES ASSUME NEW call \in Range(Follow(Current.name)) PROVE CallInv(call)
  OBVIOUS
<1>1. Current.name \in Names(todo) /\ CallInv(Current)
  BY TailIs DEF KindsInv
<1>2. PICK c : c = Current.name
  OBVIOUS
<1>3. c[1] = "find" => \E db \in Databases : c = <<"find", db>>
  BY <1>1, <1>2 DEF NamesInv
<1>4. \A x \in Range(Follow(c)) :
         /\ x.name \in Heirs(c) /\ x.name[1] \in {"dbStats", "find", "chunks"} /\ Plain(x) /\ x.bad = {}
         /\ x.fail = IF x.name[1] = "dbStats" THEN {"group"} ELSE {"on"}
  BY <1>3, FollowIs
<1>5. /\ call.name \in Heirs(c) /\ call.name[1] \in {"dbStats", "find", "chunks"} /\ Plain(call)
      /\ call.bad = {} /\ call.fail = IF call.name[1] = "dbStats" THEN {"group"} ELSE {"on"}
  BY <1>2, <1>4
<1>6. call.name[1] = "dbStats" => c = <<"databaseNames">>
  BY <1>5, HeirKind
<1>7. mode = "shards" => c # <<"databaseNames">>
  BY <1>1, <1>2 DEF CallInv
<1>8. /\ call.name # <<"databaseNames">> /\ call.name # <<"isMaster">> /\ call.name # <<"version">>
      /\ call.name # <<"hello">> /\ call.name # <<"clusterId">> /\ call.name # <<"replSetGetStatus">>
      /\ call.name # <<"replicaSetId">>
  BY <1>5
<1>9. QED BY <1>5, <1>6, <1>7, <1>8 DEF CallInv, Policies

\* Every step keeps the names apart, and does what StepFacts says or changes no call.
LEMMA StepIs ==
    ASSUME NamesInv, KindsInv, Next
    PROVE  NamesInv' /\ (UNCHANGED <<todo, replied, failed, metrics, roleSeen>> \/ StepFacts)
<1>1. CASE Pass
  <2>1. todo # <<>> /\ todo' = Tail(todo) /\ mode' = mode /\ metrics' = metrics
        /\ replied' = replied /\ failed' = failed /\ roleSeen' = roleSeen /\ ~Applies
    BY <1>1 DEF Pass, Run
  <2>2. /\ Distinct(Tail(todo)) /\ Names(Tail(todo)) = Names(todo) \ {Current.name}
        /\ mode # "topology" /\ Current # Ask("time") =>
              Tail(todo) # <<>> /\ Tail(todo)[Len(Tail(todo))] = Ask("time")
    BY <2>1, TailIs
  <2>3. Current = Ask("time") => Applies
    <3>1. Plain(Ask("time")) /\ roleSeen \in Roles \cup {"unknown"}
      BY CallIs DEF Ask, KindsInv
    <3>2. QED BY <3>1 DEF Applies, Plain
  <2>4. Sent' = Sent
    BY <2>1 DEF Sent
  <2>5. metrics \in Seq(Range(metrics)) /\ IsInjective(metrics)
    BY DEF NamesInv
  <2>6. NamesInv'
    BY <2>1, <2>2, <2>3, <2>5, NamesKept
  <2>7. QED BY <2>1, <2>2, <2>4, <2>6 DEF StepFacts
<1>2. CASE SendLocal
  <2>1. todo # <<>> /\ todo' = Tail(todo) /\ mode' = mode /\ metrics' = Append(metrics, Current.name)
        /\ replied' = replied /\ failed' = failed /\ roleSeen' = roleSeen /\ Current.name \in Local
    BY <1>2 DEF SendLocal, Run
  <2>2. /\ Current \in Range(todo) /\ Current.name \in Names(todo)
        /\ Distinct(Tail(todo)) /\ Names(Tail(todo)) = Names(todo) \ {Current.name}
        /\ mode # "topology" /\ Current # Ask("time") =>
              Tail(todo) # <<>> /\ Tail(todo)[Len(Tail(todo))] = Ask("time")
    BY <2>1, TailIs
  <2>3. mode # "topology" /\ Current = Ask("time") => Tail(todo) = <<>>
    BY <2>1, TimeIsLast
  <2>4. metrics \in Seq(Range(metrics)) /\ IsInjective(metrics) /\ Current.name \notin Range(metrics)
    BY <2>2 DEF NamesInv
  <2>5. /\ metrics' \in Seq(Range(metrics')) /\ IsInjective(metrics')
        /\ Range(metrics') = Range(metrics) \cup {Current.name}
    BY <2>1, <2>4, OneMore
  <2>6. Range(metrics') \subseteq Range(metrics) \cup (Names(todo) \ Names(todo'))
    BY <2>1, <2>2, <2>5
  <2>7. NamesInv'
    BY <2>1, <2>2, <2>3, <2>5, <2>6, NamesKept
  <2>8. Sent = Range(metrics) /\ Sent' = Range(metrics')
    BY DEF Sent, Range
  <2>9. QED BY <2>1, <2>2, <2>5, <2>7, <2>8 DEF StepFacts
<1>3. CASE Answer
  <2>1. /\ todo # <<>> /\ failed' = failed /\ replied' = replied \cup {Current.name}
        /\ roleSeen' # roleSeen => Current.name = <<"isMaster">>
    BY <1>3 DEF Answer, Asked
  <2>2. /\ NamesInv'
        /\ Names(todo') = Names(Follow(Current.name)) \cup (Names(todo) \ {Current.name})
        /\ Names(Follow(Current.name)) \subseteq Heirs(Current.name)
        /\ Sent' = Sent \cup {Current.name}
    BY <1>3, Answered
  <2>3. QED BY <2>1, <2>2 DEF StepFacts
<1>4. CASE Failure
  <2>1. PICK policy \in Tolerated(Current.fail) : React(policy)
    BY <1>4 DEF Failure
  <2>2. policy \in Policies(Current) \cup {"on"} /\ Asked /\ replied \subseteq replied'
    BY <1>4, <2>1 DEF Failure, Tolerated, Policies
  <2>3. QED BY <2>1, <2>2, ReactedFacts
<1>5. CASE BadAnswer
  <2>1. PICK policy \in Current.bad : React(policy)
    BY <1>5 DEF BadAnswer
  <2>2. /\ policy \in Policies(Current) \cup {"on"} /\ Asked /\ replied \subseteq replied'
        /\ Current.name \in replied'
    BY <1>5, <2>1 DEF BadAnswer, Policies
  <2>3. QED BY <2>1, <2>2, ReactedFacts
<1>6. CASE Expire \/ ChangeRole
  <2>1. UNCHANGED <<mode, todo, replied, failed, metrics, roleSeen>>
    BY <1>6 DEF Expire, ChangeRole, Run
  <2>2. NamesInv'
    BY <2>1 DEF NamesInv
  <2>3. QED BY <2>1, <2>2
<1>7. QED BY <1>1, <1>2, <1>3, <1>4, <1>5, <1>6 DEF Next

\* Every step keeps what calls may do, and spoils a scrape by a spoiler only.
LEMMA KindsStep ==
    ASSUME NamesInv, KindsInv, Next
    PROVE  KindsInv'
<1>1. CASE Pass
  <2>1. todo # <<>> /\ todo' = Tail(todo) /\ UNCHANGED <<mode, compatible, slow, role, expired, roleSeen,
            replied, failed, metrics, invalid>>
    BY <1>1 DEF Pass, Run
  <2>2. Range(todo') \subseteq Range(todo)
    BY <2>1, TailIs
  <2>3. Sent' = Sent
    BY <2>1 DEF Sent
  <2>4. \A call : CallInv(call)' <=> CallInv(call)
    BY <2>1 DEF CallInv
  <2>5. QED BY <2>1, <2>2, <2>3, <2>4 DEF KindsInv, RefusalsEarned
<1>2. CASE SendLocal
  <2>1. todo # <<>> /\ todo' = Tail(todo) /\ Current.name \in Local
        /\ UNCHANGED <<mode, compatible, slow, role, expired, roleSeen, replied, failed, invalid>>
        /\ metrics' = Append(metrics, Current.name)
    BY <1>2 DEF SendLocal, Run
  <2>2. Current.name \in Names(todo) /\ Range(todo') \subseteq Range(todo)
    BY <2>1, TailIs
  <2>3. metrics \in Seq(Range(metrics)) /\ IsInjective(metrics) /\ Current.name \notin Range(metrics)
    BY <2>2 DEF NamesInv
  <2>4. Range(metrics') = Range(metrics) \cup {Current.name}
    BY <2>1, <2>3, OneMore
  <2>5. Sent = Range(metrics) /\ Sent' = Range(metrics')
    BY DEF Sent, Range
  <2>6. \A call : CallInv(call)' <=> CallInv(call)
    BY <2>1 DEF CallInv
  <2>7. QED BY <2>1, <2>2, <2>4, <2>5, <2>6 DEF KindsInv, RefusalsEarned
<1>3. CASE Answer
  <2>1. /\ todo # <<>> /\ replied' = replied \cup {Current.name}
        /\ UNCHANGED <<mode, compatible, slow, role, expired, failed, invalid>>
        /\ roleSeen' \in {role, roleSeen}
    BY <1>3 DEF Answer, Asked, Run
  <2>2. /\ Range(todo') = Range(Follow(Current.name)) \cup (Range(todo) \ {Current})
        /\ Sent' = Sent \cup {Current.name}
    BY <1>3, Answered
  <2>3. \A call : CallInv(call)' <=> CallInv(call)
    BY <2>1 DEF CallInv
  <2>4. \A call \in Range(todo') : CallInv(call)
    BY <2>1, <2>2, FollowKinds DEF KindsInv
  <2>5. QED BY <2>1, <2>2, <2>3, <2>4 DEF KindsInv, RefusalsEarned
<1>4. ASSUME NEW policy \in Policies(Current) \cup {"on"}, Asked, React(policy), replied \subseteq replied'
      PROVE  KindsInv'
  <2>1. /\ failed' = failed \cup {Current.name} /\ invalid' = (invalid \/ policy \in {"invalid", "invalidOn"})
        /\ UNCHANGED <<mode, compatible, slow, role, expired, roleSeen>>
    BY <1>4 DEF React, Run
  <2>2. Range(todo') \subseteq Range(todo) /\ Sent' \subseteq Sent \cup {Current.name}
    BY <1>4, Reacted
  <2>3. \A call : CallInv(call)' <=> CallInv(call)
    BY <2>1 DEF CallInv
  <2>4. CallInv(Current)
    BY <1>4, TailIs DEF KindsInv, Asked
  <2>5. policy \in {"invalid", "invalidOn"} =>
           mode \in {"fcv", "topmetrics", "currentopmetrics"} /\ Current.name \in Spoilers
    BY <1>4, <2>4 DEF CallInv
  <2>6. RefusalsEarned'
    BY <2>1, <2>5 DEF KindsInv, RefusalsEarned, Spoilers
  <2>7. invalid' \in BOOLEAN
    BY <2>1 DEF KindsInv
  <2>8. Sent' \subseteq replied' \cup failed' \cup Local
    BY <1>4, <2>1, <2>2 DEF KindsInv
  <2>9. \A call \in Range(todo') : CallInv(call)'
    BY <2>2, <2>3 DEF KindsInv
  <2>10. QED BY <2>1, <2>6, <2>7, <2>8, <2>9 DEF KindsInv
<1>5. CASE Failure
  <2>1. PICK policy \in Tolerated(Current.fail) : React(policy)
    BY <1>5 DEF Failure
  <2>2. policy \in Policies(Current) \cup {"on"} /\ Asked /\ replied \subseteq replied'
    BY <1>5, <2>1 DEF Failure, Tolerated, Policies
  <2>3. QED BY <1>4, <2>1, <2>2
<1>6. CASE BadAnswer
  <2>1. PICK policy \in Current.bad : React(policy)
    BY <1>6 DEF BadAnswer
  <2>2. policy \in Policies(Current) \cup {"on"} /\ Asked /\ replied \subseteq replied'
    BY <1>6, <2>1 DEF BadAnswer, Policies
  <2>3. QED BY <1>4, <2>1, <2>2
<1>7. CASE Expire \/ ChangeRole
  <2>1. /\ UNCHANGED <<mode, compatible, slow, roleSeen, todo, replied, failed, metrics, invalid>>
        /\ role' \in Roles /\ expired' \in BOOLEAN
    BY <1>7 DEF Expire, ChangeRole, Run, KindsInv
  <2>2. Sent' = Sent
    BY <2>1 DEF Sent
  <2>3. \A call : CallInv(call)' <=> CallInv(call)
    BY <2>1 DEF CallInv
  <2>4. QED BY <2>1, <2>2, <2>3 DEF KindsInv, RefusalsEarned
<1>8. QED BY <1>1, <1>2, <1>3, <1>5, <1>6, <1>7 DEF Next

\* No step changes the function that runs.
LEMMA RunKept == Next => mode' = mode /\ compatible' = compatible
BY DEF Next, Pass, SendLocal, Answer, Failure, BadAnswer, React, Expire, ChangeRole, Run

\* Every step of shards keeps each collection asked for, failed or served.
LEMMA ShardStep ==
    ASSUME NamesInv, KindsInv, ShardInv, mode = "shards", mode' = mode, StepFacts
    PROVE  ShardInv'
<1>1. CallInv(Current) /\ Current.name \in Names(todo)
  BY TailIs DEF StepFacts, KindsInv
<1>2. Applies /\ ~Quits
  <2>1. roleSeen \in Roles \cup {"unknown"} /\ Plain(Current) /\ Policies(Current) = {"on"}
    BY <1>1 DEF KindsInv, CallInv
  <2>2. Tolerated(Current.fail) \subseteq {"on"}
    BY <2>1 DEF Tolerated, Policies
  <2>3. QED BY <2>1, <2>2 DEF Applies, Plain, Quits, Policies
<1>3. PICK N, M, F, G, S, T, c :
         /\ N = Names(todo) /\ M = Names(todo') /\ F = failed /\ G = failed' /\ S = Sent /\ T = Sent'
         /\ c = Current.name
  OBVIOUS
<1>4. /\ c \in T \cup G /\ F \subseteq G
      /\ \A name \in N \ {c} : name[1] # "dbStats" => name \in M
      /\ \A name \in S : name[1] # "dbStats" => name \in T
  BY <1>2, <1>3 DEF StepFacts
<1>5. c \in G \cup Local \/ Names(Follow(c)) \subseteq M
  BY <1>2, <1>3 DEF StepFacts
<1>6. c[1] = "find" => \E db \in Databases : c = <<"find", db>>
  BY <1>1, <1>3 DEF NamesInv
<1>7. <<"databases">> \in G \/ (<<"databases">> \in M) \/ <<"databases">> \notin N \cup F
      \/ \A db \in Databases : <<"find", db>> \in M
  <2> SUFFICES ASSUME <<"databases">> \in N, <<"databases">> \notin M, <<"databases">> \notin G
               PROVE  \A db \in Databases : <<"find", db>> \in M
    BY <1>4
  <2>1. <<"databases">> = c
    BY <1>4
  <2>2. <<"databases">> \notin Local
    BY DEF Local
  <2>3. \A db \in Databases : <<"find", db>> \in Names(Follow(c))
    BY <1>6, <2>1, FollowIs
  <2>4. QED BY <1>5, <2>1, <2>2, <2>3
<1>8. ASSUME NEW db \in Databases, <<"find", db>> \in N \cup F
      PROVE  <<"find", db>> \in M \cup G \/ \A ns \in Rows(db) : <<"chunks", db, ns>> \in M
  <2> SUFFICES ASSUME <<"find", db>> \in N, <<"find", db>> \notin M, <<"find", db>> \notin G
               PROVE  \A ns \in Rows(db) : <<"chunks", db, ns>> \in M
    BY <1>4, <1>8
  <2>1. <<"find", db>>[1] = "find" /\ <<"find", db>>[2] = db
    OBVIOUS
  <2>2. <<"find", db>> = c
    BY <1>4, <2>1
  <2>3. <<"find", db>> \notin Local
    BY DEF Local
  <2>4. \A ns \in Rows(c[2]) : <<"chunks", c[2], ns>> \in Names(Follow(c))
    BY <1>6, <2>1, <2>2, FollowIs
  <2>5. QED BY <1>5, <2>1, <2>2, <2>3, <2>4
<1>9. ASSUME NEW db, NEW ns, <<"chunks", db, ns>> \in N \cup F \cup S
      PROVE  <<"chunks", db, ns>> \in M \cup G \cup T
  <2>1. <<"chunks", db, ns>>[1] = "chunks"
    OBVIOUS
  <2>2. QED BY <1>4, <1>9, <2>1
<1>10. \/ <<"databases">> \in N \cup F
       \/ \A db \in Databases :
              \/ <<"find", db>> \in N \cup F
              \/ \A ns \in Rows(db) : <<"chunks", db, ns>> \in N \cup F \cup S
  BY <1>3 DEF ShardInv
<1>11. \/ <<"databases">> \in M \cup G
       \/ \A db \in Databases :
              \/ <<"find", db>> \in M \cup G
              \/ \A ns \in Rows(db) : <<"chunks", db, ns>> \in M \cup G \cup T
  <2>1. CASE <<"databases">> \in N \cup F
    BY <1>4, <1>7, <2>1
  <2>2. CASE \A db \in Databases :
                \/ <<"find", db>> \in N \cup F
                \/ \A ns \in Rows(db) : <<"chunks", db, ns>> \in N \cup F \cup S
    <3> SUFFICES ASSUME NEW db \in Databases
                 PROVE  \/ <<"find", db>> \in M \cup G
                        \/ \A ns \in Rows(db) : <<"chunks", db, ns>> \in M \cup G \cup T
      OBVIOUS
    <3>1. CASE <<"find", db>> \in N \cup F
      BY <1>8, <3>1
    <3>2. CASE \A ns \in Rows(db) : <<"chunks", db, ns>> \in N \cup F \cup S
      BY <1>9, <3>2
    <3>3. QED BY <2>2, <3>1, <3>2
  <2>3. QED BY <1>10, <2>1, <2>2
<1>12. QED BY <1>3, <1>11 DEF ShardInv

\* Diagnostic data gives up when its answer makes no sense, topology for want of the type of
\* the node, or of the ID of a node that is no arbiter.
LEMMA DiagnosticQuits ==
    ASSUME NamesInv, KindsInv, StepFacts, Quits, mode = "diagnosticdata"
    PROVE  <<"getDiagnosticData">> \in failed' \cap replied'
<1>1. CallInv(Current)
  BY TailIs DEF StepFacts, KindsInv
<1>2. Policies(Current) \cap {"invalid", "invalidOn"} = {}
  BY <1>1 DEF CallInv
<1>3. Tolerated(Current.fail) = Current.fail
  BY DEF Tolerated
<1>4. "return" \in Policies(Current)
  BY <1>2, <1>3 DEF Quits, Policies
<1>5. Current.name = <<"getDiagnosticData">> /\ "return" \notin Current.fail
  BY <1>1, <1>4 DEF CallInv
<1>6. QED BY <1>2, <1>3, <1>5 DEF Quits, Policies

\* Topology gives up for want of the command line or of the node's type, or of the ID of a
\* node that is no arbiter.
LEMMA TopologyQuits ==
    ASSUME NamesInv, KindsInv, StepFacts, Quits, mode = "topology"
    PROVE  /\ roleSeen' = roleSeen
           /\ \/ Current.name \in {<<"getCmdLineOpts">>, <<"isMaster">>}
              \/ Current.name = <<"replicaSetId">> /\ roleSeen # "arbiter"
<1>1. CallInv(Current)
  BY TailIs DEF StepFacts, KindsInv
<1>2. Policies(Current) \cap {"invalid", "invalidOn"} = {}
  BY <1>1 DEF CallInv
<1>3. Tolerated(Current.fail) \subseteq Current.fail \cup {"on"}
  BY DEF Tolerated
<1>4. "return" \in Policies(Current)
  BY <1>2, <1>3 DEF Quits, Policies
<1>5. Current.name \in {<<"getCmdLineOpts">>, <<"isMaster">>, <<"replicaSetId">>}
  BY <1>1, <1>4 DEF CallInv
<1>6. Current.name = <<"replicaSetId">> => Current.bad = {}
  BY <1>1 DEF CallInv
<1>7. Current.name = <<"replicaSetId">> => roleSeen # "arbiter"
  BY <1>6 DEF Quits, Tolerated
<1>8. roleSeen' = roleSeen
  BY DEF Quits
<1>9. Current.name \in {<<"getCmdLineOpts">>, <<"isMaster">>} \/ Current.name = <<"replicaSetId">>
  BY <1>5
<1>10. QED BY <1>7, <1>8, <1>9

\* Every step of diagnostic data keeps what an arbiter is owed.
LEMMA DiagnosticStep ==
    ASSUME NamesInv, KindsInv, DiagnosticInv, mode = "diagnosticdata", compatible,
           mode' = mode, compatible' = compatible, StepFacts
    PROVE  DiagnosticInv'
<1>1. CallInv(Current) /\ Current.name \in Names(todo) /\ Current = Head(todo)
  BY TailIs DEF StepFacts, KindsInv, Current
<1>2. PICK N, M, F, G, S, T, c :
         /\ N = Names(todo) /\ M = Names(todo') /\ F = failed /\ G = failed' /\ S = Sent /\ T = Sent'
         /\ c = Current.name
  OBVIOUS
<1>3. /\ F \subseteq G /\ M \subseteq (N \ {c}) \cup Heirs(c) /\ (~Applies \/ c \in T \cup G)
      /\ (Quits /\ M \subseteq {<<"time">>}) \/ \A name \in N \ {c} : name[1] # "dbStats" => name \in M
      /\ \A name \in S : name[1] # "dbStats" => name \in T
      /\ roleSeen' # roleSeen => c = <<"isMaster">>
  BY <1>2 DEF StepFacts
<1>4. Refused => Refused'
  BY DEF StepFacts, Refused
<1>5. Quits => Refused'
  BY DiagnosticQuits DEF Refused
<1>6. <<"isMaster">> \in N => c = <<"isMaster">>
  BY <1>1, <1>2 DEF DiagnosticInv
<1>7. <<"isMaster">> \notin M
  <2>1. <<"isMaster">> \notin Heirs(c)
    BY NotBorn DEF Born
  <2>2. QED BY <1>3, <1>6, <2>1
<1>8. roleSeen \in Roles \cup {"unknown"} /\ (c = <<"version">> => Applies)
  <2>1. roleSeen \in Roles \cup {"unknown"}
    BY DEF KindsInv
  <2>2. c = <<"version">> => Plain(Current)
    BY <1>1, <1>2 DEF CallInv
  <2>3. QED BY <2>1, <2>2 DEF Plain, Applies
<1>9. c = <<"hello">> => Applies \/ roleSeen # "arbiter"
  <2>1. c = <<"hello">> => Current.when = {"arbiter"} /\ Current.after = {} /\ Current.unless = {}
    BY <1>1, <1>2 DEF CallInv
  <2>2. QED BY <2>1 DEF Applies
<1>10. Refused \/ <<"version">> \in N \cup S \cup F
  BY <1>2 DEF DiagnosticInv
<1>11. \/ Refused \/ <<"hello">> \in N \cup S \cup F
       \/ roleSeen # "arbiter" /\ <<"isMaster">> \notin N
  BY <1>2 DEF DiagnosticInv
<1>12. Refused' \/ <<"version">> \in M \cup T \cup G
  BY <1>3, <1>4, <1>5, <1>8, <1>10
<1>13. \/ Refused' \/ <<"hello">> \in M \cup T \cup G
       \/ roleSeen' # "arbiter" /\ <<"isMaster">> \notin M
  <2>1. CASE Refused
    BY <1>4, <2>1
  <2>2. CASE <<"hello">> \in N \cup S \cup F
    <3>1. <<"hello">>[1] # "dbStats"
      OBVIOUS
    <3>2. CASE <<"hello">> # c \/ Applies
      BY <1>3, <1>5, <2>2, <3>1, <3>2
    <3>3. CASE <<"hello">> = c /\ ~Applies
      <4>1. c # <<"isMaster">>
        BY <3>3
      <4>2. QED BY <1>3, <1>7, <1>9, <3>3, <4>1
    <3>4. QED BY <3>2, <3>3
  <2>3. CASE roleSeen # "arbiter" /\ <<"isMaster">> \notin N
    <3>1. c # <<"isMaster">>
      BY <1>1, <1>2, <2>3
    <3>2. QED BY <1>3, <1>7, <2>3, <3>1
  <2>4. QED BY <1>11, <2>1, <2>2, <2>3
<1>14. QED BY <1>2, <1>7, <1>12, <1>13 DEF DiagnosticInv

\* Every step of loadLabels keeps the labels an arbiter is owed.
LEMMA TopologyStep ==
    ASSUME NamesInv, KindsInv, TopologyInv, mode = "topology", mode' = mode, StepFacts
    PROVE  TopologyInv'
<1>1. CallInv(Current) /\ Current.name \in Names(todo)
  BY TailIs DEF StepFacts, KindsInv
<1>2. PICK N, M, F, G, S, T, c :
         /\ N = Names(todo) /\ M = Names(todo') /\ F = failed /\ G = failed' /\ S = Sent /\ T = Sent'
         /\ c = Current.name
  OBVIOUS
<1>3. /\ F \subseteq G /\ M \subseteq (N \ {c}) \cup Heirs(c) /\ (~Applies \/ c \in T \cup G)
      /\ (Quits /\ M \subseteq {<<"time">>}) \/ \A name \in N \ {c} : name[1] # "dbStats" => name \in M
      /\ \A name \in S : name[1] # "dbStats" => name \in T
      /\ roleSeen' # roleSeen => c = <<"isMaster">>
  BY <1>2 DEF StepFacts
<1>4. <<"isMaster">> \notin Heirs(c)
  BY NotBorn DEF Born
<1>5. <<"isMaster">> \in M => <<"isMaster">> \in N /\ c # <<"isMaster">>
  BY <1>3, <1>4
<1>6. <<"isMaster">> \in N => roleSeen = "unknown"
  BY <1>2 DEF TopologyInv
<1>7. <<"isMaster">> \in M => roleSeen' = "unknown"
  BY <1>3, <1>5, <1>6
<1>8. roleSeen' = "arbiter" \/ <<"isMaster">> \in M => roleSeen = "arbiter" \/ <<"isMaster">> \in N
  BY <1>1, <1>2, <1>3, <1>5
<1>9. Quits /\ M \subseteq {<<"time">>} => roleSeen' # "arbiter" /\ <<"isMaster">> \notin M
  <2>1. ASSUME Quits PROVE roleSeen' # "arbiter"
    <3>1. /\ roleSeen' = roleSeen
          /\ \/ Current.name \in {<<"getCmdLineOpts">>, <<"isMaster">>}
             \/ Current.name = <<"replicaSetId">> /\ roleSeen # "arbiter"
      BY <2>1, TopologyQuits
    <3>2. Current.name \in {<<"getCmdLineOpts">>, <<"isMaster">>} => roleSeen = "unknown"
      BY <1>1, <1>2, <1>6 DEF TopologyInv
    <3>3. QED BY <3>1, <3>2
  <2>2. QED BY <2>1
<1>10. ASSUME NEW x \in {<<"clusterId">>, <<"replSetGetStatus">>}, x \in N \cup S \cup F,
              ~(Quits /\ M \subseteq {<<"time">>})
       PROVE  x \in M \cup T \cup G
  <2>1. x[1] # "dbStats"
    BY <1>10
  <2>2. x = c => Applies
    <3>1. roleSeen \in Roles \cup {"unknown"}
      BY DEF KindsInv
    <3>2. x = c => Plain(Current)
      BY <1>1, <1>2, <1>10 DEF CallInv
    <3>3. QED BY <3>1, <3>2 DEF Plain, Applies
  <2>3. QED BY <1>3, <1>10, <2>1, <2>2
<1>11. roleSeen = "arbiter" \/ <<"isMaster">> \in N =>
          {<<"clusterId">>, <<"replSetGetStatus">>} \subseteq N \cup S \cup F
  BY <1>2 DEF TopologyInv
<1>12. roleSeen' = "arbiter" \/ <<"isMaster">> \in M =>
          {<<"clusterId">>, <<"replSetGetStatus">>} \subseteq M \cup T \cup G
  BY <1>8, <1>9, <1>10, <1>11
<1>13. <<"getCmdLineOpts">> \notin M
  <2>1. <<"getCmdLineOpts">> \notin Heirs(c)
    BY NotBorn DEF Born
  <2>2. <<"getCmdLineOpts">> \in N => c = <<"getCmdLineOpts">>
    BY <1>2 DEF TopologyInv, Current
  <2>3. QED BY <1>3, <2>1, <2>2
<1>14. QED BY <1>2, <1>7, <1>12, <1>13 DEF TopologyInv

-----------------------------------------------------------------------------
(***************************************************************************)
(* The theorems.                                                           *)
(***************************************************************************)

\* The inductive invariant.
CommandsInv == NamesInv /\ KindsInv /\ ShardInv /\ DiagnosticInv /\ TopologyInv

\* Every step keeps the invariant.
LEMMA CommandsStep == CommandsInv /\ [Next]_vars => CommandsInv'
<1> SUFFICES ASSUME CommandsInv, [Next]_vars PROVE CommandsInv'
  OBVIOUS
<1>1. CASE UNCHANGED vars
  <2>1. UNCHANGED <<mode, compatible, slow, role, expired, roleSeen, todo, replied, failed, metrics, invalid>>
    BY <1>1 DEF vars
  <2>2. NamesInv'
    BY <2>1 DEF CommandsInv, NamesInv
  <2>3. Sent' = Sent /\ \A call : CallInv(call)' <=> CallInv(call)
    BY <2>1 DEF Sent, CallInv
  <2>4. KindsInv'
    BY <2>1, <2>3 DEF CommandsInv, KindsInv, RefusalsEarned
  <2>5. Names(todo') = Names(todo) /\ Head(todo') = Head(todo)
    BY <2>1
  <2>6. ShardInv' /\ DiagnosticInv' /\ TopologyInv'
    BY <2>1, <2>3, <2>5 DEF CommandsInv, ShardInv, DiagnosticInv, TopologyInv, Refused
  <2>7. QED BY <2>2, <2>4, <2>6 DEF CommandsInv
<1>2. CASE Next
  <2>1. NamesInv' /\ KindsInv'
    BY <1>2, StepIs, KindsStep DEF CommandsInv
  <2>2. UNCHANGED <<todo, replied, failed, metrics, roleSeen>> \/ StepFacts
    BY <1>2, StepIs DEF CommandsInv
  <2>3. mode' = mode /\ compatible' = compatible
    BY <1>2, RunKept
  <2>4. CASE UNCHANGED <<todo, replied, failed, metrics, roleSeen>>
    <3>1. Sent' = Sent /\ Names(todo') = Names(todo) /\ Head(todo') = Head(todo)
      BY <2>4 DEF Sent
    <3>2. ShardInv' /\ DiagnosticInv' /\ TopologyInv'
      BY <2>3, <2>4, <3>1 DEF CommandsInv, ShardInv, DiagnosticInv, TopologyInv, Refused
    <3>3. QED BY <2>1, <3>2 DEF CommandsInv
  <2>5. CASE StepFacts
    <3>1. ShardInv'
      <4>1. CASE mode = "shards"
        BY <2>3, <2>5, <4>1, ShardStep DEF CommandsInv
      <4>2. CASE mode # "shards"
        BY <2>3, <4>2 DEF ShardInv
      <4>3. QED BY <4>1, <4>2
    <3>2. DiagnosticInv'
      <4>1. CASE mode = "diagnosticdata" /\ compatible
        BY <2>3, <2>5, <4>1, DiagnosticStep DEF CommandsInv
      <4>2. CASE ~(mode = "diagnosticdata" /\ compatible)
        BY <2>3, <4>2 DEF DiagnosticInv
      <4>3. QED BY <4>1, <4>2
    <3>3. TopologyInv'
      <4>1. CASE mode = "topology"
        BY <2>3, <2>5, <4>1, TopologyStep DEF CommandsInv
      <4>2. CASE mode # "topology"
        BY <2>3, <4>2 DEF TopologyInv
      <4>3. QED BY <4>1, <4>2
    <3>4. QED BY <2>1, <3>1, <3>2, <3>3 DEF CommandsInv
  <2>6. QED BY <2>2, <2>4, <2>5
<1>3. QED BY <1>1, <1>2

\* Whatever calls fail, the five invariants hold of a function from its first call to its last.
THEOREM InvHolds == Spec => []CommandsInv
<1>1. Init => CommandsInv
  BY InitHolds DEF CommandsInv
<1>2. QED BY <1>1, CommandsStep, PTL DEF Spec

\* The variables keep their types; what is sent has been answered or has failed, or needs no
\* call; and no collect function sends the metrics of a call twice (TypeOK).
THEOREM TypeCorrect == Spec => []TypeOK
<1>1. CommandsInv => TypeOK
  BY DEF CommandsInv, NamesInv, KindsInv, TypeOK
<1>2. QED BY <1>1, InvHolds, PTL

\* Only fcv, top and currentOp can have the registry refuse the whole scrape, each by a
\* failure of its own command.
THEOREM RefusalsEarnedCorrect == Spec => []RefusalsEarned
<1>1. CommandsInv => RefusalsEarned
  BY DEF CommandsInv, KindsInv
<1>2. QED BY <1>1, InvHolds, PTL

\* For any sharded collections in any databases, of whatever names, a failure costs shards
\* the collections of the calls that failed and no other.
THEOREM ShardedServedCorrect == Spec => []ShardedServed
<1>1. CommandsInv => ShardedServed
  <2> SUFFICES ASSUME CommandsInv, todo = <<>>, mode = "shards", <<"databases">> \notin failed,
                      NEW ns \in Sharded
               PROVE  \/ <<"chunks", ns[1], ns>> \in Sent
                      \/ {<<"find", ns[1]>>, <<"chunks", ns[1], ns>>} \cap failed # {}
    BY DEF ShardedServed
  <2>1. Names(todo) = {}
    BY EmptyProgram
  <2>2. ns[1] \in Databases /\ ns \in Rows(ns[1])
    BY CommandsAssumption DEF Rows
  <2>3. \A db \in Databases :
           \/ <<"find", db>> \in failed
           \/ \A row \in Rows(db) : <<"chunks", db, row>> \in failed \cup Sent
    BY <2>1 DEF CommandsInv, ShardInv
  <2>4. QED BY <2>2, <2>3
<1>2. QED BY <1>1, InvHolds, PTL

\* An arbiter gets the metrics of an arbiter in compatible mode, when the refusal of the
\* diagnostic data is all that failed, and in any case its labels.
THEOREM ArbiterServedCorrect == Spec => []ArbiterServed
<1>1. CommandsInv => ArbiterServed
  <2> SUFFICES ASSUME CommandsInv, todo = <<>>, roleSeen = "arbiter" PROVE ArbiterServed
    BY DEF ArbiterServed
  <2>1. Names(todo) = {}
    BY EmptyProgram
  <2>2. ASSUME mode = "diagnosticdata", compatible, failed = {<<"getDiagnosticData">>} \ replied
        PROVE  {<<"hello">>, <<"version">>} \subseteq Sent
    <3>1. ~Refused
      BY <2>2 DEF Refused
    <3>2. <<"version">> \in Sent \cup failed /\ <<"hello">> \in Sent \cup failed
      BY <2>1, <2>2, <3>1 DEF CommandsInv, DiagnosticInv
    <3>3. <<"version">> # <<"getDiagnosticData">> /\ <<"hello">> # <<"getDiagnosticData">>
      OBVIOUS
    <3>4. QED BY <2>2, <3>2, <3>3
  <2>3. mode = "topology" => {<<"clusterId">>, <<"replSetGetStatus">>} \subseteq Sent \cup failed
    BY <2>1 DEF CommandsInv, TopologyInv
  <2>4. QED BY <2>2, <2>3 DEF ArbiterServed
<1>2. QED BY <1>1, InvHolds, PTL
=============================================================================
