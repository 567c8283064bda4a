-------------------------- MODULE Scrapeall_proofs ---------------------------
(***************************************************************************)
(* Proofs about Scrapeall for any list of targets, with any names and any  *)
(* servers: types; that every client is closed once, by the request that   *)
(* owns it; and what the response consists of.                             *)
(***************************************************************************)
EXTENDS Scrapeall, TLAPS

\* A client of a target's own is connected only while it is pinged, or while its disconnect
\* is deferred and the target has it; shared ones are all connected, the one being pinged
\* too, and nothing disconnects them.
ClientsInv ==
    /\ shared => /\ open = built \cup (IF pc = "ping" THEN {at} ELSE {})
                 /\ \A k \in DOMAIN deferred : deferred[k].call # "disconnect"
    /\ ~shared => /\ built = {}
                  /\ \A i \in open :
                        \/ pc = "ping" /\ i = at
                        \/ /\ mine[i] # "nil"
                           /\ \E k \in DOMAIN deferred :
                                 deferred[k].call = "disconnect" /\ deferred[k].of = i

\* Targets whose turn has not come have no client; the one whose turn it is has its own.
TurnInv ==
    /\ \A i \in Targets :
          (i > at \/ (i = at /\ pc \in {"next", "getClient", "ping"})) => mine[i] = "nil"
    /\ pc = "ping" => at \in open /\ at \notin built
    /\ pc = "register" /\ mine[at] # "nil" => at \in open
    /\ pc = "ended" => deferred = <<>>

\* The inductive invariant of the clients.
BalanceInv == TypeOK /\ ClientsInv /\ TurnInv


-----------------------------------------------------------------------------
(***************************************************************************)
(* Types.                                                                  *)
(***************************************************************************)

\* The targets are numbered from 1.
LEMMA TargetsNumbered ==
    /\ Len(Instances) \in Nat \ {0}
    /\ Targets = 1..Len(Instances)
    /\ \A i \in Targets : i \in Int
BY ScrapeallAssumption DEF Targets

\* The two collectors.
LEMMA TwoCollectors == Len(Collectors) = 2 /\ DOMAIN Collectors = {1, 2}
BY DEF Collectors

\* Types at first.
LEMMA InitType == Init => TypeOK
<1> SUFFICES ASSUME Init PROVE TypeOK
  OBVIOUS
<1>1. at \in 1..(Len(Instances) + 1)
  BY TargetsNumbered DEF Init
<1>2. /\ gatherers \in Seq(Targets \cup {Default}) /\ Len(gatherers) = 1
      /\ deferred \in Seq(Deferred) /\ DOMAIN deferred = {}
  BY DEF Init, Default
<1>3. step \in 1..(Len(Collectors) + 1)
  BY TwoCollectors DEF Init
<1>4. built \subseteq Targets /\ open \subseteq Targets
  BY DEF Init
<1>5. merged \in 0..Len(gatherers)
  BY <1>2 DEF Init
<1>6. QED BY <1>1, <1>2, <1>3, <1>4, <1>5 DEF Init, TypeOK

\* The environment changes contexts only.
LEMMA EnvironmentType ==
    ASSUME TypeOK, Leave \/ \E i \in Targets : Expire(i)
    PROVE  TypeOK'
BY DEF TypeOK, Leave, Expire

\* The loop as far as the client.
LEMMA ClientType ==
    ASSUME TypeOK, BeginTarget \/ GetClient
    PROVE  TypeOK'
<1>1. CASE BeginTarget
  <2>1. /\ deferred' \in Seq(Deferred) /\ Len(deferred') = Len(deferred) + 1
        /\ \A k \in DOMAIN deferred' : deferred'[k].of <= at
    <3>1. at \in Targets /\ at \in Int /\ deferred \in Seq(Deferred)
      BY <1>1, TargetsNumbered DEF BeginTarget, TypeOK
    <3>2. \A k \in DOMAIN deferred : deferred[k].of <= at
      BY DEF TypeOK
    <3>3. /\ [call |-> "cancel", of |-> at] \in Deferred
          /\ [call |-> "cancel", of |-> at].of = at
      BY <3>1 DEF Deferred
    <3>4. deferred' = Append(deferred, [call |-> "cancel", of |-> at])
      BY <1>1 DEF BeginTarget
    <3>5. QED BY <3>1, <3>2, <3>3, <3>4
  <2>2. ctx' \in [Targets -> {"none", "live", "late", "left", "cancelled"}]
    BY <1>1 DEF BeginTarget, NewContext, TypeOK
  <2>3. QED BY <1>1, <2>1, <2>2 DEF BeginTarget, TypeOK
<1>2. CASE GetClient
  <2>a. at \in Targets /\ at \in Int
    BY <1>2, TargetsNumbered DEF GetClient, PingShared, Connect, PingNew, TypeOK
  <2>1. ASSUME NEW c \in {"nil", "own", "shared"}, ReturnClient(c)
        PROVE  /\ deferred' \in Seq(Deferred)
               /\ \A k \in DOMAIN deferred' : deferred'[k].of <= at
               /\ mine' \in [Targets -> {"nil", "own", "shared"}]
               /\ step' \in 1..(Len(Collectors) + 1)
               /\ pc' = "register"
    <3>1. mine' = [mine EXCEPT ![at] = c] /\ step' = 1 /\ pc' = "register" /\ DeferDisconnect
      BY <2>1 DEF ReturnClient
    <3>2. /\ deferred' \in Seq(Deferred)
          /\ \A k \in DOMAIN deferred' : deferred'[k].of <= at
      <4>1. CASE shared
        BY <3>1, <4>1 DEF DeferDisconnect, TypeOK
      <4>2. CASE ~shared
        <5>1. Disconnect \in Deferred /\ Disconnect.of = at
          BY <2>a DEF Disconnect, Deferred
        <5>2. deferred' = Append(deferred, Disconnect)
          BY <3>1, <4>2 DEF DeferDisconnect
        <5>3. QED BY <2>a, <5>1, <5>2 DEF TypeOK
      <4>3. QED BY <4>1, <4>2
    <3>3. QED BY <2>a, <3>1, <3>2, TwoCollectors DEF TypeOK
  <2>2. CASE PingShared
    BY <2>1, <2>2, <2>a DEF PingShared, TypeOK
  <2>3. CASE Connect
    BY <2>1, <2>3, <2>a DEF Connect, TypeOK
  <2>4. CASE PingNew
    BY <2>1, <2>4, <2>a DEF PingNew, TypeOK
  <2>5. QED BY <1>2, <2>2, <2>3, <2>4 DEF GetClient
<1>3. QED BY <1>1, <1>2

\* Registering, and the wrapper.
LEMMA RegistryType ==
    ASSUME TypeOK, Register \/ Refuse \/ Wrap
    PROVE  TypeOK'
<1>1. CASE Register
  <2>1. step \in {1, 2}
    BY <1>1, TwoCollectors DEF Register, Registers
  <2>2. step' \in 1..(Len(Collectors) + 1)
    BY <1>1, <2>1, TwoCollectors DEF Register
  <2>3. at \in Targets
    BY <1>1 DEF Register, TypeOK
  <2>4. doubled' \subseteq Targets
    <3>1. doubled' \in {doubled, doubled \cup {at}}
      BY <1>1 DEF Register
    <3>2. QED BY <2>3, <3>1 DEF TypeOK
  <2>5. QED BY <1>1, <2>2, <2>4 DEF Register, TypeOK
<1>2. CASE Refuse
  BY <1>2 DEF Refuse, TypeOK
<1>3. CASE Wrap
  <2>1. at \in Targets /\ at \in Int /\ at + 1 \in 1..(Len(Instances) + 1)
    BY <1>3, TargetsNumbered DEF Wrap, TypeOK
  <2>2. /\ gatherers' \in Seq(Targets \cup {Default})
        /\ Len(gatherers') = Len(gatherers) + 1
        /\ Len(gatherers) \in Nat
    BY <1>3, <2>1 DEF Wrap, WithWrapper, TypeOK
  <2>3. merged' \in 0..Len(gatherers')
    BY <1>3, <2>2 DEF Wrap, TypeOK
  <2>4. \A k \in DOMAIN deferred' : deferred'[k].of <= at'
    <3>1. deferred' = deferred /\ at' = at + 1
      BY <1>3 DEF Wrap
    <3>2. \A k \in DOMAIN deferred : deferred[k].of \in Int /\ deferred[k].of <= at
      <4>1. deferred \in Seq(Deferred) /\ \A k \in DOMAIN deferred : deferred[k].of <= at
        BY DEF TypeOK
      <4>2. \A k \in DOMAIN deferred : deferred[k] \in Deferred
        BY <4>1
      <4>3. \A d \in Deferred : d.of \in Int
        BY TargetsNumbered DEF Deferred
      <4>4. QED BY <4>1, <4>2, <4>3
    <3>3. QED BY <2>1, <3>1, <3>2
  <2>5. QED BY <1>3, <2>1, <2>2, <2>3, <2>4 DEF Wrap, TypeOK
<1>4. QED BY <1>1, <1>2, <1>3

\* Gathering and the end.
LEMMA EndType ==
    ASSUME TypeOK, Merge \/ Served \/ RunDeferred \/ End \/ Ended
    PROVE  TypeOK'
<1>1. CASE Merge
  BY <1>1 DEF Merge, TypeOK
<1>2. CASE RunDeferred
  <2>1. deferred' \in Seq(Deferred) /\ \A k \in DOMAIN deferred' : deferred'[k].of <= at
    BY <1>2 DEF RunDeferred, TypeOK
  <2>2. open' \subseteq Targets
    BY <1>2 DEF RunDeferred, Closes, TypeOK
  <2>3. ctx' \in [Targets -> {"none", "live", "late", "left", "cancelled"}]
    BY <1>2 DEF RunDeferred, TypeOK
  <2>4. QED BY <1>2, <2>1, <2>2, <2>3 DEF RunDeferred, TypeOK
<1>3. CASE Served \/ End \/ Ended
  BY <1>3 DEF Served, End, Ended, vars, TypeOK
<1>4. QED BY <1>1, <1>2, <1>3

\* Every step keeps the types.
LEMMA NextType == TypeOK /\ [Next]_vars => TypeOK'
<1> SUFFICES ASSUME TypeOK, [Next]_vars PROVE TypeOK'
  OBVIOUS
<1>1. CASE UNCHANGED vars
  BY <1>1 DEF vars, TypeOK
<1>2. CASE Next
  BY <1>2, EnvironmentType, ClientType, RegistryType, EndType DEF Next, Handle
<1>3. QED BY <1>1, <1>2

\* The handler's variables keep their types, for any list of targets.
THEOREM ScrapeallTypeCorrect == Spec => []TypeOK
<1>1. QED BY InitType, NextType, PTL DEF Spec

-----------------------------------------------------------------------------
(***************************************************************************)
(* Clients.                                                                *)
(***************************************************************************)

\* At first only shared clients are connected, and nobody has a client.
LEMMA InitBalance == Init => BalanceInv
<1> SUFFICES ASSUME Init PROVE BalanceInv
  OBVIOUS
<1>1. ClientsInv
  BY DEF Init, ClientsInv
<1>2. TurnInv
  BY DEF Init, TurnInv
<1>3. QED BY <1>1, <1>2, InitType DEF BalanceInv

\* A step that leaves clients, deferred calls and the turn alone keeps the balance.
LEMMA QuietStep ==
    ASSUME BalanceInv, TypeOK',
           UNCHANGED <<shared, built, at, mine, open, deferred>>,
           \/ pc' = pc
           \/ pc # "ping" /\ pc' = "unwind"
           \/ pc # "ping" /\ pc' = "ended" /\ deferred = <<>>
    PROVE  BalanceInv'
<1>1. ClientsInv'
  BY DEF BalanceInv, ClientsInv
<1>2. TurnInv'
  BY DEF BalanceInv, TurnInv
<1>3. QED BY <1>1, <1>2 DEF BalanceInv

\* A target begins: its cancel is deferred.
LEMMA BeginBalance ==
    ASSUME BalanceInv, TypeOK', BeginTarget
    PROVE  BalanceInv'
<1>1. /\ deferred \in Seq(Deferred)
      /\ deferred' = Append(deferred, [call |-> "cancel", of |-> at])
      /\ [call |-> "cancel", of |-> at] \in Deferred
      /\ UNCHANGED <<shared, built, at, mine, open>> /\ pc = "next" /\ pc' = "getClient"
  BY DEF BalanceInv, TypeOK, BeginTarget, Deferred
<1>2. /\ \A k \in DOMAIN deferred : k \in DOMAIN deferred' /\ deferred'[k] = deferred[k]
      /\ \A k \in DOMAIN deferred' : k \in DOMAIN deferred \/ deferred'[k].call = "cancel"
  BY <1>1
<1>3. ClientsInv'
  BY <1>1, <1>2 DEF BalanceInv, ClientsInv
<1>4. TurnInv'
  BY <1>1 DEF BalanceInv, TurnInv
<1>5. QED BY <1>3, <1>4 DEF BalanceInv

\* Where getClient is: its target has no client yet.
LEMMA GetClientWhere ==
    ASSUME BalanceInv, GetClient
    PROVE  /\ at \in Targets /\ at \in Int /\ at' = at /\ UNCHANGED shared /\ shared \in BOOLEAN
           /\ pc \in {"getClient", "ping"} /\ pc' \in {"ping", "register"}
           /\ mine[at] = "nil" /\ \A i \in Targets : i # at => mine'[i] = mine[i]
           /\ UNCHANGED <<version, gone, ctx, cached, doubled, gatherers, merged, response>>
           /\ pc' = "ping" => mine' = mine
           /\ pc' = "register" => step' = 1
<1>1. /\ at \in Targets /\ at' = at /\ UNCHANGED shared /\ shared \in BOOLEAN
      /\ pc \in {"getClient", "ping"}
      /\ UNCHANGED <<version, gone, ctx, cached, doubled, gatherers, merged, response>>
  BY DEF BalanceInv, TypeOK, GetClient, PingShared, Connect, PingNew
<1>2. /\ pc' \in {"ping", "register"}
      /\ \A i \in Targets : i # at => mine'[i] = mine[i]
      /\ pc' = "ping" => mine' = mine
      /\ pc' = "register" => step' = 1
  BY DEF BalanceInv, TypeOK, GetClient, PingShared, Connect, PingNew, ReturnClient
<1>3. mine[at] = "nil"
  BY <1>1 DEF BalanceInv, TurnInv
<1>4. QED BY <1>1, <1>2, <1>3, TargetsNumbered

\* When getClient returns, a disconnect is deferred unless the client is shared.
LEMMA ReturnDefers ==
    ASSUME BalanceInv, at \in Targets, NEW c \in {"nil", "own", "shared"}, ReturnClient(c)
    PROVE  /\ mine' = [mine EXCEPT ![at] = c] /\ mine'[at] = c /\ pc' = "register"
           /\ \A k \in DOMAIN deferred : k \in DOMAIN deferred' /\ deferred'[k] = deferred[k]
           /\ shared => deferred' = deferred
           /\ ~shared => \E k \in DOMAIN deferred' :
                             deferred'[k].call = "disconnect" /\ deferred'[k].of = at
<1>1. deferred \in Seq(Deferred) /\ mine \in [Targets -> {"nil", "own", "shared"}]
  BY DEF BalanceInv, TypeOK
<1>2. CASE shared
  BY <1>1, <1>2 DEF ReturnClient, DeferDisconnect
<1>3. CASE ~shared
  <2>1. deferred' = Append(deferred, Disconnect) /\ Disconnect \in Deferred
    BY <1>1, <1>3 DEF ReturnClient, DeferDisconnect, Disconnect, Deferred
  <2>2. /\ Len(deferred) + 1 \in DOMAIN deferred'
        /\ deferred'[Len(deferred) + 1] = Disconnect
        /\ \A k \in DOMAIN deferred : k \in DOMAIN deferred' /\ deferred'[k] = deferred[k]
    BY <1>1, <2>1
  <2>3. Disconnect.call = "disconnect" /\ Disconnect.of = at
    BY DEF Disconnect
  <2>4. QED BY <1>1, <1>3, <2>2, <2>3 DEF ReturnClient
<1>4. QED BY <1>2, <1>3

\* The shared client is pinged, or a new one is built and pinged: one that does not answer is
\* closed at once, one that does is shared or has its disconnect deferred.
LEMMA GetClientBalance ==
    ASSUME BalanceInv, TypeOK', GetClient
    PROVE  BalanceInv'
<1>1. /\ at \in Targets /\ at \in Int /\ at' = at /\ UNCHANGED shared /\ shared \in BOOLEAN
      /\ pc \in {"getClient", "ping"}
      /\ mine[at] = "nil" /\ \A i \in Targets : i # at => mine'[i] = mine[i]
  BY GetClientWhere
<1>2. CASE PingShared
  <2>1. PICK c \in {"nil", "own", "shared"} : ReturnClient(c)
    BY <1>2 DEF PingShared
  <2>2. UNCHANGED <<built, open>> /\ pc = "getClient" /\ at \in built
    BY <1>2 DEF PingShared
  <2>3. shared /\ open = built /\ deferred' = deferred /\ pc' = "register"
    BY <1>1, <2>1, <2>2, ReturnDefers DEF BalanceInv, ClientsInv
  <2>4. ClientsInv'
    BY <1>1, <2>2, <2>3 DEF BalanceInv, ClientsInv
  <2>5. TurnInv'
    BY <1>1, <2>2, <2>3 DEF BalanceInv, TurnInv
  <2>6. QED BY <2>4, <2>5 DEF BalanceInv
<1>3. CASE Connect /\ pc' = "ping"
  <2>1. /\ open' = open \cup {at} /\ UNCHANGED <<mine, deferred, built>>
        /\ at \notin built /\ pc = "getClient"
    BY <1>3 DEF Connect, ReturnClient
  <2>2. ClientsInv'
    BY <1>1, <1>3, <2>1 DEF BalanceInv, ClientsInv
  <2>3. TurnInv'
    BY <1>1, <1>3, <2>1 DEF BalanceInv, TurnInv
  <2>4. QED BY <2>2, <2>3 DEF BalanceInv
<1>4. CASE \/ Connect /\ pc' # "ping" /\ UNCHANGED open
           \/ PingNew /\ open' = open \ {at} /\ UNCHANGED built /\ ReturnClient("nil")
  <2>1. /\ ReturnClient("nil") /\ UNCHANGED built
        /\ \/ pc = "getClient" /\ open' = open
           \/ pc = "ping" /\ open' = open \ {at}
    BY <1>4 DEF Connect, PingNew
  <2>2. /\ mine' = mine /\ pc' = "register"
        /\ \A k \in DOMAIN deferred : k \in DOMAIN deferred' /\ deferred'[k] = deferred[k]
        /\ shared => deferred' = deferred
    BY <1>1, <2>1, ReturnDefers DEF BalanceInv, TypeOK
  <2>3. pc = "ping" => at \notin built
    BY DEF BalanceInv, TurnInv
  <2>4. ClientsInv'
    BY <1>1, <2>1, <2>2, <2>3 DEF BalanceInv, ClientsInv
  <2>5. TurnInv'
    BY <1>1, <2>1, <2>2 DEF BalanceInv, TurnInv
  <2>6. QED BY <2>4, <2>5 DEF BalanceInv
<1>5. CASE /\ PingNew /\ UNCHANGED open
           /\ built' = IF shared THEN built \cup {at} ELSE built
           /\ ReturnClient(IF shared THEN "shared" ELSE "own")
  <2>1. PICK c \in {"own", "shared"} : ReturnClient(c)
    BY <1>5
  <2>2. /\ mine'[at] = c /\ pc' = "register"
        /\ \A k \in DOMAIN deferred : k \in DOMAIN deferred' /\ deferred'[k] = deferred[k]
        /\ shared => deferred' = deferred
        /\ ~shared => \E k \in DOMAIN deferred' :
                          deferred'[k].call = "disconnect" /\ deferred'[k].of = at
    BY <1>1, <2>1, ReturnDefers
  <2>3. pc = "ping" /\ open' = open
    BY <1>5 DEF PingNew
  <2>4. ClientsInv'
    <3>1. CASE shared
      BY <1>1, <1>5, <2>2, <2>3, <3>1 DEF BalanceInv, ClientsInv
    <3>2. CASE ~shared
      <4>1. ASSUME NEW i \in open', i # at
            PROVE  /\ mine'[i] # "nil"
                   /\ \E k \in DOMAIN deferred' :
                         deferred'[k].call = "disconnect" /\ deferred'[k].of = i
        BY <1>1, <2>2, <2>3, <3>2, <4>1 DEF BalanceInv, ClientsInv, TypeOK
      <4>2. QED BY <1>1, <1>5, <2>2, <3>2, <4>1 DEF BalanceInv, ClientsInv
    <3>3. QED BY <1>1, <3>1, <3>2
  <2>5. at \in open
    BY <2>3 DEF BalanceInv, TurnInv
  <2>6. TurnInv'
    BY <1>1, <2>2, <2>3, <2>5 DEF BalanceInv, TurnInv
  <2>7. QED BY <2>4, <2>6 DEF BalanceInv
<1>6. QED BY <1>2, <1>3, <1>4, <1>5 DEF GetClient, Connect, PingNew, ReturnClient

\* The wrapper is appended, and the turn goes to the next target.
LEMMA WrapBalance ==
    ASSUME BalanceInv, TypeOK', Wrap
    PROVE  BalanceInv'
<1>1. /\ at \in Int /\ at' = at + 1 /\ pc = "register" /\ pc' = "next"
      /\ UNCHANGED <<shared, built, mine, open, deferred>>
  BY TargetsNumbered DEF BalanceInv, TypeOK, Wrap
<1>2. ClientsInv'
  BY <1>1 DEF BalanceInv, ClientsInv
<1>3. TurnInv'
  <2>1. \A i \in Targets : i >= at' => mine[i] = "nil"
    <3>1. \A i \in Targets : i > at => mine[i] = "nil"
      BY DEF BalanceInv, TurnInv
    <3>2. QED BY <1>1, <3>1, TargetsNumbered
  <2>2. QED BY <1>1, <2>1, TargetsNumbered DEF TurnInv
<1>4. QED BY <1>2, <1>3 DEF BalanceInv

\* The last deferred call runs.
LEMMA RunDeferredBalance ==
    ASSUME BalanceInv, TypeOK', RunDeferred
    PROVE  BalanceInv'
<1> DEFINE last == deferred[Len(deferred)]
<1>1. /\ deferred \in Seq(Deferred) /\ deferred # <<>>
      /\ deferred' = SubSeq(deferred, 1, Len(deferred) - 1)
      /\ UNCHANGED <<shared, built, at, mine, pc>> /\ pc = "unwind"
  BY DEF BalanceInv, TypeOK, RunDeferred
<1>2. /\ Len(deferred) \in Nat \ {0}
      /\ DOMAIN deferred = 1..Len(deferred)
      /\ DOMAIN deferred' = 1..(Len(deferred) - 1)
      /\ \A k \in DOMAIN deferred' : k \in DOMAIN deferred /\ deferred'[k] = deferred[k]
  BY <1>1
<1>3. open' = IF last.call = "disconnect" /\ mine[last.of] # "nil" THEN open \ {last.of} ELSE open
  BY DEF RunDeferred, Closes
<1>4. ClientsInv'
  <2>1. CASE shared
    <3>1. last.call # "disconnect"
      BY <1>2, <2>1 DEF BalanceInv, ClientsInv
    <3>2. QED BY <1>1, <1>2, <1>3, <2>1, <3>1 DEF BalanceInv, ClientsInv
  <2>2. CASE ~shared
    <3>1. ASSUME NEW i \in open'
          PROVE  /\ mine[i] # "nil"
                 /\ \E k \in DOMAIN deferred' :
                       deferred'[k].call = "disconnect" /\ deferred'[k].of = i
      <4>0. i \in open
        BY <1>3, <3>1
      <4>1. PICK k \in DOMAIN deferred : /\ deferred[k].call = "disconnect" /\ deferred[k].of = i
                                         /\ mine[i] # "nil"
        BY <1>1, <2>2, <4>0 DEF BalanceInv, ClientsInv
      <4>2. k # Len(deferred)
        BY <1>3, <3>1, <4>1
      <4>3. k \in DOMAIN deferred'
        BY <1>2, <4>1, <4>2
      <4>4. QED BY <1>2, <4>1, <4>3
    <3>2. QED BY <1>1, <2>2, <3>1 DEF BalanceInv, ClientsInv
  <2>3. QED BY <2>1, <2>2
<1>5. TurnInv'
  BY <1>1 DEF BalanceInv, TurnInv
<1>6. QED BY <1>4, <1>5 DEF BalanceInv

\* The inductive invariant is kept by every step.
LEMMA NextBalance == BalanceInv /\ [Next]_vars => BalanceInv'
<1> SUFFICES ASSUME BalanceInv, [Next]_vars PROVE BalanceInv'
  OBVIOUS
<1> TypeOK'
  BY NextType DEF BalanceInv
<1>1. CASE UNCHANGED vars
  BY <1>1, QuietStep DEF vars
<1>2. CASE Leave \/ (\E i \in Targets : Expire(i)) \/ Ended
  BY <1>2, QuietStep DEF Leave, Expire, Ended, vars
<1>3. CASE Register \/ Refuse \/ Merge \/ Served \/ End
  BY <1>3, QuietStep DEF Register, Refuse, Merge, Served, End
<1>4. CASE BeginTarget
  BY <1>4, BeginBalance
<1>5. CASE GetClient
  BY <1>5, GetClientBalance
<1>6. CASE Wrap
  BY <1>6, WrapBalance
<1>7. CASE RunDeferred
  BY <1>7, RunDeferredBalance
<1>8. QED BY <1>1, <1>2, <1>3, <1>4, <1>5, <1>6, <1>7 DEF Next, Handle

\* When nothing is deferred any more, every client is where it belongs.
LEMMA BalanceImplies == BalanceInv => PoolsBalanced
<1> SUFFICES ASSUME BalanceInv PROVE PoolsBalanced
  OBVIOUS
<1>1. pc = "ended" => open = built
  <2> SUFFICES ASSUME pc = "ended" PROVE open = built
    OBVIOUS
  <2>1. deferred = <<>> /\ shared \in BOOLEAN
    BY DEF BalanceInv, TurnInv, TypeOK
  <2>2. DOMAIN deferred = {}
    BY <2>1
  <2>3. CASE shared
    BY <2>3 DEF BalanceInv, ClientsInv
  <2>4. CASE ~shared
    BY <2>2, <2>4 DEF BalanceInv, ClientsInv
  <2>5. QED BY <2>1, <2>3, <2>4
<1>2. QED BY <1>1 DEF BalanceInv, TurnInv, PoolsBalanced

\* The invariant of the clients, for any list of targets.
THEOREM BalanceCorrect == Spec => []BalanceInv
BY InitBalance, NextBalance, PTL DEF Spec

\* However a request to /scrapeall ends, for any list of targets: no pool of its own stays
\* open, no shared one is closed, and collectors work with connected clients.
THEOREM PoolsBalancedCorrect == Spec => []PoolsBalanced
BY BalanceCorrect, BalanceImplies, PTL

-----------------------------------------------------------------------------
(***************************************************************************)
(* The response: what every target contributes, under which label, and that *)
(* nothing is begun for a client that has gone.                            *)
(***************************************************************************)
\* The two series a target can have.
Up(i, v) == [family |-> "up", help |-> "up", value |-> v, of |-> i]
Data(i)   == [family |-> "data", help |-> version[i], value |-> 1, of |-> i]

\* The target's context is neither past its deadline nor left by the client.
InTime(i) == ctx[i] \notin {"late", "left"}

\* Once the HTTP client has gone no context is live; while a target is served its context
\* has begun and is not cancelled.
ContextInv ==
    /\ gone => \A i \in Targets : ctx[i] # "live"
    /\ ~gone => \A i \in Targets : ctx[i] # "left"
    /\ pc \in {"getClient", "ping", "register"} => ctx[at] \in {"live", "late", "left"}

\* The targets are gathered in their order, the default registry first, and only after the
\* last one is registered; a target without a client has one collector.
OrderInv ==
    /\ Len(gatherers) = at
    /\ \A k \in 1..at : gatherers[k] = k - 1
    /\ at \in Targets => merged = 0
    /\ pc = "register" /\ mine[at] = "nil" => step <= 2

\* The target with the number i has had its turn as far as the collector number c.
Past(i, c) == i < at \/ (i = at /\ pc = "register" /\ step > c)

\* What the collectors of a target hold: at most mongodb_up and one series of data, and
\* each of them, in time, once it has been registered.
CacheInv ==
    /\ cached = [i \in Targets |-> cached[i]]
    /\ \A i \in Targets :
        /\ \A s \in cached[i] : s \in {Up(i, 0), Up(i, 1), Data(i)}
        /\ Up(i, 1) \in cached[i] => mine[i] # "nil" /\ Up(i, 0) \notin cached[i]
        /\ (i > at \/ (i = at /\ pc \in {"next", "getClient", "ping"})) => cached[i] = {}
        /\ i = at /\ pc = "register" /\ step = 1 => cached[i] = {}
        /\ i = at /\ pc = "register" /\ step = 2 => Data(i) \notin cached[i]
        /\ InTime(i) /\ Past(i, 1) => Up(i, 0) \in cached[i] \/ Up(i, 1) \in cached[i]
        /\ InTime(i) /\ Past(i, 2) /\ mine[i] # "nil" => Data(i) \in cached[i]

\* The response so far: it comes from the targets merged so far, and holds whatever nothing
\* before it can clash with.
First(i)    == \A j \in 1..(i - 1) : Instances[j] # Instances[i]

\* All targets before i are of its version.
SameHelp(i) == \A j \in 1..(i - 1) : version[j] = version[i]

\* Every series target i had to show is shown, or clashes with one shown before it.
AnsweredFor(i) ==
    \A t \in Wrapped(i) : \E s \in response : s.of <= i /\ Clash(s, t)

\* The response so far, target by target.
ResponseInv ==
    /\ \A t \in response :
          \/ t.of = Default /\ t.family = "go"
          \/ t.of \in Targets /\ t.of < merged /\ \E s \in cached[t.of] : t = Labelled(s, t.of)
    /\ \A s, t \in response : s.of \in Targets /\ Clash(s, t) => s = t
    /\ \A i \in Targets : i < merged /\ i \notin doubled /\ First(i) =>
          \A s \in cached[i] : s.family = "up" \/ SameHelp(i) => Labelled(s, i) \in response
    /\ \A i \in Targets : i < merged => AnsweredFor(i)

\* The inductive invariant of the response.
ReportInv == ContextInv /\ OrderInv /\ CacheInv /\ ResponseInv

-----------------------------------------------------------------------------
(***************************************************************************)
(* The environment and the end of the request.                             *)
(***************************************************************************)

\* A context that ends, or a deferred call that runs, makes nobody's time longer.
LEMMA ContextStep ==
    ASSUME TypeOK, ReportInv, Leave \/ (\E i \in Targets : Expire(i)) \/ RunDeferred
    PROVE  ContextInv' /\ \A i \in Targets : InTime(i)' => InTime(i)
<1>1. CASE Leave
  BY <1>1 DEF Leave, ReportInv, ContextInv, InTime, TypeOK
<1>2. CASE \E i \in Targets : Expire(i)
  BY <1>2 DEF Expire, ReportInv, ContextInv, InTime, TypeOK
<1>3. CASE RunDeferred
  BY <1>3 DEF RunDeferred, ReportInv, ContextInv, InTime, TypeOK
<1>4. QED BY <1>1, <1>2, <1>3

\* A step that leaves the targets, their metrics and the response alone.
LEMMA QuietReport ==
    ASSUME TypeOK, ReportInv, ContextInv',
           UNCHANGED <<version, at, mine, step, cached, doubled, gatherers, merged, response>>,
           pc' = pc \/ pc' \in {"unwind", "ended"},
           \A i \in Targets : InTime(i)' => InTime(i)
    PROVE  ReportInv'
<1>1. OrderInv'
  BY DEF ReportInv, OrderInv
<1>2. CacheInv'
  <2>1. \A i \in Targets, c \in {1, 2} : Past(i, c)' => Past(i, c)
    BY DEF Past
  <2>2. \A i \in Targets, v \in {0, 1} : Up(i, v)' = Up(i, v) /\ Data(i)' = Data(i)
    BY DEF Up, Data
  <2>3. QED BY <2>1, <2>2 DEF ReportInv, CacheInv
<1>3. ResponseInv'
  BY DEF ReportInv, ResponseInv, SameHelp, AnsweredFor, Wrapped, Clash, Labelled
<1>4. QED BY <1>1, <1>2, <1>3 DEF ReportInv

LEMMA EndReport ==
    ASSUME TypeOK, ReportInv,
           \/ Leave \/ (\E i \in Targets : Expire(i)) \/ RunDeferred
           \/ Refuse \/ Served \/ End \/ Ended \/ UNCHANGED vars
    PROVE  ReportInv'
<1>1. CASE Leave \/ (\E i \in Targets : Expire(i)) \/ RunDeferred
  <2>1. UNCHANGED <<version, at, mine, step, cached, doubled, gatherers, merged, response, pc>>
    BY <1>1 DEF Leave, Expire, RunDeferred
  <2>2. QED BY <1>1, <2>1, ContextStep, QuietReport
<1>2. CASE Refuse \/ Served \/ End \/ Ended \/ UNCHANGED vars
  <2>1. /\ UNCHANGED <<version, at, mine, step, cached, doubled, gatherers, merged, response,
                       ctx, gone>>
        /\ pc' = pc \/ pc' \in {"unwind", "ended"}
    BY <1>2 DEF Refuse, Served, End, Ended, vars
  <2>2. ContextInv' /\ \A i \in Targets : InTime(i)' => InTime(i)
    BY <2>1 DEF ReportInv, ContextInv, InTime
  <2>3. QED BY <2>1, <2>2, QuietReport
<1>3. QED BY <1>1, <1>2

-----------------------------------------------------------------------------
(***************************************************************************)
(* The loop.                                                               *)
(***************************************************************************)

\* As long as targets are visited nothing is merged, and no target is in the response.
LEMMA NothingMerged ==
    ASSUME TypeOK, ReportInv, at \in Targets
    PROVE  /\ merged = 0
           /\ \A t \in response : t.of = Default /\ t.family = "go"
BY TargetsNumbered DEF ReportInv, OrderInv, ResponseInv

\* So nothing the loop does can spoil the response.
LEMMA ResponseUntouched ==
    ASSUME TypeOK, ReportInv, at \in Targets, UNCHANGED <<merged, response>>
    PROVE  ResponseInv'
<1>1. \A s \in response : s.of = Default /\ s.of \notin Targets
  BY NothingMerged, TargetsNumbered DEF Default
<1>2. \A i \in Targets : ~(i < merged')
  BY NothingMerged, TargetsNumbered
<1>3. QED BY <1>1, <1>2, NothingMerged DEF ResponseInv

\* A target begins.
LEMMA BeginReport ==
    ASSUME TypeOK, ReportInv, BeginTarget
    PROVE  ReportInv'
<1>1. /\ pc = "next" /\ pc' = "getClient" /\ at \in Targets
      /\ ctx' = [ctx EXCEPT ![at] = NewContext]
      /\ UNCHANGED <<gone, version, at, mine, step, cached, doubled, gatherers, merged, response>>
  BY DEF BeginTarget
<1>2. ContextInv'
  BY <1>1 DEF ReportInv, ContextInv, NewContext, TypeOK
<1>3. OrderInv'
  BY <1>1 DEF ReportInv, OrderInv
<1>4. CacheInv'
  <2>1. \A i \in Targets, c \in {1, 2} : Past(i, c)' => Past(i, c) /\ i # at
    BY <1>1, TargetsNumbered DEF Past
  <2>2. \A i \in Targets : i # at => (InTime(i)' <=> InTime(i))
    BY <1>1 DEF InTime, TypeOK
  <2>3. \A i \in Targets, v \in {0, 1} : Up(i, v)' = Up(i, v) /\ Data(i)' = Data(i)
    BY <1>1 DEF Up, Data
  <2>4. QED BY <1>1, <2>1, <2>2, <2>3 DEF ReportInv, CacheInv
<1>5. QED BY <1>1, <1>2, <1>3, <1>4, ResponseUntouched DEF ReportInv

\* A target gets its client or none; nothing is registered for it yet.
LEMMA GetClientReport ==
    ASSUME BalanceInv, ReportInv, GetClient
    PROVE  ReportInv'
<1> TypeOK
  BY DEF BalanceInv
<1>1. /\ pc \in {"getClient", "ping"} /\ pc' \in {"ping", "register"} /\ at \in Targets
      /\ pc' = "register" => step' = 1
      /\ UNCHANGED <<gone, ctx, version, at, cached, doubled, gatherers, merged, response>>
      /\ \A i \in Targets : i # at => mine'[i] = mine[i]
  BY GetClientWhere
<1>2. ContextInv'
  BY <1>1 DEF ReportInv, ContextInv
<1>3. OrderInv'
  BY <1>1 DEF ReportInv, OrderInv
<1>4. CacheInv'
  <2>1. \A i \in Targets, c \in {1, 2} : Past(i, c)' => Past(i, c) /\ i # at
    BY <1>1, TargetsNumbered DEF Past
  <2>2. \A i \in Targets : InTime(i)' <=> InTime(i)
    BY <1>1 DEF InTime
  <2>3. \A i \in Targets, v \in {0, 1} : Up(i, v)' = Up(i, v) /\ Data(i)' = Data(i)
    BY <1>1 DEF Up, Data
  <2>4. cached[at] = {}
    BY <1>1 DEF ReportInv, CacheInv
  <2>5. QED BY <1>1, <2>1, <2>2, <2>3, <2>4 DEF ReportInv, CacheInv
<1>5. QED BY <1>1, <1>2, <1>3, <1>4, ResponseUntouched DEF ReportInv

\* The wrapper of the target is appended; the next target has nothing yet.
LEMMA WrapReport ==
    ASSUME TypeOK, ReportInv, Wrap
    PROVE  ReportInv'
<1>1. /\ pc = "register" /\ pc' = "next" /\ at \in Targets /\ at \in Int /\ at' = at + 1
      /\ gatherers' = Append(gatherers, at) /\ gatherers \in Seq(Targets \cup {Default})
      /\ UNCHANGED <<gone, ctx, version, mine, step, cached, doubled, merged, response>>
  BY TargetsNumbered DEF Wrap, WithWrapper, TypeOK
<1>2. ContextInv'
  BY <1>1 DEF ReportInv, ContextInv
<1>3. OrderInv'
  <2>1. /\ Len(gatherers) = at /\ merged = 0
        /\ \A k \in 1..at : gatherers[k] = k - 1
    BY <1>1 DEF ReportInv, OrderInv
  <2>2. /\ Len(gatherers') = at + 1
        /\ \A k \in 1..at : gatherers'[k] = gatherers[k]
        /\ gatherers'[at + 1] = at
    BY <1>1, <2>1
  <2>3. \A k \in 1..(at + 1) : gatherers'[k] = k - 1
    <3>1. TAKE k \in 1..(at + 1)
    <3>2. k \in 1..at \/ k = at + 1
      BY <1>1
    <3>3. QED BY <1>1, <2>1, <2>2, <3>2
  <2>4. at' = at + 1 /\ merged' = merged
    BY <1>1
  <2>5. QED BY <1>1, <2>1, <2>2, <2>3, <2>4 DEF OrderInv
<1>4. CacheInv'
  <2>1. step \in 1..3 /\ step # 1 /\ (mine[at] # "nil" => step = 3)
    BY <1>1, TwoCollectors DEF Wrap, Registers, TypeOK
  <2>2. \A i \in Targets : i \in Int /\ (Past(i, 1)' => Past(i, 1))
    BY <1>1, <2>1, TargetsNumbered DEF Past
  <2>3. \A i \in Targets : mine[i] # "nil" /\ Past(i, 2)' => Past(i, 2)
    BY <1>1, <2>1, TargetsNumbered DEF Past
  <2>4. \A i \in Targets : InTime(i)' <=> InTime(i)
    BY <1>1 DEF InTime
  <2>5. \A i \in Targets, v \in {0, 1} : Up(i, v)' = Up(i, v) /\ Data(i)' = Data(i)
    BY <1>1 DEF Up, Data
  <2>6. \A i \in Targets : i >= at' => i > at
    BY <1>1, TargetsNumbered
  <2>7. QED BY <1>1, <2>2, <2>3, <2>4, <2>5, <2>6, TargetsNumbered DEF ReportInv, CacheInv
<1>5. QED BY <1>1, <1>2, <1>3, <1>4, ResponseUntouched DEF ReportInv

\* A collector is registered: it collects if there is time, or if there is no client.
LEMMA RegisterReport ==
    ASSUME TypeOK, ReportInv, Register
    PROVE  ReportInv'
<1>1. /\ pc = "register" /\ at \in Targets /\ at \in Int
      /\ step \in {1, 2} /\ step' = step + 1
      /\ mine[at] = "nil" => step = 1
      /\ UNCHANGED <<gone, version, pc, at, ctx, mine, gatherers, merged, response>>
  BY TargetsNumbered, TwoCollectors DEF Register, Registers, TypeOK
<1>2. ContextInv'
  BY <1>1 DEF ReportInv, ContextInv
<1>3. OrderInv'
  BY <1>1 DEF ReportInv, OrderInv
<1>4. ctx[at] \in {"live", "late", "left"}
  BY <1>1 DEF ReportInv, ContextInv
<1>5. \A i \in Targets : /\ i # at => \A c \in {1, 2} : Past(i, c)' <=> Past(i, c)
                         /\ Past(at, 1)' /\ (Past(at, 2)' <=> step = 2)
  BY <1>1, TargetsNumbered DEF Past
<1>6. \A i \in Targets : InTime(i)' <=> InTime(i)
  BY <1>1 DEF InTime
<1>7. \A i \in Targets, v \in {0, 1} : Up(i, v)' = Up(i, v) /\ Data(i)' = Data(i)
  BY <1>1 DEF Up, Data
<1>8. \A v, w \in {0, 1} : Up(at, v) # Data(at)
  BY DEF Up, Data
<1>9. CacheInv'
  <2>1. CASE /\ mine[at] = "nil" \/ ctx[at] = "live"
             /\ \E s \in Found(Collectors[step]) : cached' = [cached EXCEPT ![at] = @ \cup {s}]
    <3>1. PICK s \in Found(Collectors[step]) : cached' = [cached EXCEPT ![at] = @ \cup {s}]
      BY <2>1
    <3>2. CASE step = 1
      <4>1. s \in {Up(at, 0), Up(at, 1)} /\ (s = Up(at, 1) => mine[at] # "nil")
        <5>1. s \in {Series("up", "up", v) : v \in IF mine[at] = "nil" THEN {0} ELSE {0, 1}}
          BY <3>2 DEF Found, Collectors
        <5>2. QED BY <5>1 DEF Series, Up
      <4>2. cached[at] = {} /\ Up(at, 0) # Up(at, 1)
        BY <1>1, <3>2 DEF ReportInv, CacheInv, Up
      <4>3. /\ cached' = [i \in Targets |-> cached'[i]]
            /\ \A i \in Targets : i # at => cached'[i] = cached[i]
            /\ cached'[at] = {s}
        BY <1>1, <3>1, <4>2 DEF ReportInv, CacheInv
      <4>4. Data(at)' \notin cached'[at]
        BY <1>1, <1>7, <1>8, <4>1, <4>3
      <4>5. QED BY <1>1, <1>5, <1>6, <1>7, <3>2, <4>1, <4>2, <4>3, <4>4 DEF ReportInv, CacheInv
    <3>3. CASE step = 2
      <4>1. s = Data(at)
        BY <3>3 DEF Found, Collectors, Series, Data
      <4>2. /\ cached' = [i \in Targets |-> cached'[i]]
            /\ \A i \in Targets : i # at => cached'[i] = cached[i]
            /\ cached'[at] = cached[at] \cup {Data(at)}
        BY <1>1, <3>1, <4>1 DEF ReportInv, CacheInv
      <4>3. Past(at, 1)
        BY <1>1, <3>3 DEF Past
      <4>4. QED BY <1>1, <1>5, <1>6, <1>7, <1>8, <3>3, <4>2, <4>3 DEF ReportInv, CacheInv
    <3>4. QED BY <1>1, <3>2, <3>3
  <2>2. CASE mine[at] # "nil" /\ ctx[at] # "live" /\ UNCHANGED <<cached, doubled>>
    <3>1. ~InTime(at)
      BY <1>4, <2>2 DEF InTime
    <3>2. QED BY <1>1, <1>5, <1>6, <1>7, <2>2, <3>1 DEF ReportInv, CacheInv
  <2>3. QED BY <2>1, <2>2 DEF Register
<1>10. QED BY <1>1, <1>2, <1>3, <1>9, ResponseUntouched DEF ReportInv

-----------------------------------------------------------------------------
(***************************************************************************)
(* Merging.                                                                *)
(***************************************************************************)

\* What a target holds, as it is labelled.
LEMMA LabelledFields ==
    ASSUME CacheInv, NEW i \in Targets, NEW s \in cached[i]
    PROVE  /\ Labelled(s, i).of = i /\ Labelled(s, i).instance = Instances[i]
           /\ Labelled(s, i).family = s.family /\ Labelled(s, i).help = s.help
           /\ Labelled(s, i).value = s.value
           /\ \/ s.family = "up" /\ s.help = "up" /\ s \in {Up(i, 0), Up(i, 1)}
              \/ s.family = "data" /\ s = Data(i) /\ s.help = version[i]
<1>1. s \in {Up(i, 0), Up(i, 1), Data(i)}
  BY DEF CacheInv
<1>2. QED BY <1>1 DEF Up, Data, Labelled, InstanceOf

\* Whatever comes first is kept; a target clashes only with one of its name, or with one
\* before it whose help differs.
LEMMA MergeReport ==
    ASSUME TypeOK, ReportInv, Merge
    PROVE  ReportInv'
<1> DEFINE i == gatherers[merged + 1]
           new == Gathered(i)
<1>1. /\ pc = "next" /\ merged' = merged + 1 /\ merged \in Nat /\ merged < Len(gatherers)
      /\ response' = response \cup Merged(new)
      /\ UNCHANGED <<gone, ctx, version, pc, at, mine, step, cached, doubled, gatherers>>
      /\ at \notin Targets
  BY DEF Merge, TypeOK
<1>2. i = merged /\ at = Len(Instances) + 1 /\ merged < at
  BY <1>1, TargetsNumbered DEF ReportInv, OrderInv, TypeOK
<1>3. merged = 0 \/ merged \in Targets
  BY <1>1, <1>2, TargetsNumbered
<1>4. ContextInv' /\ OrderInv'
  BY <1>1 DEF ReportInv, ContextInv, OrderInv
<1>5. CacheInv'
  <2>1. \A j \in Targets : Up(j, 0)' = Up(j, 0) /\ Up(j, 1)' = Up(j, 1) /\ Data(j)' = Data(j)
    BY <1>1 DEF Up, Data
  <2>2. \A j \in Targets : /\ InTime(j)' <=> InTime(j)
                           /\ Past(j, 1)' <=> Past(j, 1)
                           /\ Past(j, 2)' <=> Past(j, 2)
    BY <1>1 DEF InTime, Past
  <2>3. QED BY <1>1, <2>1, <2>2 DEF ReportInv, CacheInv
<1>6. \A t \in new :
         \/ t.of = Default /\ t.family = "go" /\ merged = 0
         \/ merged \in Targets /\ merged \notin doubled /\ \E s \in cached[merged] : t = Labelled(s, merged)
  BY <1>2, <1>3, TargetsNumbered DEF Gathered, Wrapped, Default
<1>7. \A t \in response' :
         \/ t.of = Default /\ t.family = "go"
         \/ t.of \in Targets /\ t.of < merged' /\ \E s \in cached[t.of] : t = Labelled(s, t.of)
  <2>1. TAKE t \in response'
  <2>2. CASE t \in response
    BY <1>1, <2>2, TargetsNumbered DEF ReportInv, ResponseInv
  <2>3. CASE t \in new
    BY <1>1, <1>6, <2>3, LabelledFields DEF ReportInv
  <2>4. QED BY <1>1, <2>2, <2>3 DEF Merged
<1>8. \A s, t \in response' : s.of \in Targets /\ Clash(s, t) => s = t
  <2>1. TAKE s, t \in response'
  <2>2. HAVE s.of \in Targets /\ Clash(s, t)
  <2>3. CASE s \in response /\ t \in response
    BY <2>2, <2>3 DEF ReportInv, ResponseInv
  <2>4. CASE s \in Merged(new) /\ t \in response
    BY <2>2, <2>4 DEF Merged
  <2>5. CASE s \in response /\ t \in Merged(new)
    BY <2>2, <2>5 DEF Merged, Clash
  <2>6. CASE s \in Merged(new) /\ t \in Merged(new)
    <3>1. s \in new /\ t \in new
      BY <2>6 DEF Merged
    <3>2. merged \in Targets
      BY <1>6, <2>2, <3>1, TargetsNumbered DEF Default
    <3>3. merged # 0
      BY <3>2, TargetsNumbered
    <3>4. PICK a \in cached[merged] : s = Labelled(a, merged)
      BY <1>6, <3>1, <3>3
    <3>5. PICK b \in cached[merged] : t = Labelled(b, merged)
      BY <1>6, <3>1, <3>3
    <3>6. a.family = b.family
      BY <2>2, <3>2, <3>4, <3>5, LabelledFields DEF Clash, ReportInv
    <3>7. a = b
      BY <3>2, <3>6, LabelledFields DEF ReportInv, CacheInv
    <3>8. QED BY <3>4, <3>5, <3>7
  <2>7. QED BY <1>1, <2>3, <2>4, <2>5, <2>6
<1>9. \A j \in Targets : j < merged' /\ j \notin doubled /\ First(j) =>
         \A s \in cached[j] : s.family = "up" \/ SameHelp(j) => Labelled(s, j) \in response'
  <2>1. TAKE j \in Targets
  <2>2. HAVE j < merged' /\ j \notin doubled /\ First(j)
  <2>3. TAKE s \in cached[j]
  <2>4. HAVE s.family = "up" \/ SameHelp(j)
  <2>5. CASE j < merged
    BY <1>1, <2>2, <2>4, <2>5 DEF ReportInv, ResponseInv
  <2>6. CASE j = merged
    <3>1. Labelled(s, j) \in new
      BY <1>2, <2>2, <2>6, TargetsNumbered DEF Gathered, Wrapped, Default
    <3>2. ASSUME NEW t \in response PROVE ~Clash(Labelled(s, j), t)
      <4>1. CASE t.of = Default /\ t.family = "go"
        BY <4>1, LabelledFields DEF Clash, ReportInv
      <4>2. CASE t.of \in Targets /\ t.of < merged /\ \E a \in cached[t.of] : t = Labelled(a, t.of)
        <5>1. PICK a \in cached[t.of] : t = Labelled(a, t.of)
          BY <4>2
        <5>2. t.of \in 1..(j - 1)
          BY <2>6, <4>2, TargetsNumbered
        <5>3. t.instance = Instances[t.of] /\ Instances[t.of] # Instances[j]
          BY <2>2, <4>2, <5>1, <5>2, LabelledFields DEF First, ReportInv
        <5>4. /\ t.family = a.family /\ t.help = a.help
              /\ a.family = "up" => a.help = "up"
              /\ a.family # "up" => a.help = version[t.of]
          BY <4>2, <5>1, LabelledFields DEF ReportInv
        <5>5. /\ Labelled(s, j).family = s.family /\ Labelled(s, j).help = s.help
              /\ Labelled(s, j).instance = Instances[j]
              /\ s.family = "up" => s.help = "up"
              /\ s.family # "up" => s.help = version[j]
          BY LabelledFields DEF ReportInv
        <5>6. s.family # "up" => version[t.of] = version[j]
          BY <2>4, <5>2 DEF SameHelp
        <5>7. QED BY <5>3, <5>4, <5>5, <5>6 DEF Clash
      <4>3. QED BY <4>1, <4>2 DEF ReportInv, ResponseInv
    <3>3. Labelled(s, j) \in Merged(new)
      BY <3>1, <3>2 DEF Merged
    <3>4. QED BY <1>1, <3>3
  <2>7. QED BY <1>1, <2>2, <2>5, <2>6, TargetsNumbered
<1>a. \A j \in Targets : j < merged' => AnsweredFor(j)'
  <2>1. TAKE j \in Targets
  <2>2. HAVE j < merged'
  <2>3. Wrapped(j)' = Wrapped(j)
    BY <1>1 DEF Wrapped, Labelled, InstanceOf
  <2>4. SUFFICES ASSUME NEW t \in Wrapped(j)
                 PROVE  \E s \in response' : s.of <= j /\ Clash(s, t)
    BY <2>3 DEF AnsweredFor, Clash
  <2>5. CASE j < merged
    BY <1>1, <2>4, <2>5 DEF ReportInv, ResponseInv, AnsweredFor
  <2>6. CASE j = merged
    <3>1. t \in new
      BY <1>2, <2>6, TargetsNumbered DEF Gathered, Default
    <3>2. CASE t \in Merged(new)
      <4>1. PICK u \in cached[j] : t = Labelled(u, j)
        BY <2>4 DEF Wrapped
      <4>2. t.of = j
        BY <4>1, LabelledFields DEF ReportInv
      <4>3. Clash(t, t)
        BY DEF Clash
      <4>4. t \in response'
        BY <1>1, <3>2
      <4>5. QED BY <4>2, <4>3, <4>4, TargetsNumbered
    <3>3. CASE t \notin Merged(new)
      <4>1. PICK s \in response : Clash(t, s)
        BY <3>1, <3>3 DEF Merged
      <4>2. s.of <= j
        BY <1>3, <2>6, TargetsNumbered DEF ReportInv, ResponseInv, Default
      <4>3. QED BY <1>1, <4>1, <4>2 DEF Clash
    <3>4. QED BY <3>2, <3>3
  <2>7. QED BY <1>1, <2>2, <2>5, <2>6, TargetsNumbered
<1>10. ResponseInv'
  <2>1. \A s, t : Clash(s, t)' <=> Clash(s, t)
    BY DEF Clash
  <2>2. \A s, j : Labelled(s, j)' = Labelled(s, j)
    BY DEF Labelled, InstanceOf
  <2>3. \A j : (First(j)' <=> First(j)) /\ (SameHelp(j)' <=> SameHelp(j))
    BY <1>1 DEF First, SameHelp
  <2>4. cached' = cached /\ doubled' = doubled
    BY <1>1
  <2>5. QED BY <1>7, <1>8, <1>9, <1>a, <2>1, <2>2, <2>3, <2>4 DEF ResponseInv
<1>11. QED BY <1>4, <1>5, <1>10 DEF ReportInv

-----------------------------------------------------------------------------
(***************************************************************************)
(* The theorems.                                                           *)
(***************************************************************************)

\* At first there is the default registry and no target.
LEMMA InitReport == Init => ReportInv
<1> SUFFICES ASSUME Init PROVE ReportInv
  OBVIOUS
<1>1. ContextInv
  BY DEF Init, ContextInv
<1>2. OrderInv
  BY DEF Init, OrderInv, Default
<1>3. CacheInv
  BY TargetsNumbered DEF Init, CacheInv, Past
<1>4. ResponseInv
  BY TargetsNumbered DEF Init, ResponseInv
<1>5. QED BY <1>1, <1>2, <1>3, <1>4 DEF ReportInv

\* The invariant of the request as a whole, for any list of targets.
THEOREM ReportCorrect == Spec => []ReportInv
<1>1. BalanceInv /\ ReportInv /\ [Next]_vars => ReportInv'
  BY EndReport, BeginReport, GetClientReport, WrapReport, RegisterReport, MergeReport
     DEF Next, Handle, BalanceInv
<1>2. QED BY InitReport, BalanceCorrect, <1>1, PTL DEF Spec

\* For any list of targets, whoever else fails or is slow: a target in time, with a name of
\* its own and a registry without errors is in the response.
THEOREM EveryTargetReportsCorrect == Spec => []EveryTargetReports
<1>1. TypeOK /\ ReportInv => EveryTargetReports
  <2> SUFFICES ASSUME TypeOK, ReportInv, Complete, ~gone, NEW i \in Targets,
                      ctx[i] # "late", i \notin doubled, First(i)
               PROVE  /\ \E s \in response : s.family = "up" /\ s.of = i
                      /\ \/ mine[i] = "nil"
                         \/ \E s \in response : s.family = "data" /\ s.of = i
                         \/ \E j \in 1..(i - 1) : version[j] # version[i]
    BY DEF EveryTargetReports, First
  <2>1. at \notin Targets /\ merged = at /\ at = Len(Instances) + 1
    BY TargetsNumbered DEF Complete, ReportInv, OrderInv, TypeOK
  <2>2. i < at /\ i < merged
    BY <2>1, TargetsNumbered
  <2>3. InTime(i) /\ Past(i, 1) /\ Past(i, 2)
    BY <2>2 DEF InTime, Past, ReportInv, ContextInv
  <2>4. \E s \in response : s.family = "up" /\ s.of = i
    <3>1. PICK s \in cached[i] : s.family = "up"
      BY <2>3 DEF ReportInv, CacheInv, Up
    <3>2. Labelled(s, i) \in response
      BY <2>2, <3>1 DEF ReportInv, ResponseInv
    <3>3. QED BY <3>1, <3>2, LabelledFields DEF ReportInv
  <2>5. ASSUME mine[i] # "nil", SameHelp(i)
        PROVE  \E s \in response : s.family = "data" /\ s.of = i
    <3>1. Data(i) \in cached[i]
      BY <2>3, <2>5 DEF ReportInv, CacheInv
    <3>2. Labelled(Data(i), i) \in response
      BY <2>2, <2>5, <3>1 DEF ReportInv, ResponseInv
    <3>3. Data(i).family = "data"
      BY DEF Data
    <3>4. QED BY <3>1, <3>2, <3>3, LabelledFields DEF ReportInv
  <2>6. QED BY <2>4, <2>5 DEF SameHelp
<1>2. QED BY <1>1, ScrapeallTypeCorrect, ReportCorrect, PTL

\* For any list of targets with any names: a series bears its own target's name, of targets
\* that share one the first that has a series of a family and help is the one that shows it,
\* and a target that is up had a client.
THEOREM AttributedCorrect == Spec => []Attributed
<1>1. TypeOK /\ ReportInv => Attributed
  <2> SUFFICES ASSUME TypeOK, ReportInv, NEW s \in response, s.of \in Targets
               PROVE  /\ s.instance = Instances[s.of]
                      /\ \A j \in 1..(s.of - 1) : Instances[j] = s.instance =>
                            \A t \in Wrapped(j) : t.family = s.family => t.help # s.help
                      /\ s.family = "up" /\ s.value = 1 => mine[s.of] # "nil"
    BY DEF Attributed
  <2>1. s.of # Default
    BY TargetsNumbered DEF Default
  <2>2. PICK a \in cached[s.of] : s = Labelled(a, s.of)
    BY <2>1 DEF ReportInv, ResponseInv
  <2>3. s.instance = Instances[s.of] /\ s.family = a.family /\ s.value = a.value
    BY <2>2, LabelledFields DEF ReportInv
  <2>4. a.family = "up" /\ a.value = 1 => a = Up(s.of, 1)
    BY LabelledFields DEF ReportInv, Up
  <2>5. ASSUME NEW j \in 1..(s.of - 1), Instances[j] = s.instance, NEW t \in Wrapped(j),
               t.family = s.family, t.help = s.help
        PROVE  FALSE
    <3>1. j \in Targets /\ j < s.of /\ j < merged
      BY <2>1, TargetsNumbered DEF ReportInv, ResponseInv, TypeOK
    <3>2. PICK first \in response : first.of <= j /\ Clash(first, t)
      BY <2>5, <3>1 DEF ReportInv, ResponseInv, AnsweredFor
    <3>3. t.instance = Instances[j]
      BY <2>5 DEF Wrapped, Labelled, InstanceOf
    <3>4. Clash(s, first)
      BY <2>5, <3>2, <3>3 DEF Clash
    <3>5. s = first
      BY <3>4 DEF ReportInv, ResponseInv
    <3>6. QED BY <3>1, <3>2, <3>5, TargetsNumbered
  <2>6. QED BY <2>2, <2>3, <2>4, <2>5 DEF ReportInv, CacheInv
<1>2. QED BY <1>1, ScrapeallTypeCorrect, ReportCorrect, PTL

\* For any list of targets: once the HTTP client has gone, no target gets a client for it but
\* a first shared one, and no collector asks a server.
THEOREM NothingForTheGoneCorrect == Spec => NothingForTheGone
<1>1. BalanceInv /\ ReportInv /\ [Next]_vars
        => [gone => \A i \in Targets :
                       /\ mine'[i] = mine[i] \/ (shared /\ i \notin built)
                       /\ mine[i] # "nil" => cached'[i] = cached[i]]_vars
  <2> SUFFICES ASSUME BalanceInv, ReportInv, Next, gone, NEW i \in Targets
               PROVE  /\ mine'[i] = mine[i] \/ (shared /\ i \notin built)
                      /\ mine[i] # "nil" => cached'[i] = cached[i]
    OBVIOUS
  <2>1. ctx[i] # "live" /\ TypeOK
    BY DEF ReportInv, ContextInv, BalanceInv
  <2>2. CASE GetClient
    <3>1. cached' = cached /\ at \in Targets /\ mine[at] = "nil"
          /\ (i # at => mine'[i] = mine[i])
      BY <2>2, GetClientWhere
    <3>2. CASE i = at /\ (PingShared \/ Connect)
      BY <2>1, <3>1, <3>2 DEF PingShared, Connect, ReturnClient, TypeOK
    <3>3. CASE i = at /\ PingNew
      BY <2>1, <3>1, <3>3 DEF PingNew, ReturnClient, TypeOK, BalanceInv, TurnInv
    <3>4. QED BY <2>2, <3>1, <3>2, <3>3 DEF GetClient
  <2>3. CASE Register
    <3>1. mine' = mine
      BY <2>3 DEF Register
    <3>2. mine[i] # "nil" => cached'[i] = cached[i]
      BY <2>1, <2>3 DEF Register, ReportInv, CacheInv
    <3>3. QED BY <3>1, <3>2
  <2>4. CASE ~GetClient /\ ~Register
    <3>1. UNCHANGED <<mine, cached>>
      BY <2>4 DEF Next, Handle, BeginTarget, Refuse, Wrap, Merge, Served, RunDeferred,
                  End, Leave, Ended, Expire, vars
    <3>2. QED BY <3>1
  <2>5. QED BY <2>2, <2>3, <2>4
<1>2. QED BY <1>1, BalanceCorrect, ReportCorrect, PTL DEF Spec, NothingForTheGone

-----------------------------------------------------------------------------
(***************************************************************************)
(* Scrapeall implements Registration, once for every target.               *)
(***************************************************************************)

\* A target whose registry stays as it is can at most run out of time.
LEMMA NothingOrTimeOver ==
    ASSUME NEW i \in Targets, RegisteredOf(i)' = RegisteredOf(i), HoldingOf(i)' = HoldingOf(i),
           StateOf(i)' = StateOf(i), Late(i) => Late(i)'
    PROVE  Registry(i)!RegistryStep
<1>1. Late(i) \in BOOLEAN /\ Late(i)' \in BOOLEAN
  BY DEF Late
<1>2. CASE Late(i)' = Late(i)
  BY <1>2 DEF Registry!RegistryStep, Registry!registryVars
<1>3. CASE ~Late(i) /\ Late(i)'
  <2>1. Registry(i)!TimeIsOver
    BY <1>1, <1>3 DEF Registry!TimeIsOver
  <2>2. QED BY <2>1 DEF Registry!RegistryStep, Registry!RegistryNext
<1>4. QED BY <1>1, <1>2, <1>3

\* A context that ends, a client that arrives or a call of the end leaves the registries.
LEMMA LoopStandsRegisters ==
    ASSUME TypeOK, NEW i \in Targets,
           UNCHANGED <<at, pc, step, cached>> \/ (UNCHANGED <<at, step, cached>> /\ i # at),
           mine'[i] = mine[i], ctx[i] # "live" => ctx'[i] # "live"
    PROVE  Registry(i)!RegistryStep
<1>1. i \in Int /\ at \in Int
  BY TargetsNumbered DEF TypeOK
<1>2. RegisteredOf(i)' = RegisteredOf(i)
  BY <1>1 DEF RegisteredOf
<1>3. HoldingOf(i)' = HoldingOf(i)
  BY <1>2 DEF HoldingOf
<1>4. StateOf(i)' = StateOf(i)
  BY <1>1 DEF StateOf, Refused
<1>5. Late(i) => Late(i)'
  BY DEF Late
<1>6. QED BY <1>2, <1>3, <1>4, <1>5, NothingOrTimeOver

\* The turn of a target begins, and its client comes, before anything is registered.
LEMMA BeginRegisters ==
    ASSUME BalanceInv, BeginTarget \/ GetClient, NEW i \in Targets
    PROVE  Registry(i)!RegistryStep
<1>1. /\ at \in Targets /\ at \in Int /\ i \in Int
      /\ UNCHANGED <<at, cached>>
  BY TargetsNumbered, GetClientWhere DEF BeginTarget, BalanceInv, TypeOK
<1>2. /\ pc \in {"next", "getClient", "ping"}
      /\ pc' \in {"getClient", "ping"} \/ (pc' = "register" /\ step' = 1)
      /\ i # at => mine'[i] = mine[i] /\ ctx'[i] = ctx[i]
  <2>1. CASE BeginTarget
    <3>1. /\ pc = "next" /\ pc' = "getClient" /\ mine' = mine
          /\ ctx' = [ctx EXCEPT ![at] = NewContext]
      BY <2>1 DEF BeginTarget
    <3>2. i # at => ctx'[i] = ctx[i]
      BY <3>1 DEF BalanceInv, TypeOK
    <3>3. QED BY <3>1, <3>2
  <2>2. CASE GetClient
    BY <1>1, <2>2, GetClientWhere
  <2>3. QED BY <2>1, <2>2
<1>3. RegisteredOf(i)' = RegisteredOf(i)
  <2>1. CASE i < at
    <3>1. mine'[i] = mine[i] /\ at' = at
      BY <1>1, <1>2, <2>1
    <3>2. QED BY <2>1, <3>1 DEF RegisteredOf
  <2>2. CASE ~(i < at)
    <3>1. RegisteredOf(i) = {}
      BY <1>1, <1>2, <2>2 DEF RegisteredOf
    <3>2. {Collectors[k] : k \in 1..(1 - 1)} = {}
      OBVIOUS
    <3>3. RegisteredOf(i)' = {}
      BY <1>1, <1>2, <2>2, <3>2 DEF RegisteredOf
    <3>4. QED BY <3>1, <3>3
  <2>3. QED BY <2>1, <2>2
<1>4. HoldingOf(i)' = HoldingOf(i)
  BY <1>1, <1>3 DEF HoldingOf
<1>5. StateOf(i)' = StateOf(i)
  BY <1>1, <1>2 DEF StateOf, Refused
<1>6. Late(i) => Late(i)'
  BY <1>1, <1>2 DEF Late, BalanceInv, TurnInv
<1>7. QED BY <1>3, <1>4, <1>5, <1>6, NothingOrTimeOver

\* How many collectors a target registers, and which ones those are.
LEMMA RegisteredSoFar ==
    /\ {Collectors[k] : k \in 1..0} = {}
    /\ {Collectors[k] : k \in 1..1} = {"general"}
    /\ {Collectors[k] : k \in 1..2} = {"general", "data"}
    /\ {Collectors[k] : k \in {1}} = {"general"}
    /\ {Collectors[k] : k \in DOMAIN Collectors} = {"general", "data"}
<1>1. Collectors[1] = "general" /\ Collectors[2] = "data"
  BY DEF Collectors
<1>2. 1..0 = {} /\ 1..1 = {1} /\ 1..2 = {1, 2} /\ DOMAIN Collectors = {1, 2}
  BY TwoCollectors
<1>3. QED BY <1>1, <1>2

\* A collector is registered, and holds metrics unless a client's time is over.
LEMMA RegisterRegisters ==
    ASSUME BalanceInv, ReportInv, Register, NEW i \in Targets
    PROVE  Registry(i)!RegistryStep
<1>1. /\ pc = "register" /\ at \in Targets /\ at \in Int /\ i \in Int
      /\ step \in {1, 2} /\ step' = step + 1
      /\ mine[at] = "nil" => step = 1
      /\ UNCHANGED <<pc, at, ctx, mine>>
  BY TargetsNumbered, TwoCollectors DEF Register, Registers, BalanceInv, TypeOK
<1>2. CASE i # at
  <2>1. cached'[i] = cached[i]
    BY <1>2 DEF Register, ReportInv, CacheInv
  <2>2. RegisteredOf(i)' = RegisteredOf(i) /\ StateOf(i)' = StateOf(i) /\ Late(i)' = Late(i)
    BY <1>1, <1>2 DEF RegisteredOf, StateOf, Refused, Late
  <2>3. HoldingOf(i)' = HoldingOf(i)
    BY <2>1, <2>2 DEF HoldingOf
  <2>4. QED BY <2>2, <2>3, NothingOrTimeOver
<1>3. CASE i = at
  <2> DEFINE c == Collectors[step]
  <2>1. /\ c = IF step = 1 THEN "general" ELSE "data"
        /\ RegisteredOf(i) = IF step = 1 THEN {} ELSE {"general"}
        /\ RegisteredOf(i)' = IF step = 1 THEN {"general"} ELSE {"general", "data"}
    <3>1. CASE step = 1
      BY <1>1, <1>3, <3>1, RegisteredSoFar DEF RegisteredOf, Collectors
    <3>2. CASE step = 2
      BY <1>1, <1>3, <3>2, RegisteredSoFar DEF RegisteredOf, Collectors
    <3>3. QED BY <1>1, <3>1, <3>2
  <2>2. StateOf(i) = "open" /\ StateOf(i)' = "open" /\ Late(i)' = Late(i)
    BY <1>1, <1>3 DEF StateOf, Refused, Late
  <2>3. \/ HoldingOf(i)' = HoldingOf(i) \cup {c}
        \/ Late(i) /\ HoldingOf(i)' = HoldingOf(i)
    <3>1. CASE \E s \in Found(c) : cached' = [cached EXCEPT ![at] = @ \cup {s}]
      <4>1. PICK s \in Found(c) : cached' = [cached EXCEPT ![at] = @ \cup {s}]
        BY <3>1
      <4>2. cached'[i] = cached[i] \cup {s}
        BY <1>1, <1>3, <4>1 DEF ReportInv, CacheInv
      <4>3. s.family = FamilyOf(c)
        BY <1>1, <2>1 DEF Found, Series, FamilyOf
      <4>4. FamilyOf("general") # FamilyOf("data")
        BY DEF FamilyOf
      <4>5. QED BY <1>1, <2>1, <4>2, <4>3, <4>4 DEF HoldingOf
    <3>2. CASE mine[at] # "nil" /\ ctx[at] # "live" /\ UNCHANGED cached
      <4>1. cached'[i] = cached[i] /\ Late(i)
        BY <1>3, <3>2 DEF Late
      <4>2. \A s \in cached[i] : s.family # FamilyOf(c)
        <5>1. CASE step = 1
          BY <1>1, <1>3, <5>1 DEF ReportInv, CacheInv
        <5>2. CASE step = 2
          <6>1. \A s \in cached[i] : s \in {Up(i, 0), Up(i, 1)}
            BY <1>1, <1>3, <5>2 DEF ReportInv, CacheInv
          <6>2. QED BY <2>1, <5>2, <6>1 DEF Up, FamilyOf
        <5>3. QED BY <1>1, <5>1, <5>2
      <4>3. QED BY <1>1, <2>1, <4>1, <4>2 DEF HoldingOf
    <3>3. QED BY <3>1, <3>2 DEF Register
  <2>4. Registry(i)!RegisterOne(c)
    BY <1>1, <2>1, <2>2, <2>3 DEF Registry!RegisterOne
  <2>5. QED BY <1>1, <2>1, <2>4 DEF Registry!RegistryStep, Registry!RegistryNext
<1>4. QED BY <1>2, <1>3

\* A registry that refuses a collector is given up, with all that was in it.
LEMMA RefuseRegisters ==
    ASSUME BalanceInv, Refuse, NEW i \in Targets
    PROVE  Registry(i)!RegistryStep
<1>1. /\ pc = "register" /\ pc' = "unwind" /\ at \in Targets /\ at \in Int /\ i \in Int
      /\ UNCHANGED <<at, ctx, mine, step, cached>>
  BY TargetsNumbered DEF Refuse, BalanceInv, TypeOK
<1>2. CASE i # at
  BY <1>1, <1>2, LoopStandsRegisters DEF BalanceInv
<1>3. CASE i = at
  <2>1. StateOf(i) = "open" /\ StateOf(i)' = "refused" /\ RegisteredOf(i)' = {}
    BY <1>1, <1>3 DEF StateOf, Refused, RegisteredOf
  <2>2. HoldingOf(i)' = {} /\ Late(i)' = Late(i)
    BY <1>1, <2>1 DEF HoldingOf, Late
  <2>3. Registry(i)!RefuseAll
    BY <2>1, <2>2 DEF Registry!RefuseAll
  <2>4. QED BY <2>3 DEF Registry!RegistryStep, Registry!RegistryNext
<1>4. QED BY <1>2, <1>3

\* A registry that has all its collectors is wrapped, and the next target has its turn.
LEMMA WrapRegisters ==
    ASSUME BalanceInv, ReportInv, Wrap, NEW i \in Targets
    PROVE  Registry(i)!RegistryStep
<1>1. /\ pc = "register" /\ pc' = "next" /\ at \in Targets /\ at \in Int /\ i \in Int
      /\ at' = at + 1
      /\ UNCHANGED <<ctx, mine, step, cached>>
  BY TargetsNumbered DEF Wrap, BalanceInv, TypeOK
<1>3. Late(i)' = Late(i)
  BY <1>1 DEF Late
<1>4. CASE i # at
  <2>1. RegisteredOf(i)' = RegisteredOf(i) /\ StateOf(i)' = StateOf(i)
    BY <1>1, <1>4 DEF RegisteredOf, StateOf, Refused
  <2>2. HoldingOf(i)' = HoldingOf(i)
    BY <1>1, <2>1 DEF HoldingOf
  <2>3. QED BY <1>3, <2>1, <2>2, NothingOrTimeOver
<1>5. CASE i = at
  <2>1. RegisteredOf(i)' = RegisteredOf(i)
    <3>1. step - 1 = IF mine[i] = "nil" THEN 1 ELSE 2
      BY <1>1, <1>5, TwoCollectors DEF Wrap, Registers, BalanceInv, TypeOK, ReportInv, OrderInv
    <3>2. RegisteredOf(i) = IF mine[i] = "nil" THEN {"general"} ELSE {"general", "data"}
      <4>1. RegisteredOf(i) = {Collectors[k] : k \in 1..(step - 1)}
        BY <1>1, <1>5 DEF RegisteredOf
      <4>2. QED BY <3>1, <4>1, RegisteredSoFar
    <3>3. RegisteredOf(i)' = IF mine[i] = "nil" THEN {"general"} ELSE {"general", "data"}
      <4>1. RegisteredOf(i)' = {Collectors[k] : k \in IF mine[i] = "nil" THEN {1}
                                                     ELSE DOMAIN Collectors}
        BY <1>1, <1>5 DEF RegisteredOf
      <4>2. QED BY <4>1, RegisteredSoFar
    <3>4. QED BY <3>2, <3>3
  <2>2. HoldingOf(i)' = HoldingOf(i)
    BY <1>1, <2>1 DEF HoldingOf
  <2>3. StateOf(i) = "open" /\ StateOf(i)' = "served"
    BY <1>1, <1>5 DEF StateOf, Refused
  <2>4. Registry(i)!Complete
    BY <1>3, <2>1, <2>2, <2>3 DEF Registry!Complete
  <2>5. QED BY <2>4 DEF Registry!RegistryStep, Registry!RegistryNext
<1>6. QED BY <1>4, <1>5

\* The end of the request and the environment, who at most take time away.
LEMMA EndRegisters ==
    ASSUME BalanceInv, NEW i \in Targets,
           \/ Leave \/ (\E j \in Targets : Expire(j))
           \/ Merge \/ Served \/ RunDeferred \/ End \/ Ended
    PROVE  Registry(i)!RegistryStep
<1>1. /\ UNCHANGED <<at, mine, step, cached>>
      /\ ctx[i] # "live" => ctx'[i] # "live"
  <2>1. CASE Leave \/ (\E j \in Targets : Expire(j)) \/ RunDeferred
    BY <2>1 DEF Leave, Expire, RunDeferred, BalanceInv, TypeOK
  <2>2. CASE Merge \/ Served \/ End \/ Ended
    BY <2>2 DEF Merge, Served, End, Ended, vars
  <2>3. QED BY <2>1, <2>2
<1>2. \/ pc' = pc
      \/ at \notin Targets
      \/ pc = "unwind" /\ pc' = "ended"
  BY DEF Leave, Expire, RunDeferred, Merge, Served, End, Ended, vars
<1>3. CASE pc' = pc \/ at \notin Targets
  BY <1>1, <1>2, <1>3, LoopStandsRegisters DEF BalanceInv
<1>4. CASE pc = "unwind" /\ pc' = "ended"
  <2>1. RegisteredOf(i)' = RegisteredOf(i) /\ StateOf(i)' = StateOf(i)
    BY <1>1, <1>4 DEF RegisteredOf, StateOf, Refused
  <2>2. HoldingOf(i)' = HoldingOf(i) /\ (Late(i) => Late(i)')
    BY <1>1, <2>1 DEF HoldingOf, Late
  <2>3. QED BY <2>1, <2>2, NothingOrTimeOver
<1>5. QED BY <1>2, <1>3, <1>4

\* For any list of targets, the registry of each is filled as Registration promises, though
\* the handler goes through the targets one after another and one may run out of time, get
\* no client or be refused: what another target's registry holds stays as it is.
THEOREM ImplementsRegistrationCorrect == Spec => ImplementsRegistration
<1>1. Init => \A i \in Targets : Registry(i)!RegistryInit
  <2> SUFFICES ASSUME Init, NEW i \in Targets PROVE Registry(i)!RegistryInit
    OBVIOUS
  <2>1. at = 1 /\ pc = "next" /\ mine[i] = "nil" /\ i \in Int /\ ~(i < at)
    BY TargetsNumbered DEF Init
  <2>2. RegisteredOf(i) = {} /\ StateOf(i) = "open" /\ Late(i) = FALSE
    BY <2>1 DEF RegisteredOf, StateOf, Refused, Late
  <2>3. HoldingOf(i) = {}
    BY <2>2 DEF HoldingOf
  <2>4. QED BY <2>2, <2>3 DEF Registry!RegistryInit
<1>2. BalanceInv /\ ReportInv /\ [Next]_vars => [\A i \in Targets : Registry(i)!RegistryStep]_vars
  <2> SUFFICES ASSUME BalanceInv, ReportInv, Next, NEW i \in Targets
               PROVE  Registry(i)!RegistryStep
    OBVIOUS
  <2>1. QED BY BeginRegisters, RegisterRegisters, RefuseRegisters, WrapRegisters, EndRegisters
            DEF Next, Handle
<1>3. QED BY <1>1, <1>2, BalanceCorrect, ReportCorrect, PTL DEF Spec, ImplementsRegistration
=============================================================================
