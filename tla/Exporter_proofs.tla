--------------------------- MODULE Exporter_proofs ---------------------------
(***************************************************************************)
(* Proofs about Exporter for any number of scrapes, any collectors, any    *)
(* options: types; how clients are shared, leased and given back, which    *)
(* implements ClientPool; and what a scrape serves.                        *)
(***************************************************************************)
EXTENDS Exporter, TLAPS

\* Between taking clientMu and returning from getClient, the shared mode.
HoldsMu(p) == pc[p] = "pingShared" \/ (GlobalConnPool /\ pc[p] \in {"connect", "ping"})

\* The steps of getClient.
GettingClient == {"lock", "pingShared", "connect", "ping"}

\* Who is where: the lock and who holds it.
LockInv ==
    /\ \A p \in Procs : HoldsMu(p) => clientMu = p
    /\ \A p \in Procs : pc[p] \in {"lock", "pingShared"} => GlobalConnPool
    /\ pc[Boot] \in GettingClient \cup {"done"}

\* The shared client is open, and is built at most once.
SharedInv ==
    /\ client # None => GlobalConnPool /\ client \in open
    /\ \A p \in Procs : pc[p] = "pingShared" => client # None
    /\ GlobalConnPool => \A p \in Procs : pc[p] \in {"connect", "ping"} => client = None

\* Every lease is of an open client, and every open client has its owner.
LeaseInv ==
    /\ \A r \in Scrapes : mine[r] # None =>
          /\ pc[r] \notin GettingClient \cup {"idle", "done"}
          /\ mine[r] = IF GlobalConnPool THEN client ELSE r
          /\ mine[r] \in open
    /\ \A p \in Procs : pc[p] = "ping" => p \in open
    /\ \A p \in open :
          \/ pc[p] = "ping"
          \/ p = client
          \/ ~GlobalConnPool /\ p \in Scrapes /\ mine[p] = p
          \/ ~GlobalConnPool /\ p = Boot

\* The clients and the lock.
PoolInv == LockInv /\ SharedInv /\ LeaseInv

-----------------------------------------------------------------------------
(***************************************************************************)
(* Types.                                                                  *)
(***************************************************************************)

\* A block of makeRegistry leads to a label, with flags to go through.
LEMMA NextBlockType ==
    ASSUME NEW r, NEW done
    PROVE  /\ NextBlock(r, done).label \in {"enable", "disable", "register"}
           /\ NextBlock(r, done).todo \subseteq Flags
<1>1. /\ CollectAllSets \subseteq Flags
      /\ ArbiterClears \subseteq Flags
      /\ Collectors \subseteq Flags
  BY DEF CollectAllSets, ArbiterClears, Discovery, Flags
<1>2. QED BY <1>1 DEF NextBlock

\* getClient leaves the lock, the lease and the label well typed.
LEMMA ReturnClientType ==
    ASSUME TypeOK, NEW p \in Procs, NEW c \in Procs \cup {None}, ReturnClient(p, c)
    PROVE  /\ mine' \in [Procs -> Procs \cup {None}]
           /\ clientMu' \in Procs \cup {None}
           /\ pc' \in [Procs -> Labels]
<1>1. AfterGetClient(p, c) \in Labels
  BY DEF AfterGetClient, Labels
<1>2. QED BY <1>1 DEF ReturnClient, Goto, TypeOK, Unlocked

\* The fields of a request may be replaced one by one.
LEMMA RequestFields ==
    ASSUME NEW q \in Request
    PROVE  /\ \A n \in CollectionCounts \cup {0} : [q EXCEPT !.listed = n] \in Request
           /\ \A t \in NodeTypes \cup {"unknown"} : [q EXCEPT !.node = t] \in Request
           /\ \A b \in BOOLEAN : [q EXCEPT !.expired = b] \in Request
           /\ \A F \in SUBSET Flags : [q EXCEPT !.todo = F] \in Request
           /\ \A b \in BOOLEAN, F \in SUBSET Flags :
                 [q EXCEPT !.limitsOk = b, !.todo = F] \in Request
<1>1. \A n \in CollectionCounts \cup {0} : [q EXCEPT !.listed = n] \in Request
  BY DEF Request
<1>2. \A t \in NodeTypes \cup {"unknown"} : [q EXCEPT !.node = t] \in Request
  BY DEF Request
<1>3. \A b \in BOOLEAN : [q EXCEPT !.expired = b] \in Request
  BY DEF Request
<1>4. \A F \in SUBSET Flags : [q EXCEPT !.todo = F] \in Request
  BY DEF Request
<1>5. \A b \in BOOLEAN, F \in SUBSET Flags : [q EXCEPT !.limitsOk = b, !.todo = F] \in Request
  BY DEF Request
<1>6. QED BY <1>1, <1>2, <1>3, <1>4, <1>5

\* The registry records a collector, or the general one.
LEMMA WithCollectorType ==
    ASSUME NEW r, NEW q \in Request, NEW c \in Collectors \cup {"general"}
    PROVE  WithCollector(q, r, c) \in Request
BY DEF WithCollector, Request

\* New builds an Exporter whose fields have their types.
LEMMA InitType == Init => TypeOK
<1> SUFFICES ASSUME Init PROVE TypeOK
  OBVIOUS
<1>1. opts \subseteq Flags
  BY OptionsAssumption DEF Init, Flags
<1>2. pc \in [Procs -> Labels]
  BY DEF Init, Labels, FirstStep
<1>3. req \in [Scrapes -> Request]
  BY DEF Init, Request, NoRequest
<1>4. QED BY <1>1, <1>2, <1>3 DEF Init, TypeOK, Procs

\* Taking clientMu, pinging, connecting and returning from getClient keep the types.
LEMMA GetClientType ==
    ASSUME TypeOK, NEW p \in Procs, LockClient(p) \/ GetClientStep(p)
    PROVE  TypeOK'
<1>1. CASE LockClient(p)
  BY <1>1 DEF LockClient, CanLock, TypeOK, Goto, Labels
<1>2. CASE PingShared(p)
  <2>1. \E c \in Procs \cup {None} : ReturnClient(p, c)
    BY <1>2 DEF PingShared, TypeOK
  <2>2. QED BY <1>2, <2>1, ReturnClientType DEF PingShared, TypeOK
<1>3. CASE Connect(p)
  <2>1. CASE ReturnClient(p, None) /\ UNCHANGED open
    BY <1>3, <2>1, ReturnClientType DEF Connect, TypeOK
  <2>2. CASE open' = open \cup {p} /\ Goto(p, "ping") /\ UNCHANGED <<mine, clientMu>>
    BY <1>3, <2>2 DEF Connect, TypeOK, Goto, Labels
  <2>3. QED BY <1>3, <2>1, <2>2 DEF Connect
<1>4. CASE PingNew(p)
  <2>1. \E c \in Procs \cup {None} : ReturnClient(p, c)
    BY <1>4 DEF PingNew
  <2>2. client' \in Procs \cup {None} /\ open' \subseteq Procs
    BY <1>4 DEF PingNew, TypeOK, SharedAfterConnect, OpenAfterFailedPing
  <2>3. QED BY <1>4, <2>1, <2>2, ReturnClientType DEF PingNew, TypeOK
<1>5. QED BY <1>1, <1>2, <1>3, <1>4 DEF GetClientStep

\* What a request asks for: its filters, or the collectors whose flags it finds set.
LEMMA StartScrapeRequest ==
    ASSUME NEW r \in Scrapes, StartScrape(r)
    PROVE  \E e \in Endpoints, b \in BOOLEAN, a \in SUBSET Collectors :
               /\ req' = [req EXCEPT ![r] = [NoRequest EXCEPT !.endpoint = e, !.filtered = b,
                                                             !.asked = a]]
               /\ ~b => a = opts \cap Collectors
<1>1. PICK e \in Endpoints :
         \/ req' = [req EXCEPT ![r] = [NoRequest EXCEPT !.endpoint = e, !.filtered = FALSE,
                                                       !.asked = opts \cap Collectors]]
         \/ \E filters \in Filters :
                req' = [req EXCEPT ![r] = [NoRequest EXCEPT !.endpoint = e, !.filtered = TRUE,
                                                           !.asked = filters]]
  BY DEF StartScrape
<1>2. opts \cap Collectors \in SUBSET Collectors /\ Filters \subseteq SUBSET Collectors
  BY OptionsAssumption
<1>3. QED BY <1>1, <1>2

\* What a scrape does after getClient keeps the types.
LEMMA ScrapeType ==
    ASSUME TypeOK, NEW r \in Scrapes, StartScrape(r) \/ ScrapeStep(r)
    PROVE  TypeOK'
<1> USE DEF TypeOK, Goto
<1>a. r \in Procs
  BY DEF Procs
<1>1. CASE StartScrape(r)
  <2>1. PICK e \in Endpoints, b \in BOOLEAN, a \in SUBSET Collectors :
           req' = [req EXCEPT ![r] = [NoRequest EXCEPT !.endpoint = e, !.filtered = b,
                                                      !.asked = a]]
    <3>1. \E e \in Endpoints, b \in BOOLEAN, a \in SUBSET Collectors :
             /\ req' = [req EXCEPT ![r] = [NoRequest EXCEPT !.endpoint = e, !.filtered = b,
                                                           !.asked = a]]
             /\ ~b => a = opts \cap Collectors
      BY <1>1, StartScrapeRequest
    <3>2. QED BY <3>1
  <2>3. [NoRequest EXCEPT !.endpoint = e, !.filtered = b, !.asked = a] \in Request
    BY DEF Request, NoRequest
  <2>4. req' \in [Scrapes -> Request]
    BY <2>1, <2>3
  <2>5. FirstStep \in Labels
    BY DEF FirstStep, Labels
  <2>6. QED BY <1>1, <2>4, <2>5 DEF StartScrape
<1>2. CASE ReadCount(r)
  BY <1>2 DEF ReadCount, Labels
<1>3. CASE ListCollections(r)
  <2>1. req' = [req EXCEPT ![r] = [req[r] EXCEPT !.listed = colls]] \/ req' = req
    BY <1>3 DEF ListCollections
  <2>2. [req[r] EXCEPT !.listed = colls] \in Request
    BY RequestFields
  <2>3. QED BY <1>3, <1>a, <2>1, <2>2 DEF ListCollections, Labels
<1>4. CASE StoreCount(r)
  <2>1. req' = [req EXCEPT ![r] = [req[r] EXCEPT !.listed = 0]]
    BY <1>4 DEF StoreCount
  <2>2. [req[r] EXCEPT !.listed = 0] \in Request
    BY RequestFields
  <2>3. req' \in [Scrapes -> Request]
    BY <2>1, <2>2
  <2>4. total' \in CollectionCounts \cup {0, -1}
    BY <1>4 DEF StoreCount, CountToStore, Request
  <2>5. QED BY <1>4, <1>a, <2>3, <2>4 DEF StoreCount, Labels
<1>5. CASE GetNodeType(r)
  <2>1. PICK answer \in NodeTypes \cup {"unknown"} : req' = [req EXCEPT ![r].node = answer]
    BY <1>5 DEF GetNodeType
  <2>2. req' = [req EXCEPT ![r] = [req[r] EXCEPT !.node = answer]]
    BY <2>1
  <2>3. req' \in [Scrapes -> Request]
    BY <2>2, RequestFields
  <2>4. QED BY <1>5, <2>3 DEF GetNodeType, Labels
<1>6. CASE RegisterGeneral(r)
  <2>1. req' \in [Scrapes -> Request]
    BY <1>6, WithCollectorType DEF RegisterGeneral
  <2>2. QED BY <1>6, <2>1 DEF RegisterGeneral, Labels
<1>7. CASE CheckLimits(r)
  <2>1. LimitsOk \in BOOLEAN
    BY DEF LimitsOk
  <2>2. req' \in [Scrapes -> Request]
    <3>1. req' = [req EXCEPT ![r] = [req[r] EXCEPT !.limitsOk = LimitsOk,
                                                   !.todo = NextBlock(r, "limits").todo]]
      BY <1>7 DEF CheckLimits
    <3>2. QED BY <2>1, <3>1, NextBlockType, RequestFields
  <2>3. pc' \in [Procs -> Labels]
    BY <1>7, NextBlockType DEF CheckLimits, Labels
  <2>4. QED BY <1>7, <2>2, <2>3 DEF CheckLimits
<1>8. CASE AssignOpts(r)
  <2>1. PICK f \in req[r].todo :
           /\ opts' = IF pc[r] = "enable" THEN opts \cup {f} ELSE opts \ {f}
           /\ req' = [req EXCEPT ![r].todo = @ \ {f}]
    BY <1>8 DEF AssignOpts
  <2>2. f \in Flags /\ req[r].todo \ {f} \subseteq Flags
    BY DEF Request
  <2>3. req' \in [Scrapes -> Request]
    <3>1. req' = [req EXCEPT ![r] = [req[r] EXCEPT !.todo = req[r].todo \ {f}]]
      BY <2>1
    <3>2. QED BY <2>2, <3>1, RequestFields
  <2>4. QED BY <1>8, <2>1, <2>2, <2>3 DEF AssignOpts
<1>9. CASE EndBlock(r)
  <2>1. req' \in [Scrapes -> Request]
    <3>1. req' = [req EXCEPT ![r] = [req[r] EXCEPT !.todo = NextBlock(r, pc[r]).todo]]
      BY <1>9 DEF EndBlock
    <3>2. QED BY <3>1, NextBlockType, RequestFields
  <2>2. pc' \in [Procs -> Labels]
    BY <1>9, NextBlockType DEF EndBlock, Labels
  <2>3. QED BY <1>9, <2>1, <2>2 DEF EndBlock
<1>10. CASE Register(r)
  <2>1. PICK c \in Collectors :
           \/ req' = [req EXCEPT ![r].todo = @ \ {c}] /\ UNCHANGED pc
           \/ req' = [req EXCEPT ![r] = WithCollector(@, r, c)] /\ UNCHANGED pc
           \/ Goto(r, "panic") /\ UNCHANGED req
    BY <1>10 DEF Register
  <2>2. req' \in [Scrapes -> Request]
    <3>1. \/ req' = [req EXCEPT ![r] = [req[r] EXCEPT !.todo = req[r].todo \ {c}]]
          \/ req' = [req EXCEPT ![r] = WithCollector(req[r], r, c)]
          \/ req' = req
      BY <2>1
    <3>2. req[r].todo \ {c} \in SUBSET Flags
      BY DEF Request
    <3>3. [req[r] EXCEPT !.todo = req[r].todo \ {c}] \in Request
      BY <3>2, RequestFields
    <3>4. WithCollector(req[r], r, c) \in Request
      BY WithCollectorType
    <3>5. QED BY <3>1, <3>3, <3>4
  <2>3. pc' \in [Procs -> Labels]
    BY <2>1 DEF Labels
  <2>4. QED BY <1>10, <2>2, <2>3 DEF Register
<1>11. CASE RegistryDone(r)
  BY <1>11 DEF RegistryDone, Labels
<1>12. CASE Finish(r)
  <2>1. NoRequest \in Request
    BY DEF NoRequest, Request
  <2>2. QED BY <1>12, <1>a, <2>1 DEF Finish, OpenAfterClose, Labels
<1>13. QED BY <1>1, <1>2, <1>3, <1>4, <1>5, <1>6, <1>7, <1>8, <1>9, <1>10, <1>11, <1>12
           DEF ScrapeStep

\* Deadlines and changes of the server keep the types.
LEMMA EnvironmentType == ASSUME TypeOK, Environment PROVE TypeOK'
<1>1. CASE \E r \in Scrapes : Expire(r)
  <2>1. PICK r \in Scrapes : Expire(r)
    BY <1>1
  <2>2. req' = [req EXCEPT ![r] = [req[r] EXCEPT !.expired = TRUE]]
    BY <2>1 DEF Expire
  <2>3. req' \in [Scrapes -> Request]
    BY <2>2, RequestFields DEF TypeOK
  <2>4. QED BY <2>1, <2>3 DEF Expire, TypeOK
<1>2. CASE ChangeRole
  BY <1>2 DEF ChangeRole, TypeOK
<1>3. CASE ChangeCollections
  BY <1>3 DEF ChangeCollections, TypeOK
<1>4. QED BY <1>1, <1>2, <1>3 DEF Environment

\* Every variable keeps its type, for any number of scrapes and any options.
THEOREM TypeCorrect == Spec => []TypeOK
<1>1. TypeOK /\ [Next]_vars => TypeOK'
  <2> SUFFICES ASSUME TypeOK, [Next]_vars PROVE TypeOK'
    OBVIOUS
  <2>1. CASE UNCHANGED vars
    BY <2>1 DEF vars, TypeOK
  <2>2. CASE Next
    BY <2>2, GetClientType, ScrapeType, EnvironmentType DEF Next
  <2>3. QED BY <2>1, <2>2
<1>2. QED BY InitType, <1>1, PTL DEF Spec

-----------------------------------------------------------------------------
(***************************************************************************)
(* Clients.                                                                *)
(***************************************************************************)

\* Where a scrape is while it makes the registry and answers.
Serving == {"readCount", "list", "storeCount", "nodeType", "general", "limits", "enable",
            "disable", "register", "serve", "panic"}

\* A new Exporter has no client, no lease and a free lock.
LEMMA InitPool == Init => PoolInv
<1> SUFFICES ASSUME Init PROVE PoolInv
  OBVIOUS
<1> USE DEF Init, FirstStep
<1>1. LockInv
  BY DEF LockInv, HoldsMu, GettingClient, Procs
<1>2. SharedInv
  BY DEF SharedInv, Procs
<1>3. LeaseInv
  BY DEF LeaseInv, Procs
<1>4. QED BY <1>1, <1>2, <1>3 DEF PoolInv

\* A step of a scrape that touches no client, inside or into the serving part.
LEMMA QuietStep ==
    ASSUME TypeOK, PoolInv, NEW r \in Scrapes,
           UNCHANGED <<client, clientMu, open, mine>>,
           \/ pc' = pc
           \/ pc[r] \in Serving /\ \E l \in Serving : Goto(r, l)
    PROVE  PoolInv'
<1> USE DEF Serving, Goto
<1>a. r \in Procs /\ r # Boot
  BY ProcsAssumption DEF Procs
<1>1. \A p \in Procs : p # r => pc'[p] = pc[p]
  BY <1>a DEF TypeOK
<1>2. pc'[r] = pc[r] \/ (pc[r] \in Serving /\ pc'[r] \in Serving)
  BY <1>a DEF TypeOK
<1>3. LockInv'
  BY <1>a, <1>1, <1>2 DEF PoolInv, LockInv, HoldsMu, GettingClient, Procs
<1>4. SharedInv'
  BY <1>1, <1>2 DEF PoolInv, SharedInv
<1>5. LeaseInv'
  BY <1>1, <1>2 DEF PoolInv, LeaseInv, GettingClient, TypeOK, Procs
<1>6. QED BY <1>3, <1>4, <1>5 DEF PoolInv

\* A request that arrives takes no client yet.
LEMMA StartScrapePool ==
    ASSUME TypeOK, PoolInv, NEW r \in Scrapes, StartScrape(r)
    PROVE  PoolInv'
<1>a. r \in Procs /\ r # Boot
  BY ProcsAssumption DEF Procs
<1>1. /\ \A p \in Procs : p # r => pc'[p] = pc[p]
      /\ pc[r] = "idle" /\ pc'[r] = IF GlobalConnPool THEN "lock" ELSE "connect"
      /\ UNCHANGED <<client, clientMu, open, mine>>
  BY <1>a DEF TypeOK, StartScrape, Goto, FirstStep
<1>2. mine[r] = None
  BY <1>1 DEF PoolInv, LeaseInv
<1>3. LockInv'
  BY <1>a, <1>1 DEF PoolInv, LockInv, HoldsMu, GettingClient, Procs
<1>4. SharedInv'
  BY <1>1 DEF PoolInv, SharedInv
<1>5. LeaseInv'
  BY <1>1, <1>2 DEF PoolInv, LeaseInv, GettingClient, TypeOK, Procs
<1>6. QED BY <1>3, <1>4, <1>5 DEF PoolInv

\* A scrape that ends closes its own client, and no one else uses that one.
LEMMA FinishPool ==
    ASSUME TypeOK, PoolInv, NEW r \in Scrapes, Finish(r)
    PROVE  PoolInv'
<1> USE DEF Finish, Goto, OpenAfterClose
<1>a. r \in Procs /\ r # Boot
  BY ProcsAssumption DEF Procs
<1>1. /\ \A p \in Procs : p # r => pc'[p] = pc[p] /\ mine'[p] = mine[p]
      /\ pc'[r] = "idle" /\ mine'[r] = None
  BY <1>a DEF TypeOK
<1>2. /\ open' \subseteq open
      /\ \A p \in open : p # r => p \in open'
      /\ GlobalConnPool => open' = open
      /\ ~GlobalConnPool /\ mine[r] = r => r \notin open'
  BY ProcsAssumption DEF PoolInv, LeaseInv, TypeOK
<1>3. LockInv'
  BY <1>a, <1>1 DEF PoolInv, LockInv, HoldsMu, GettingClient, Procs
<1>4. SharedInv'
  BY <1>1, <1>2 DEF PoolInv, SharedInv
<1>5. LeaseInv'
  <2>1. \A s \in Scrapes : mine'[s] # None =>
           /\ pc'[s] \notin GettingClient \cup {"idle", "done"}
           /\ mine'[s] = IF GlobalConnPool THEN client' ELSE s
           /\ mine'[s] \in open'
    BY <1>1, <1>2 DEF PoolInv, LeaseInv, Procs
  <2>2. \A p \in Procs : pc'[p] = "ping" => p \in open'
    BY <1>1, <1>2 DEF PoolInv, LeaseInv
  <2>3. \A p \in open' :
          \/ pc'[p] = "ping"
          \/ p = client'
          \/ ~GlobalConnPool /\ p \in Scrapes /\ mine'[p] = p
          \/ ~GlobalConnPool /\ p = Boot
    <3> SUFFICES ASSUME NEW p \in open'
                 PROVE  \/ pc'[p] = "ping"
                        \/ p = client'
                        \/ ~GlobalConnPool /\ p \in Scrapes /\ mine'[p] = p
                        \/ ~GlobalConnPool /\ p = Boot
      OBVIOUS
    <3>1. p \in open /\ p \in Procs
      BY <1>2 DEF TypeOK
    <3>2. CASE p # r
      BY <1>1, <3>1, <3>2 DEF PoolInv, LeaseInv
    <3>3. CASE p = r
      <4>1. pc[r] # "ping"
        OBVIOUS
      <4>2. p = client \/ (~GlobalConnPool /\ mine[r] = r)
        BY <1>a, <3>1, <3>3, <4>1 DEF PoolInv, LeaseInv
      <4>3. p # r \/ GlobalConnPool
        BY <1>2, <3>1, <3>3, <4>2, ProcsAssumption DEF PoolInv, SharedInv
      <4>4. QED BY <3>3, <4>2, <4>3
    <3>4. QED BY <3>2, <3>3
  <2>4. QED BY <2>1, <2>2, <2>3 DEF LeaseInv
<1>6. QED BY <1>3, <1>4, <1>5 DEF PoolInv


\* Whoever takes clientMu is its only holder.
LEMMA LockPool ==
    ASSUME TypeOK, PoolInv, NEW p \in Procs, LockClient(p)
    PROVE  PoolInv'
<1> USE DEF LockClient, CanLock, Goto
<1>1. /\ \A q \in Procs : q # p => pc'[q] = pc[q]
      /\ pc'[p] = IF client = None THEN "connect" ELSE "pingShared"
      /\ clientMu' = p
  BY DEF TypeOK
<1>2. GlobalConnPool
  BY DEF PoolInv, LockInv
<1>3. \A q \in Procs : ~HoldsMu(q)
  BY ProcsAssumption DEF PoolInv, LockInv
<1>4. LockInv'
  BY <1>1, <1>2, <1>3 DEF PoolInv, LockInv, HoldsMu, GettingClient, Procs
<1>5. SharedInv'
  BY <1>1, <1>2, <1>3 DEF PoolInv, SharedInv, HoldsMu
<1>6. LeaseInv'
  BY <1>1 DEF PoolInv, LeaseInv, GettingClient, TypeOK, Procs
<1>7. QED BY <1>4, <1>5, <1>6 DEF PoolInv

\* What ReturnClient does to the process that returns, and to the others.
LEMMA Returned ==
    ASSUME TypeOK, PoolInv, NEW p \in Procs, NEW c \in Procs \cup {None},
           pc[p] \in {"pingShared", "connect", "ping"}, ReturnClient(p, c)
    PROVE  /\ \A q \in Procs : q # p => pc'[q] = pc[q] /\ mine'[q] = mine[q]
           /\ p = Boot => pc'[p] = "done"
           /\ p \in Scrapes => pc'[p] \in Serving /\ mine'[p] = c
           /\ \A q \in Procs : q # p /\ HoldsMu(q) => clientMu' = q
<1> USE DEF ReturnClient, Goto, TypeOK
<1>1. \A q \in Procs : q # p => pc'[q] = pc[q] /\ mine'[q] = mine[q]
  OBVIOUS
<1>2. p = Boot => pc'[p] = "done"
  BY DEF AfterGetClient
<1>3. p \in Scrapes => pc'[p] \in Serving /\ mine'[p] = c
  BY ProcsAssumption DEF AfterGetClient, Serving
<1>4. \A q \in Procs : q # p /\ HoldsMu(q) => clientMu' = q
  BY DEF Unlocked, PoolInv, LockInv
<1>5. QED BY <1>1, <1>2, <1>3, <1>4

\* Returning from getClient with a client the lease invariant allows, or with none.
LEMMA ReturnPool ==
    ASSUME TypeOK, PoolInv, NEW p \in Procs, NEW c \in Procs \cup {None},
           pc[p] \in {"pingShared", "connect", "ping"}, ReturnClient(p, c),
           open' \subseteq open,
           \A q \in open : q # p => q \in open',
           client' = client \/ (GlobalConnPool /\ pc[p] = "ping" /\ client' = p),
           c # None => c \in open' /\ c = IF GlobalConnPool THEN client' ELSE p,
           p \in open' => p = client' \/ (~GlobalConnPool /\ (p = Boot \/ c = p)),
           client' # None => client' \in open'
    PROVE  PoolInv'
<1>1. /\ \A q \in Procs : q # p => pc'[q] = pc[q] /\ mine'[q] = mine[q]
      /\ p = Boot => pc'[p] = "done"
      /\ p \in Scrapes => pc'[p] \in Serving /\ mine'[p] = c
      /\ \A q \in Procs : q # p /\ HoldsMu(q) => clientMu' = q
  BY Returned
<1>2. pc'[p] \in Serving \cup {"done"}
  BY <1>1 DEF Procs
<1>3. LockInv'
  <2>1. \A q \in Procs : HoldsMu(q)' => clientMu' = q
    BY <1>1, <1>2 DEF HoldsMu, Serving
  <2>2. \A q \in Procs : pc'[q] \in {"lock", "pingShared"} => GlobalConnPool
    BY <1>1, <1>2 DEF PoolInv, LockInv, Serving
  <2>3. pc'[Boot] \in GettingClient \cup {"done"}
    BY <1>1 DEF PoolInv, LockInv, Procs
  <2>4. QED BY <2>1, <2>2, <2>3 DEF LockInv
<1>4. SharedInv'
  <2>1. client' # None => GlobalConnPool /\ client' \in open'
    BY DEF PoolInv, SharedInv
  <2>2. \A q \in Procs : pc'[q] = "pingShared" => client' # None
    BY <1>1, <1>2, ProcsAssumption DEF PoolInv, SharedInv, Serving
  <2>3. ASSUME GlobalConnPool, NEW q \in Procs, pc'[q] \in {"connect", "ping"}
        PROVE  client' = None
    <3>1. q # p /\ pc[q] \in {"connect", "ping"}
      BY <1>1, <1>2, <2>3 DEF Serving
    <3>2. pc[p] # "ping"
      BY <2>3, <3>1 DEF PoolInv, LockInv, HoldsMu
    <3>3. QED BY <2>3, <3>1, <3>2 DEF PoolInv, SharedInv
  <2>4. QED BY <2>1, <2>2, <2>3 DEF SharedInv
<1>5. LeaseInv'
  <2>1. ASSUME NEW s \in Scrapes, mine'[s] # None
        PROVE  /\ pc'[s] \notin GettingClient \cup {"idle", "done"}
               /\ mine'[s] = IF GlobalConnPool THEN client' ELSE s
               /\ mine'[s] \in open'
    <3>1. CASE s = p
      BY <1>1, <2>1, <3>1 DEF Serving, GettingClient
    <3>2. CASE s # p
      <4>1. /\ mine'[s] = mine[s]
            /\ pc'[s] = pc[s]
            /\ pc[s] \notin GettingClient \cup {"idle", "done"}
            /\ mine[s] = IF GlobalConnPool THEN client ELSE s
            /\ mine[s] \in open
        BY <1>1, <2>1, <3>2 DEF PoolInv, LeaseInv, Procs
      <4>2. client' = client
        BY <2>1, <4>1 DEF PoolInv, SharedInv
      <4>3. mine[s] \in open'
        BY <2>1, <3>2, <4>1, <4>2
      <4>4. QED BY <4>1, <4>2, <4>3
    <3>3. QED BY <3>1, <3>2
  <2>2. \A q \in Procs : pc'[q] = "ping" => q \in open'
    BY <1>1, <1>2 DEF PoolInv, LeaseInv, Serving
  <2>3. ASSUME NEW q \in open'
        PROVE  \/ pc'[q] = "ping"
               \/ q = client'
               \/ ~GlobalConnPool /\ q \in Scrapes /\ mine'[q] = q
               \/ ~GlobalConnPool /\ q = Boot
    <3>1. q \in open /\ q \in Procs
      BY DEF TypeOK
    <3>2. CASE q = p
      BY <1>1, <2>3, <3>1, <3>2 DEF Procs
    <3>3. CASE q # p
      <4>1. q = client => client' = client
        BY <3>1, ProcsAssumption DEF PoolInv, SharedInv
      <4>2. QED BY <1>1, <3>1, <3>3, <4>1 DEF PoolInv, LeaseInv
    <3>4. QED BY <3>2, <3>3
  <2>4. QED BY <2>1, <2>2, <2>3 DEF LeaseInv
<1>6. QED BY <1>3, <1>4, <1>5 DEF PoolInv

\* Pinging the shared client hands it out or gives up, and frees the lock.
LEMMA PingSharedPool ==
    ASSUME TypeOK, PoolInv, NEW p \in Procs, PingShared(p)
    PROVE  PoolInv'
<1> USE DEF PingShared
<1>1. PICK c \in {client, None} : ReturnClient(p, c)
  OBVIOUS
<1>2. GlobalConnPool /\ client # None /\ client \in open
  BY DEF PoolInv, LockInv, SharedInv
<1>3. p \in open => p = client
  BY <1>2 DEF PoolInv, LeaseInv
<1>4. c \in Procs \cup {None}
  BY DEF TypeOK
<1>5. QED BY <1>1, <1>2, <1>3, <1>4, ReturnPool

\* A connect that begins while the lock is held is the only one for the shared client.
LEMMA ConnectPool ==
    ASSUME TypeOK, PoolInv, NEW p \in Procs, Connect(p)
    PROVE  PoolInv'
<1> USE DEF Connect
<1>1. CASE ReturnClient(p, None) /\ UNCHANGED open
  <2>1. p \in open => p = client \/ (~GlobalConnPool /\ p = Boot)
    BY ProcsAssumption DEF PoolInv, LeaseInv, GettingClient, Procs
  <2>2. client # None => client \in open
    BY DEF PoolInv, SharedInv
  <2>3. QED BY <1>1, <2>1, <2>2, ReturnPool
<1>2. CASE open' = open \cup {p} /\ Goto(p, "ping") /\ UNCHANGED <<mine, clientMu>>
  <2>1. /\ \A q \in Procs : q # p => pc'[q] = pc[q]
        /\ pc'[p] = "ping"
    BY <1>2 DEF Goto, TypeOK
  <2>2. p \in Scrapes => mine[p] = None
    BY DEF PoolInv, LeaseInv, GettingClient
  <2>3. LockInv'
    BY <1>2, <2>1 DEF PoolInv, LockInv, HoldsMu, GettingClient, Procs
  <2>4. SharedInv'
    BY <1>2, <2>1 DEF PoolInv, SharedInv
  <2>5. LeaseInv'
    BY <1>2, <2>1, <2>2 DEF PoolInv, LeaseInv, GettingClient, TypeOK, Procs
  <2>6. QED BY <2>3, <2>4, <2>5 DEF PoolInv
<1>3. QED BY <1>1, <1>2

\* A new client becomes the shared one or its scrape's own, or is disconnected.
LEMMA PingNewPool ==
    ASSUME TypeOK, PoolInv, NEW p \in Procs, PingNew(p)
    PROVE  PoolInv'
<1> USE DEF PingNew
<1>1. p \in open /\ p # None
  BY ProcsAssumption DEF PoolInv, LeaseInv
<1>2. /\ client # None => ~GlobalConnPool \/ client = p
      /\ client # None => client \in open /\ GlobalConnPool
  BY DEF PoolInv, SharedInv
<1>3. CASE client' = SharedAfterConnect(p) /\ ReturnClient(p, p) /\ UNCHANGED open
  <2>1. client' = IF GlobalConnPool THEN p ELSE client
    BY <1>3 DEF SharedAfterConnect
  <2>2. QED BY <1>1, <1>2, <1>3, <2>1, ReturnPool
<1>4. CASE open' = OpenAfterFailedPing(p) /\ ReturnClient(p, None) /\ UNCHANGED client
  <2>1. open' = open \ {p}
    BY <1>4 DEF OpenAfterFailedPing
  <2>2. client = None
    BY <1>2 DEF PoolInv, SharedInv
  <2>3. QED BY <1>4, <2>1, <2>2, ReturnPool
<1>5. QED BY <1>3, <1>4

\* The steps of a scrape between getClient and the end.
LEMMA ScrapePool ==
    ASSUME TypeOK, PoolInv, NEW r \in Scrapes, ScrapeStep(r)
    PROVE  PoolInv'
<1> USE DEF Serving
<1>1. CASE Finish(r)
  BY <1>1, FinishPool
<1>2. CASE \/ ReadCount(r) \/ ListCollections(r) \/ StoreCount(r)
           \/ GetNodeType(r) \/ RegisterGeneral(r)
  BY <1>2, QuietStep DEF ReadCount, ListCollections, StoreCount, GetNodeType, RegisterGeneral
<1>3. CASE CheckLimits(r)
  BY <1>3, QuietStep, NextBlockType DEF CheckLimits
<1>4. CASE AssignOpts(r) \/ RegistryDone(r)
  BY <1>4, QuietStep DEF AssignOpts, RegistryDone
<1>5. CASE EndBlock(r)
  BY <1>5, QuietStep, NextBlockType DEF EndBlock
<1>6. CASE Register(r)
  BY <1>6, QuietStep DEF Register
<1>7. QED BY <1>1, <1>2, <1>3, <1>4, <1>5, <1>6 DEF ScrapeStep

\* Deadlines and changes of the server touch no client.
LEMMA EnvironmentPool == ASSUME TypeOK, PoolInv, Environment PROVE PoolInv'
<1>1. UNCHANGED <<client, clientMu, open, mine, pc>>
  BY DEF Environment, Expire, ChangeRole, ChangeCollections
<1>2. LockInv'
  BY <1>1 DEF PoolInv, LockInv, HoldsMu
<1>3. SharedInv'
  BY <1>1 DEF PoolInv, SharedInv
<1>4. LeaseInv'
  BY <1>1 DEF PoolInv, LeaseInv
<1>5. QED BY <1>2, <1>3, <1>4 DEF PoolInv

\* The inductive invariant of the clients holds in every reachable state.
THEOREM PoolCorrect == Spec => []PoolInv
<1>1. TypeOK /\ PoolInv /\ [Next]_vars => PoolInv'
  <2> SUFFICES ASSUME TypeOK, PoolInv, [Next]_vars PROVE PoolInv'
    OBVIOUS
  <2>1. CASE UNCHANGED vars
    <3>1. UNCHANGED <<client, clientMu, open, mine, pc>>
      BY <2>1 DEF vars
    <3>2. LockInv'
      BY <3>1 DEF PoolInv, LockInv, HoldsMu
    <3>3. SharedInv'
      BY <3>1 DEF PoolInv, SharedInv
    <3>4. LeaseInv'
      BY <3>1 DEF PoolInv, LeaseInv
    <3>5. QED BY <3>2, <3>3, <3>4 DEF PoolInv
  <2>2. CASE Next
    BY <2>2, LockPool, PingSharedPool, ConnectPool, PingNewPool, StartScrapePool, ScrapePool,
       EnvironmentPool DEF Next, GetClientStep
  <2>3. QED BY <2>1, <2>2
<1>2. QED BY InitPool, TypeCorrect, <1>1, PTL DEF Spec

\* With a global pool, the scrapes and New's goroutine never have two clients open.
THEOREM OneSharedPoolCorrect == Spec => []OneSharedPool
<1>1. TypeOK /\ PoolInv => OneSharedPool
  <2> SUFFICES ASSUME TypeOK, PoolInv, GlobalConnPool, NEW p \in open, NEW q \in open
               PROVE  p = q
    BY DEF OneSharedPool
  <2>1. p \in Procs /\ q \in Procs
    BY DEF TypeOK
  <2>2. /\ pc[p] = "ping" \/ p = client
        /\ pc[q] = "ping" \/ q = client
    BY DEF PoolInv, LeaseInv
  <2>3. \A u \in Procs : pc[u] = "ping" => clientMu = u /\ client = None
    BY DEF PoolInv, LockInv, SharedInv, HoldsMu
  <2>4. QED BY <2>1, <2>2, <2>3, ProcsAssumption
<1>2. QED BY TypeCorrect, PoolCorrect, <1>1, PTL

\* A scrape never works with a client that has been disconnected.
THEOREM LeasedIsOpenCorrect == Spec => []LeasedIsOpen
<1>1. PoolInv => LeasedIsOpen
  BY DEF PoolInv, LeaseInv, LeasedIsOpen
<1>2. QED BY PoolCorrect, <1>1, PTL

\* Every client that is open has an owner; none outlives the scrape it was opened for.
THEOREM PoolsAccountedCorrect == Spec => []PoolsAccounted
<1>1. TypeOK /\ PoolInv => PoolsAccounted
  <2> SUFFICES ASSUME TypeOK, PoolInv, NEW p \in open
               PROVE  \/ pc[p] = "ping"
                      \/ p = client
                      \/ p \in Scrapes /\ mine[p] = p /\ pc[p] \notin {"idle", "lock", "connect"}
                      \/ p = Boot /\ ~GlobalConnPool
    BY DEF PoolsAccounted
  <2>1. p # None
    BY ProcsAssumption DEF TypeOK
  <2>2. QED BY <2>1 DEF PoolInv, LeaseInv, GettingClient
<1>2. QED BY TypeCorrect, PoolCorrect, <1>1, PTL

-----------------------------------------------------------------------------
(***************************************************************************)
(* Exporter implements ClientPool.                                         *)
(***************************************************************************)

\* A step that changes no lease, not the shared client and no live client is a stutter.
LEMMA PoolStutter ==
    ASSUME client' = client, \A r \in Scrapes : mine'[r] = mine[r], LiveClients' = LiveClients
    PROVE  UNCHANGED Pool!poolVars
BY DEF Pool!poolVars

\* A process that returns from getClient without changing what is open, except for a
\* client that did not answer, changes no live client.
LEMMA ReturnLive ==
    ASSUME TypeOK, PoolInv, NEW p \in Procs, NEW c \in Procs \cup {None},
           pc[p] \in {"pingShared", "connect", "ping"}, ReturnClient(p, c),
           \/ open' = open /\ pc[p] # "ping"
           \/ open' = open \ {p} /\ pc[p] = "ping"
    PROVE  LiveClients' = LiveClients
<1>1. /\ \A q \in Procs : q # p => pc'[q] = pc[q]
      /\ pc'[p] # "ping"
  BY Returned DEF Serving, Procs
<1>2. QED BY <1>1 DEF LiveClients, TypeOK

\* getClient with a shared client is a Borrow, or nothing.
LEMMA PingSharedImplements ==
    ASSUME TypeOK, PoolInv, NEW p \in Procs, PingShared(p)
    PROVE  Pool!PoolNext \/ UNCHANGED Pool!poolVars
<1> USE DEF PingShared
<1>1. PICK c \in {client, None} : ReturnClient(p, c)
  OBVIOUS
<1>2. GlobalConnPool /\ client # None
  BY DEF PoolInv, LockInv, SharedInv
<1>3. c \in Procs \cup {None}
  BY DEF TypeOK
<1>4. LiveClients' = LiveClients
  BY <1>1, <1>3, ReturnLive
<1>5. \A q \in Procs : q # p => mine'[q] = mine[q]
  BY <1>1, <1>3, Returned
<1>6. CASE p \in Scrapes /\ c = client
  <2>1. mine[p] = None /\ mine'[p] = client
    BY <1>1, <1>3, <1>6, Returned DEF PoolInv, LeaseInv, GettingClient
  <2>2. mine' = [mine EXCEPT ![p] = client]
    BY <1>1, <1>6, ProcsAssumption DEF ReturnClient
  <2>3. [r \in Scrapes |-> mine'[r]] = [[r \in Scrapes |-> mine[r]] EXCEPT ![p] = client]
    BY <1>5, <1>6, <2>1 DEF Procs
  <2>4. Pool!Borrow(p)
    BY <1>2, <1>4, <1>6, <2>1, <2>3 DEF Pool!Borrow
  <2>5. QED BY <1>6, <2>4 DEF Pool!PoolNext
<1>7. CASE p \notin Scrapes \/ c = None
  <2>1. \A r \in Scrapes : mine'[r] = mine[r]
    BY <1>1, <1>3, <1>5, <1>7, Returned DEF PoolInv, LeaseInv, GettingClient, Procs
  <2>2. QED BY <1>4, <2>1, PoolStutter
<1>8. QED BY <1>6, <1>7

\* A client being built is not live yet.
LEMMA ConnectImplements ==
    ASSUME TypeOK, PoolInv, NEW p \in Procs, Connect(p)
    PROVE  UNCHANGED Pool!poolVars
<1> USE DEF Connect
<1>1. CASE ReturnClient(p, None) /\ UNCHANGED open
  <2>1. LiveClients' = LiveClients
    BY <1>1, ReturnLive
  <2>2. \A r \in Scrapes : mine'[r] = mine[r]
    BY <1>1, Returned DEF PoolInv, LeaseInv, GettingClient, Procs
  <2>3. QED BY <2>1, <2>2, PoolStutter
<1>2. CASE open' = open \cup {p} /\ Goto(p, "ping") /\ UNCHANGED <<mine, clientMu>>
  <2>1. /\ \A q \in Procs : q # p => pc'[q] = pc[q]
        /\ pc'[p] = "ping"
    BY <1>2 DEF Goto, TypeOK
  <2>2. p \in open => ~GlobalConnPool /\ p = Boot
    BY ProcsAssumption DEF PoolInv, LeaseInv, SharedInv, GettingClient, Procs
  <2>3. LiveClients' = LiveClients
    BY <1>2, <2>1, <2>2 DEF LiveClients, TypeOK
  <2>4. QED BY <1>2, <2>3, PoolStutter
<1>3. QED BY <1>1, <1>2

\* A client that answers its first ping is an Install or a TakeOwn.
LEMMA PingNewImplements ==
    ASSUME TypeOK, PoolInv, NEW p \in Procs, PingNew(p)
    PROVE  Pool!PoolNext \/ UNCHANGED Pool!poolVars
<1> USE DEF PingNew
<1>1. p \in open /\ p # None
  BY ProcsAssumption DEF PoolInv, LeaseInv
<1>2. p \in Scrapes => mine[p] = None
  BY DEF PoolInv, LeaseInv, GettingClient
<1>3. CASE client' = SharedAfterConnect(p) /\ ReturnClient(p, p) /\ UNCHANGED open
  <2>1. /\ \A q \in Procs : q # p => pc'[q] = pc[q] /\ mine'[q] = mine[q]
        /\ pc'[p] # "ping"
        /\ p \in Scrapes => mine'[p] = p
    BY <1>3, Returned DEF Serving, Procs
  <2>2. p \in Scrapes =>
          [r \in Scrapes |-> mine'[r]] = [[r \in Scrapes |-> mine[r]] EXCEPT ![p] = p]
    BY <2>1 DEF Procs
  <2>3. LiveClients' = IF p = Boot /\ ~GlobalConnPool THEN LiveClients ELSE LiveClients \cup {p}
    BY <1>1, <1>3, <2>1 DEF LiveClients, TypeOK
  <2>4. CASE GlobalConnPool
    <3>1. client = None /\ client' = p
      BY <1>3, <2>4 DEF PoolInv, SharedInv, SharedAfterConnect
    <3>2. CASE p \in Scrapes
      <4>1. Pool!Install(p)
        BY <1>2, <2>2, <2>3, <2>4, <3>1, <3>2 DEF Pool!Install
      <4>2. QED BY <3>2, <4>1 DEF Pool!PoolNext
    <3>3. CASE p = Boot
      <4>1. [r \in Scrapes |-> mine'[r]] = [r \in Scrapes |-> mine[r]]
        BY <2>1, <3>3, ProcsAssumption DEF Procs
      <4>2. Pool!Install(Boot)
        BY <2>3, <2>4, <3>1, <3>3, <4>1 DEF Pool!Install
      <4>3. QED BY <4>2 DEF Pool!PoolNext
    <3>4. QED BY <3>2, <3>3 DEF Procs
  <2>5. CASE ~GlobalConnPool
    <3>1. client' = client
      BY <1>3, <2>5 DEF SharedAfterConnect
    <3>2. CASE p \in Scrapes
      <4>1. Pool!TakeOwn(p)
        BY <1>2, <2>2, <2>3, <2>5, <3>1, <3>2, ProcsAssumption DEF Pool!TakeOwn
      <4>2. QED BY <3>2, <4>1 DEF Pool!PoolNext
    <3>3. CASE p = Boot
      <4>1. \A r \in Scrapes : mine'[r] = mine[r]
        BY <2>1, <3>3, ProcsAssumption DEF Procs
      <4>2. QED BY <2>3, <2>5, <3>1, <3>3, <4>1, PoolStutter
    <3>4. QED BY <3>2, <3>3 DEF Procs
  <2>6. QED BY <2>4, <2>5
<1>4. CASE open' = OpenAfterFailedPing(p) /\ ReturnClient(p, None) /\ UNCHANGED client
  <2>1. LiveClients' = LiveClients
    BY <1>4, ReturnLive DEF OpenAfterFailedPing
  <2>2. \A r \in Scrapes : mine'[r] = mine[r]
    BY <1>2, <1>4, Returned DEF Procs
  <2>3. QED BY <1>4, <2>1, <2>2, PoolStutter
<1>5. QED BY <1>3, <1>4

\* Steps of a scrape that move between labels other than "ping" and touch no client.
LEMMA QuietImplements ==
    ASSUME TypeOK, NEW r \in Scrapes, UNCHANGED <<client, open, mine>>,
           \/ pc' = pc
           \/ pc[r] # "ping" /\ \E l \in Labels \ {"ping"} : Goto(r, l)
    PROVE  UNCHANGED Pool!poolVars
<1>1. \A q \in Procs : pc'[q] = "ping" <=> pc[q] = "ping"
  BY DEF Goto, TypeOK, Procs
<1>2. LiveClients' = LiveClients
  BY <1>1 DEF LiveClients, TypeOK
<1>3. QED BY <1>2, PoolStutter

\* The end of a scrape that has a client is its Return.
LEMMA FinishImplements ==
    ASSUME TypeOK, PoolInv, NEW r \in Scrapes, Finish(r)
    PROVE  Pool!PoolNext \/ UNCHANGED Pool!poolVars
<1> USE DEF Finish
<1>a. r \in Procs /\ r # Boot
  BY ProcsAssumption DEF Procs
<1>1. /\ \A q \in Procs : pc'[q] = "ping" <=> pc[q] = "ping"
      /\ \A q \in Procs : q # r => mine'[q] = mine[q]
      /\ mine'[r] = None
  BY <1>a DEF Goto, TypeOK
<1>2. CASE mine[r] = None
  <2>1. open' = open
    BY <1>2, ProcsAssumption DEF OpenAfterClose, TypeOK
  <2>2. LiveClients' = LiveClients
    BY <1>1, <2>1 DEF LiveClients, TypeOK
  <2>3. \A s \in Scrapes : mine'[s] = mine[s]
    BY <1>1, <1>2 DEF Procs
  <2>4. QED BY <2>2, <2>3, PoolStutter
<1>3. CASE mine[r] # None
  <2>1. open' = IF GlobalConnPool THEN open ELSE open \ {r}
    BY <1>3 DEF OpenAfterClose, PoolInv, LeaseInv
  <2>2. LiveClients' = IF GlobalConnPool THEN LiveClients ELSE LiveClients \ {r}
    BY <1>1, <2>1 DEF LiveClients, TypeOK
  <2>3. [s \in Scrapes |-> mine'[s]] = [[s \in Scrapes |-> mine[s]] EXCEPT ![r] = None]
    BY <1>1 DEF Procs
  <2>4. Pool!Return(r)
    BY <1>3, <2>2, <2>3 DEF Pool!Return
  <2>5. QED BY <2>4 DEF Pool!PoolNext
<1>4. QED BY <1>2, <1>3

\* What a scrape does between getClient and the end is a stutter.
LEMMA ScrapeImplements ==
    ASSUME TypeOK, PoolInv, NEW r \in Scrapes, StartScrape(r) \/ ScrapeStep(r)
    PROVE  Pool!PoolNext \/ UNCHANGED Pool!poolVars
<1> USE DEF Labels
<1>1. CASE Finish(r)
  BY <1>1, FinishImplements
<1>2. CASE StartScrape(r)
  BY <1>2, QuietImplements DEF StartScrape, FirstStep
<1>3. CASE \/ ReadCount(r) \/ ListCollections(r) \/ StoreCount(r)
           \/ GetNodeType(r) \/ RegisterGeneral(r)
  BY <1>3, QuietImplements DEF ReadCount, ListCollections, StoreCount, GetNodeType, RegisterGeneral
<1>4. CASE CheckLimits(r)
  BY <1>4, QuietImplements, NextBlockType DEF CheckLimits
<1>5. CASE AssignOpts(r) \/ RegistryDone(r)
  BY <1>5, QuietImplements DEF AssignOpts, RegistryDone
<1>6. CASE EndBlock(r)
  BY <1>6, QuietImplements, NextBlockType DEF EndBlock
<1>7. CASE Register(r)
  BY <1>7, QuietImplements DEF Register
<1>8. QED BY <1>1, <1>2, <1>3, <1>4, <1>5, <1>6, <1>7 DEF ScrapeStep

\* The Exporter's clients behave as ClientPool promises, for any number of scrapes.
THEOREM ImplementsClientPoolCorrect == Spec => ImplementsClientPool
<1>1. Init => Pool!PoolInit
  BY DEF Init, Pool!PoolInit, LiveClients, Procs
<1>2. TypeOK /\ PoolInv /\ [Next]_vars => [Pool!PoolNext]_(Pool!poolVars)
  <2> SUFFICES ASSUME TypeOK, PoolInv, [Next]_vars
               PROVE  Pool!PoolNext \/ UNCHANGED Pool!poolVars
    OBVIOUS
  <2>1. CASE UNCHANGED vars \/ Environment
    <3>1. UNCHANGED <<client, open, mine, pc>>
      BY <2>1 DEF vars, Environment, Expire, ChangeRole, ChangeCollections
    <3>2. LiveClients' = LiveClients
      BY <3>1 DEF LiveClients
    <3>3. QED BY <3>1, <3>2, PoolStutter
  <2>2. CASE \E p \in Procs : LockClient(p)
    <3>1. PICK p \in Procs : LockClient(p)
      BY <2>2
    <3>2. \A q \in Procs : pc'[q] = "ping" <=> pc[q] = "ping"
      BY <3>1 DEF LockClient, CanLock, Goto, TypeOK
    <3>3. LiveClients' = LiveClients
      BY <3>1, <3>2 DEF LiveClients, LockClient, TypeOK
    <3>4. QED BY <3>1, <3>3, PoolStutter DEF LockClient
  <2>3. CASE \E p \in Procs : GetClientStep(p)
    BY <2>3, PingSharedImplements, ConnectImplements, PingNewImplements DEF GetClientStep
  <2>4. CASE \E r \in Scrapes : StartScrape(r) \/ ScrapeStep(r)
    BY <2>4, ScrapeImplements
  <2>5. QED BY <2>1, <2>2, <2>3, <2>4 DEF Next
<1>3. QED BY <1>1, <1>2, TypeCorrect, PoolCorrect, PTL
          DEF Spec, ImplementsClientPool, Pool!PoolSpec

-----------------------------------------------------------------------------
(***************************************************************************)
(* What a scrape serves: an invariant of e.opts, which scrapes write without *)
(* a lock, and of the registries in the making.                            *)
(***************************************************************************)
\* The flags the command line sets, those that may ever be set, and those that may ever be
\* cleared.
Commanded == Configured \cup (IF DiscoveringMode THEN {"discovering"} ELSE {})
Allowed   == Commanded \cup (IF CollectAll THEN CollectAllSets ELSE {})
Cleared   == IF "arbiter" \in NodeTypes THEN ArbiterClears ELSE {}

\* What a scrape may be served without, for the two losses of MeantServed.
Lost(r) == LostToArbiters \cup LostToCopy(r)

\* e.opts, whoever writes it in whatever order.
OptsInv ==
    /\ opts \subseteq Allowed
    /\ Commanded \ Cleared \subseteq opts

\* A scrape has registered nothing yet; it has at least the general collector.
Before == {"idle", "lock", "pingShared", "connect", "ping", "readCount", "list",
           "storeCount", "nodeType", "general"}
Past   == {"limits", "enable", "disable", "register", "serve"}

\* Who describes in time has its metrics in the cache.
CachedInv(r) ==
    /\ pc[r] \in Before => req[r].registered = {} /\ req[r].cached = {}
    /\ pc[r] \in Past => "general" \in req[r].registered
    /\ pc[r] \in Past /\ (mine[r] = None \/ ~req[r].expired)
          => req[r].cached = req[r].registered

\* What the blocks of makeRegistry that write e.opts have done so far for a scrape.
BlocksInv(r) ==
    /\ pc[r] \in {"limits", "enable", "disable", "register"} => mine[r] # None
    /\ pc[r] \in {"limits", "enable", "disable"} => req[r].registered = {"general"}
    /\ pc[r] = "enable" =>
          CollectAll /\ CollectAllSets \ (Cleared \cup req[r].todo) \subseteq opts
                     /\ req[r].todo \subseteq CollectAllSets
    /\ pc[r] \in {"disable", "register", "serve"} /\ mine[r] # None /\ CollectAll =>
          CollectAllSets \ Cleared \subseteq opts
    /\ pc[r] = "disable" =>
          req[r].node = "arbiter" /\ req[r].todo \subseteq ArbiterClears

\* The registry of a scrape: nothing but what is meant, all of it but the rest to do.
RegistryInv(r) ==
    /\ pc[r] \in {"register", "serve"} /\ mine[r] # None =>
          /\ req[r].registered \subseteq {"general"} \cup Meant(r)
          /\ pc[r] = "register" =>
                Meant(r) \ (Lost(r) \cup req[r].todo) \subseteq req[r].registered
          /\ pc[r] = "serve" => Meant(r) \ Lost(r) \subseteq req[r].registered
    /\ pc[r] = "serve" /\ mine[r] = None => req[r].registered = {"general"}

\* Without --collect-all no flag is set again, so what an arbiter denies stays cleared.
ArbiterInv(r) ==
    ~CollectAll /\ req[r].node = "arbiter" =>
        /\ pc[r] = "disable" => opts \cap ArbiterClears \subseteq req[r].todo
        /\ pc[r] = "register" => opts \cap ArbiterClears = {}
        /\ pc[r] \in {"register", "serve"} =>
              req[r].registered \subseteq ArbiterKeeps \cup {"general"}

\* What an unfiltered request has copied: all that the command line names and no arbiter
\* clears and, when no flag is set again, all that is set still.
CopyInv(r) ==
    pc[r] # "idle" /\ ~req[r].filtered =>
        /\ Configured \ Cleared \subseteq req[r].asked
        /\ ~CollectAll => opts \cap Collectors \subseteq req[r].asked

\* What is true of one scrape.
ScrapeInv(r) ==
    CachedInv(r) /\ BlocksInv(r) /\ RegistryInv(r) /\ ArbiterInv(r) /\ CopyInv(r)

\* And of all, with the options they share.
ServedInv == OptsInv /\ \A r \in Scrapes : ScrapeInv(r)

-----------------------------------------------------------------------------
(***************************************************************************)
(* The condition of each collector and what is meant for a scrape.         *)
(***************************************************************************)

\* "discovering" is the flag of no collector, so that no arbiter's scrape clears it.
LEMMA DiscoveringStays ==
    /\ "discovering" \notin Collectors
    /\ "discovering" \notin Cleared
    /\ Cleared \subseteq Collectors
    /\ Collectors \subseteq CollectAllSets
BY OptionsAssumption DEF AllCollectors, Cleared, ArbiterClears, CollectAllSets

\* makeRegistry registers only what is meant for the scrape.
LEMMA GateIsMeant ==
    ASSUME OptsInv, NEW r \in Scrapes, NEW c \in Collectors, Gate(r, c)
    PROVE  c \in Meant(r)
<1>1. c \in opts /\ c # "discovering"
  BY DiscoveringStays DEF Gate
<1>2. c \in IF CollectAll THEN Collectors ELSE Configured
  BY <1>1 DEF OptsInv, Allowed, Commanded
<1>3. c \in Discovered => c \in Listed \/ DiscoveringMode \/ Discovery # {}
  <2>1. "discovering" \in opts => DiscoveringMode \/ Discovery # {}
    BY OptionsAssumption, DiscoveringStays
       DEF OptsInv, Allowed, Commanded, CollectAllSets
  <2>2. QED BY <2>1 DEF Gate
<1>4. QED BY <1>2, <1>3 DEF Gate, Meant

\* Nothing is lost to arbiters but what they clear.
LEMMA LostIsCleared == LostToArbiters \subseteq Cleared
BY DEF LostToArbiters, Cleared

\* It registers all that is meant, but for the two losses.
LEMMA MeantHasGate ==
    ASSUME OptsInv, NEW r \in Scrapes, CopyInv(r), pc[r] # "idle", NEW c \in Meant(r) \ Lost(r),
           CollectAll => CollectAllSets \ Cleared \subseteq opts
    PROVE  c \in Collectors /\ Gate(r, c)
<1>a. c \in Collectors
  BY OptionsAssumption DEF Meant
<1>b. c \in Cleared => ~CollectAll /\ c \in opts
  BY DEF Lost, LostToArbiters, Cleared
<1>1. c \in opts
  <2>1. CASE CollectAll
    BY <1>a, <1>b, <2>1, DiscoveringStays
  <2>2. CASE ~CollectAll
    BY <1>b, <2>2 DEF Meant, OptsInv, Commanded
  <2>3. QED BY <2>1, <2>2
<1>2. c \in Discovered => c \in Listed \/ "discovering" \in opts
  <2>1. DiscoveringMode => "discovering" \in opts
    BY DiscoveringStays DEF OptsInv, Commanded
  <2>2. Discovery # {} => "discovering" \in opts
    BY DiscoveringStays DEF Discovery, CollectAllSets
  <2>3. QED BY <2>1, <2>2 DEF Meant
<1>3. c \in Unfiltered \/ c \in req[r].asked
  <2>1. CASE req[r].filtered
    BY <2>1 DEF Meant
  <2>2. CASE ~req[r].filtered /\ ~CollectAll
    BY <1>a, <1>1, <2>2 DEF CopyInv
  <2>3. CASE ~req[r].filtered /\ CollectAll
    <3>1. c \in Configured \cup Unfiltered \cup req[r].asked
      BY <1>1, <2>3 DEF Lost, LostToCopy
    <3>2. c \in Configured => c \in req[r].asked
      BY <1>b, <2>3 DEF CopyInv
    <3>3. QED BY <3>1, <3>2
  <2>4. QED BY <2>1, <2>2, <2>3
<1>4. QED BY <1>a, <1>1, <1>2, <1>3 DEF Meant, Gate

\* What is meant depends on the scrape's own request alone.
LEMMA MeantIsOwn ==
    ASSUME NEW r \in Scrapes, req'[r].asked = req[r].asked,
           req'[r].filtered = req[r].filtered,
           req'[r].node = req[r].node, req'[r].limitsOk = req[r].limitsOk
    PROVE  Meant(r)' = Meant(r)
BY DEF Meant

-----------------------------------------------------------------------------
(***************************************************************************)
(* Steps of the others, and early steps.                                   *)
(***************************************************************************)

\* How a step may change e.opts: what it takes away an arbiter's scrape may clear, and
\* only --collect-all adds anything.
OptsStep ==
    /\ opts \ Cleared \subseteq opts'
    /\ opts' \subseteq opts \cup (IF CollectAll THEN CollectAllSets ELSE {})

\* What a scrape may be served without can only grow; what arbiters cost under
\* --collect-all is all there may be from the start.
LEMMA LostGrows ==
    ASSUME OptsStep, OptsInv, NEW r \in Scrapes, req'[r].asked = req[r].asked,
           req'[r].filtered = req[r].filtered
    PROVE  Lost(r) \subseteq Lost(r)'
<1>1. LostToArbiters \subseteq LostToArbiters'
  BY DEF LostToArbiters, OptsStep
<1>2. LostToCopy(r) \subseteq LostToCopy(r)' \cup LostToArbiters'
  BY DEF LostToCopy, LostToArbiters, OptsStep, Cleared
<1>3. QED BY <1>1, <1>2 DEF Lost

\* A copy once made is not changed.
LEMMA CopyKept ==
    ASSUME OptsStep, NEW r \in Scrapes, CopyInv(r), pc[r] # "idle",
           req'[r].asked = req[r].asked, req'[r].filtered = req[r].filtered
    PROVE  CopyInv(r)'
BY DEF CopyInv, OptsStep

\* A scrape keeps its part of the invariant while others take steps.
LEMMA Frame ==
    ASSUME ServedInv, NEW s \in Scrapes, OptsStep,
           pc'[s] = pc[s], mine'[s] = mine[s], req'[s] = req[s]
    PROVE  ScrapeInv(s)'
<1>1. Meant(s)' = Meant(s) /\ Lost(s) \subseteq Lost(s)'
  BY MeantIsOwn, LostGrows DEF ServedInv
<1>2. CachedInv(s)'
  BY DEF ServedInv, ScrapeInv, CachedInv
<1>a. RegistryInv(s)'
  BY <1>1 DEF ServedInv, ScrapeInv, RegistryInv
<1>3. BlocksInv(s)'
  BY DEF ServedInv, ScrapeInv, BlocksInv, OptsStep
<1>4. ArbiterInv(s)'
  BY DEF ServedInv, ScrapeInv, ArbiterInv, OptsStep
<1>5. CopyInv(s)'
  <2>1. CASE pc[s] = "idle"
    BY <2>1 DEF CopyInv
  <2>2. CASE pc[s] # "idle"
    BY <2>2, CopyKept DEF ServedInv, ScrapeInv
  <2>3. QED BY <2>1, <2>2
<1>6. QED BY <1>2, <1>a, <1>3, <1>4, <1>5 DEF ScrapeInv

\* e.opts stays between what is commanded and what is allowed.
LEMMA OptsKept == ASSUME OptsInv, OptsStep PROVE OptsInv'
BY DEF OptsInv, OptsStep, Allowed

\* A step of one scrape alone: it is enough to look at that scrape.
LEMMA OneScrape ==
    ASSUME TypeOK, ServedInv, NEW r \in Scrapes, OptsStep, ScrapeInv(r)',
           \A s \in Scrapes : s # r =>
               pc'[s] = pc[s] /\ mine'[s] = mine[s] /\ req'[s] = req[s]
    PROVE  ServedInv'
<1>1. OptsInv'
  BY OptsKept DEF ServedInv
<1>2. \A s \in Scrapes : s # r => ScrapeInv(s)'
  BY Frame
<1>3. QED BY <1>1, <1>2 DEF ServedInv

\* As long as nothing is registered there is nothing to say of the registry.
LEMMA EarlyScrape ==
    ASSUME NEW r \in Scrapes, pc'[r] \in Before, CopyInv(r)',
           req'[r].registered = {}, req'[r].cached = {}
    PROVE  ScrapeInv(r)'
<1>1. pc'[r] \notin Past
  BY DEF Before, Past
<1>2. QED BY <1>1 DEF ScrapeInv, CachedInv, BlocksInv, RegistryInv, ArbiterInv, Past

\* getClient, for a scrape or for New's goroutine.
LEMMA GetClientServed ==
    ASSUME TypeOK, ServedInv, NEW p \in Procs, LockClient(p) \/ GetClientStep(p)
    PROVE  ServedInv'
<1>1. /\ opts' = opts /\ req' = req
      /\ \A s \in Scrapes : s # p => mine'[s] = mine[s] /\ pc'[s] = pc[s]
      /\ p \in Scrapes => pc[p] \in Before /\ pc'[p] \in Before /\ pc[p] # "idle"
  <2> USE DEF TypeOK, Procs, Goto, Before
  <2>1. ASSUME NEW c, ReturnClient(p, c)
        PROVE  /\ \A s \in Scrapes : s # p => mine'[s] = mine[s] /\ pc'[s] = pc[s]
               /\ p \in Scrapes => pc'[p] \in Before
    BY <2>1, ProcsAssumption DEF ReturnClient, AfterGetClient
  <2>2. CASE LockClient(p)
    BY <2>2 DEF LockClient, CanLock
  <2>3. CASE PingShared(p)
    BY <2>1, <2>3 DEF PingShared
  <2>4. CASE Connect(p)
    BY <2>1, <2>4 DEF Connect
  <2>5. CASE PingNew(p)
    BY <2>1, <2>5 DEF PingNew
  <2>6. QED BY <2>2, <2>3, <2>4, <2>5 DEF GetClientStep
<1>2. OptsStep
  BY <1>1 DEF OptsStep
<1>3. \A s \in Scrapes : ScrapeInv(s)'
  <2>1. TAKE s \in Scrapes
  <2>2. CASE s = p
    <3>1. CopyInv(s)'
      BY <1>1, <1>2, <2>2, CopyKept DEF ServedInv, ScrapeInv
    <3>2. QED BY <1>1, <2>2, <3>1, EarlyScrape DEF ServedInv, ScrapeInv, CachedInv
  <2>3. CASE s # p
    BY <1>1, <1>2, <2>3, Frame
  <2>4. QED BY <2>2, <2>3
<1>4. QED BY <1>2, <1>3, OptsKept DEF ServedInv

\* What a scrape does before the general collector is registered, and its end.
LEMMA EarlyStepServed ==
    ASSUME TypeOK, ServedInv, NEW r \in Scrapes,
           \/ StartScrape(r) \/ ReadCount(r) \/ ListCollections(r) \/ StoreCount(r)
           \/ GetNodeType(r) \/ Finish(r)
    PROVE  ServedInv'
<1>a. r \in Procs
  BY DEF Procs
<1>1. /\ opts' = opts
      /\ \A s \in Scrapes : s # r =>
            pc'[s] = pc[s] /\ mine'[s] = mine[s] /\ req'[s] = req[s]
  BY <1>a DEF StartScrape, ReadCount, ListCollections, StoreCount, GetNodeType, Finish,
              Goto, TypeOK, Procs
<1>2. /\ pc'[r] \in Before
      /\ req'[r].registered = {} /\ req'[r].cached = {}
  <2> USE <1>a DEF TypeOK, Goto, Before
  <2>0. pc[r] \in Before => req[r].registered = {} /\ req[r].cached = {}
    BY DEF ServedInv, ScrapeInv, CachedInv
  <2>1. CASE StartScrape(r)
    BY <2>1 DEF StartScrape, FirstStep, NoRequest
  <2>2. CASE ReadCount(r)
    BY <2>0, <2>2 DEF ReadCount
  <2>3. CASE ListCollections(r)
    BY <2>0, <2>3 DEF ListCollections, Request
  <2>4. CASE StoreCount(r)
    BY <2>0, <2>4 DEF StoreCount, Request
  <2>5. CASE GetNodeType(r)
    BY <2>0, <2>5 DEF GetNodeType, Request
  <2>6. CASE Finish(r)
    BY <2>6 DEF Finish, NoRequest
  <2>7. QED BY <2>1, <2>2, <2>3, <2>4, <2>5, <2>6
<1>3. OptsStep
  BY <1>1 DEF OptsStep
<1>5. CopyInv(r)'
  <2> USE <1>a DEF TypeOK, Goto
  <2>1. CASE StartScrape(r)
    <3>1. PICK e \in Endpoints, b \in BOOLEAN, a \in SUBSET Collectors :
             /\ req' = [req EXCEPT ![r] = [NoRequest EXCEPT !.endpoint = e, !.filtered = b,
                                                           !.asked = a]]
             /\ ~b => a = opts \cap Collectors
      BY <2>1, StartScrapeRequest
    <3>2. req'[r].filtered = b /\ req'[r].asked = a
      BY <3>1 DEF NoRequest
    <3>3. Configured \ Cleared \subseteq opts \cap Collectors
      BY OptionsAssumption DEF ServedInv, OptsInv, Commanded
    <3>4. QED BY <1>1, <3>1, <3>2, <3>3 DEF CopyInv
  <2>2. CASE Finish(r)
    BY <2>2 DEF Finish, CopyInv
  <2>3. CASE ReadCount(r) \/ ListCollections(r) \/ StoreCount(r) \/ GetNodeType(r)
    <3>1. pc[r] # "idle" /\ req'[r].asked = req[r].asked /\ req'[r].filtered = req[r].filtered
      BY <2>3 DEF ReadCount, ListCollections, StoreCount, GetNodeType, Request
    <3>2. QED BY <1>3, <3>1, CopyKept DEF ServedInv, ScrapeInv
  <2>4. QED BY <2>1, <2>2, <2>3
<1>6. QED BY <1>1, <1>2, <1>3, <1>5, EarlyScrape, OneScrape

-----------------------------------------------------------------------------
(***************************************************************************)
(* The steps of makeRegistry.                                              *)
(***************************************************************************)

\* The general collector is the first, and without a client the only one.
LEMMA RegisterGeneralServed ==
    ASSUME TypeOK, ServedInv, NEW r \in Scrapes, RegisterGeneral(r)
    PROVE  ServedInv'
<1>a. r \in Procs
  BY DEF Procs
<1>1. /\ opts' = opts /\ mine' = mine
      /\ \A s \in Scrapes : s # r => pc'[s] = pc[s] /\ req'[s] = req[s]
      /\ pc'[r] = IF mine[r] = None THEN "serve" ELSE "limits"
      /\ req'[r] = WithCollector(req[r], r, "general")
  BY <1>a DEF RegisterGeneral, Goto, TypeOK, Procs
<1>2. req[r].registered = {} /\ req[r].cached = {}
  BY DEF RegisterGeneral, ServedInv, ScrapeInv, CachedInv, Before
<1>3. /\ req'[r].registered = {"general"}
      /\ req'[r].expired = req[r].expired
      /\ req'[r].asked = req[r].asked /\ req'[r].filtered = req[r].filtered
      /\ mine[r] = None \/ ~req[r].expired => req'[r].cached = {"general"}
  BY <1>1, <1>2 DEF WithCollector, Describes, Expired, TypeOK, Request
<1>4. OptsStep
  BY <1>1 DEF OptsStep
<1>5. CachedInv(r)'
  BY <1>1, <1>3 DEF CachedInv, Before, Past
<1>6. BlocksInv(r)' /\ RegistryInv(r)' /\ ArbiterInv(r)'
  BY <1>1, <1>3 DEF BlocksInv, RegistryInv, ArbiterInv
<1>7. CopyInv(r)'
  BY <1>3, <1>4, CopyKept DEF RegisterGeneral, ServedInv, ScrapeInv
<1>8. QED BY <1>1, <1>4, <1>5, <1>6, <1>7, OneScrape DEF ScrapeInv

\* The block that comes next finds e.opts as the one before has left it.
LEMMA NextBlockServed ==
    ASSUME TypeOK, ServedInv, NEW r \in Scrapes, NEW done,
           \/ done = "limits"
           \/ done \in {"enable", "disable"} /\ req[r].todo = {},
           pc[r] = done,
           opts' = opts, mine' = mine,
           \A s \in Scrapes : s # r => pc'[s] = pc[s] /\ req'[s] = req[s],
           pc'[r] = NextBlock(r, done).label,
           req'[r].todo = NextBlock(r, done).todo,
           req'[r].registered = req[r].registered, req'[r].cached = req[r].cached,
           req'[r].expired = req[r].expired, req'[r].node = req[r].node,
           req'[r].asked = req[r].asked, req'[r].filtered = req[r].filtered
    PROVE  ServedInv'
<1>1. /\ CachedInv(r) /\ BlocksInv(r) /\ RegistryInv(r) /\ ArbiterInv(r)
      /\ req[r].registered = {"general"}
  BY DEF ServedInv, ScrapeInv, BlocksInv
<1>2. pc'[r] \in {"enable", "disable", "register"}
  BY NextBlockType
<1>3. CachedInv(r)'
  BY <1>1, <1>2 DEF CachedInv, Before, Past
<1>4. BlocksInv(r)'
  BY <1>1, DiscoveringStays DEF BlocksInv, NextBlock
<1>5. RegistryInv(r)'
  <2>1. CASE pc'[r] = "register"
    <3>1. req'[r].todo = Collectors
      BY <2>1 DEF NextBlock
    <3>2. Meant(r)' \subseteq Collectors
      BY OptionsAssumption DEF Meant
    <3>3. QED BY <1>1, <2>1, <3>1, <3>2 DEF RegistryInv
  <2>2. CASE pc'[r] # "register"
    BY <1>2, <2>2 DEF RegistryInv
  <2>3. QED BY <2>1, <2>2
<1>6. ArbiterInv(r)'
  <2>1. CASE pc'[r] = "register"
    <3>1. req[r].node = "arbiter" => done = "disable"
      BY <2>1, NextBlockType DEF NextBlock
    <3>2. req[r].node = "arbiter" /\ ~CollectAll => opts \cap ArbiterClears = {}
      BY <1>1, <3>1 DEF ArbiterInv
    <3>3. QED BY <1>1, <2>1, <3>2 DEF ArbiterInv
  <2>2. CASE pc'[r] = "disable"
    <3>1. req'[r].todo = ArbiterClears
      BY <2>2 DEF NextBlock
    <3>2. QED BY <2>2, <3>1 DEF ArbiterInv
  <2>3. CASE pc'[r] = "enable"
    BY <2>3 DEF ArbiterInv
  <2>4. QED BY <1>2, <2>1, <2>2, <2>3
<1>7. OptsStep
  BY DEF OptsStep
<1>8. CopyInv(r)'
  BY <1>7, CopyKept DEF ServedInv, ScrapeInv
<1>9. QED BY <1>3, <1>4, <1>5, <1>6, <1>7, <1>8, OneScrape DEF ScrapeInv

\* The limit is looked up, and a block that has gone through its flags is left.
LEMMA BlockServed ==
    ASSUME TypeOK, ServedInv, NEW r \in Scrapes, CheckLimits(r) \/ EndBlock(r)
    PROVE  ServedInv'
<1> USE DEF TypeOK, Goto, Procs
<1>1. CASE CheckLimits(r)
  <2>1. req'[r] = [req[r] EXCEPT !.limitsOk = LimitsOk, !.todo = NextBlock(r, "limits").todo]
    BY <1>1 DEF CheckLimits
  <2>2. /\ req'[r].todo = NextBlock(r, "limits").todo
        /\ req'[r].registered = req[r].registered /\ req'[r].cached = req[r].cached
        /\ req'[r].expired = req[r].expired /\ req'[r].node = req[r].node
        /\ req'[r].asked = req[r].asked /\ req'[r].filtered = req[r].filtered
    BY <2>1 DEF Request
  <2>3. /\ \A s \in Scrapes : s # r => pc'[s] = pc[s] /\ req'[s] = req[s]
        /\ pc'[r] = NextBlock(r, "limits").label
        /\ pc[r] = "limits" /\ opts' = opts /\ mine' = mine
    BY <1>1 DEF CheckLimits
  <2>4. QED BY <2>2, <2>3, NextBlockServed
<1>2. CASE EndBlock(r)
  <2>1. req'[r] = [req[r] EXCEPT !.todo = NextBlock(r, pc[r]).todo]
    BY <1>2 DEF EndBlock
  <2>2. /\ req'[r].todo = NextBlock(r, pc[r]).todo
        /\ req'[r].registered = req[r].registered /\ req'[r].cached = req[r].cached
        /\ req'[r].expired = req[r].expired /\ req'[r].node = req[r].node
        /\ req'[r].asked = req[r].asked /\ req'[r].filtered = req[r].filtered
    BY <2>1 DEF Request
  <2>3. /\ \A s \in Scrapes : s # r => pc'[s] = pc[s] /\ req'[s] = req[s]
        /\ pc'[r] = NextBlock(r, pc[r]).label
        /\ pc[r] \in {"enable", "disable"} /\ req[r].todo = {}
        /\ opts' = opts /\ mine' = mine
    BY <1>2 DEF EndBlock
  <2>4. QED BY <2>2, <2>3, NextBlockServed
<1>3. QED BY <1>1, <1>2

\* One flag is set or cleared; other scrapes see it at once.
LEMMA AssignOptsServed ==
    ASSUME TypeOK, ServedInv, NEW r \in Scrapes, AssignOpts(r)
    PROVE  ServedInv'
<1>1. PICK f \in req[r].todo :
         /\ opts' = IF pc[r] = "enable" THEN opts \cup {f} ELSE opts \ {f}
         /\ req' = [req EXCEPT ![r] = [req[r] EXCEPT !.todo = req[r].todo \ {f}]]
  BY DEF AssignOpts
<1>2. /\ pc' = pc /\ mine' = mine /\ pc[r] \in {"enable", "disable"}
      /\ \A s \in Scrapes : s # r => req'[s] = req[s]
      /\ req'[r].todo = req[r].todo \ {f}
      /\ req'[r].registered = req[r].registered /\ req'[r].cached = req[r].cached
      /\ req'[r].expired = req[r].expired /\ req'[r].node = req[r].node
      /\ req'[r].asked = req[r].asked /\ req'[r].filtered = req[r].filtered
  BY <1>1 DEF AssignOpts, TypeOK, Request
<1>3. CachedInv(r) /\ BlocksInv(r) /\ ArbiterInv(r)
  BY DEF ServedInv, ScrapeInv
<1>4. req[r].node = "arbiter" => "arbiter" \in NodeTypes
  BY DEF TypeOK, Request
<1>5. OptsStep
  <2>1. CASE pc[r] = "enable"
    BY <1>1, <1>3, <2>1 DEF BlocksInv, OptsStep
  <2>2. CASE pc[r] = "disable"
    <3>1. f \in Cleared
      BY <1>3, <1>4, <2>2 DEF BlocksInv, Cleared
    <3>2. QED BY <1>1, <2>2, <3>1 DEF OptsStep
  <2>3. QED BY <1>2, <2>1, <2>2
<1>6. CachedInv(r)' /\ RegistryInv(r)'
  BY <1>2, <1>3 DEF CachedInv, RegistryInv, Before, Past
<1>7. BlocksInv(r)'
  <2>1. CASE pc[r] = "enable"
    BY <1>1, <1>2, <1>3, <2>1 DEF BlocksInv
  <2>2. CASE pc[r] = "disable"
    BY <1>2, <1>3, <1>5, <2>2 DEF BlocksInv, OptsStep
  <2>3. QED BY <1>2, <2>1, <2>2
<1>8. ArbiterInv(r)'
  BY <1>1, <1>2, <1>3 DEF ArbiterInv
<1>9. CopyInv(r)'
  BY <1>2, <1>5, CopyKept DEF ServedInv, ScrapeInv
<1>10. QED BY <1>2, <1>5, <1>6, <1>7, <1>8, <1>9, OneScrape DEF ScrapeInv

\* The next collector is passed over, registered, or refused by the registry.
LEMMA RegisterServed ==
    ASSUME TypeOK, ServedInv, NEW r \in Scrapes, Register(r)
    PROVE  ServedInv'
<1>a. r \in Procs
  BY DEF Procs
<1>b. /\ pc[r] = "register" /\ opts' = opts /\ mine' = mine
      /\ \A s \in Scrapes : s # r => pc'[s] = pc[s] /\ req'[s] = req[s]
  BY <1>a DEF Register, Goto, TypeOK, Procs
<1>c. CachedInv(r) /\ BlocksInv(r) /\ RegistryInv(r) /\ ArbiterInv(r) /\ CopyInv(r) /\ OptsInv
  BY DEF ServedInv, ScrapeInv
<1>d. OptsStep
  BY <1>b DEF OptsStep
<1>e. "general" \in req[r].registered
  BY <1>b, <1>c DEF CachedInv, Past
<1>1. PICK c \in Collectors :
         \/ ~Gate(r, c) /\ req' = [req EXCEPT ![r] = [req[r] EXCEPT !.todo = req[r].todo \ {c}]]
                        /\ UNCHANGED pc
         \/ Gate(r, c) /\ req' = [req EXCEPT ![r] = WithCollector(req[r], r, c)] /\ UNCHANGED pc
         \/ Goto(r, "panic") /\ UNCHANGED req
  BY DEF Register
<1>2. CASE Goto(r, "panic") /\ UNCHANGED req
  <2>1. pc'[r] = "panic"
    BY <1>a, <1>2 DEF Goto, TypeOK
  <2>a. CopyInv(r)'
    BY <1>2, <1>b, <1>c, <1>d, CopyKept
  <2>2. ScrapeInv(r)'
    BY <2>1, <2>a DEF ScrapeInv, CachedInv, BlocksInv, RegistryInv, ArbiterInv, Before, Past
  <2>3. QED BY <1>b, <1>d, <2>2, OneScrape
<1>3. CASE /\ ~Gate(r, c) /\ UNCHANGED pc
           /\ req' = [req EXCEPT ![r] = [req[r] EXCEPT !.todo = req[r].todo \ {c}]]
  <2>1. /\ req'[r].todo = req[r].todo \ {c} /\ req'[r].asked = req[r].asked
        /\ req'[r].filtered = req[r].filtered
        /\ req'[r].registered = req[r].registered /\ req'[r].cached = req[r].cached
        /\ req'[r].expired = req[r].expired /\ req'[r].node = req[r].node
        /\ req'[r].limitsOk = req[r].limitsOk
    BY <1>3 DEF TypeOK, Request
  <2>2. CachedInv(r)' /\ BlocksInv(r)' /\ ArbiterInv(r)'
    BY <1>3, <1>b, <1>c, <2>1 DEF CachedInv, BlocksInv, ArbiterInv, Before, Past
  <2>3. c \notin Meant(r) \ Lost(r)
    BY <1>3, <1>b, <1>c, MeantHasGate DEF BlocksInv
  <2>a. Meant(r)' = Meant(r) /\ Lost(r) \subseteq Lost(r)'
    BY <1>c, <1>d, <2>1, MeantIsOwn, LostGrows
  <2>4. RegistryInv(r)'
    <3>1. /\ pc'[r] = "register" /\ mine'[r] = mine[r]
          /\ req'[r].registered = req[r].registered
          /\ req'[r].todo = req[r].todo \ {c}
      BY <1>3, <1>b, <2>1
    <3>2. QED BY <3>1, <1>b, <1>c, <2>3, <2>a DEF RegistryInv
  <2>b. CopyInv(r)'
    BY <1>b, <1>c, <1>d, <2>1, CopyKept
  <2>5. QED BY <1>3, <1>b, <1>d, <2>2, <2>4, <2>b, OneScrape DEF ScrapeInv
<1>4. CASE /\ Gate(r, c) /\ UNCHANGED pc
           /\ req' = [req EXCEPT ![r] = WithCollector(req[r], r, c)]
  <2>1. /\ req'[r].todo = req[r].todo \ {c} /\ req'[r].asked = req[r].asked
        /\ req'[r].filtered = req[r].filtered
        /\ req'[r].registered = req[r].registered \cup {c}
        /\ mine[r] = None \/ ~req[r].expired => req'[r].cached = req[r].cached \cup {c}
        /\ req'[r].expired = req[r].expired /\ req'[r].node = req[r].node
        /\ req'[r].limitsOk = req[r].limitsOk
    BY <1>4 DEF WithCollector, Describes, Expired, TypeOK, Request
  <2>2. CachedInv(r)'
    BY <1>4, <1>b, <1>c, <2>1 DEF CachedInv, Before, Past
  <2>3. BlocksInv(r)'
    BY <1>4, <1>b, <1>c, <2>1 DEF BlocksInv
  <2>4. c \in Meant(r)
    BY <1>4, <1>c, GateIsMeant
  <2>a. Meant(r)' = Meant(r) /\ Lost(r) \subseteq Lost(r)'
    BY <1>c, <1>d, <2>1, MeantIsOwn, LostGrows
  <2>5. RegistryInv(r)'
    BY <1>4, <1>b, <1>c, <2>1, <2>4, <2>a DEF RegistryInv
  <2>b. CopyInv(r)'
    BY <1>b, <1>c, <1>d, <2>1, CopyKept
  <2>6. ArbiterInv(r)'
    <3>1. ~CollectAll /\ req[r].node = "arbiter" => c \in ArbiterKeeps
      BY <1>4, <1>b, <1>c DEF ArbiterInv, ArbiterClears, Gate
    <3>2. QED BY <1>4, <1>b, <1>c, <2>1, <3>1 DEF ArbiterInv
  <2>7. QED BY <1>4, <1>b, <1>d, <2>2, <2>3, <2>5, <2>6, <2>b, OneScrape DEF ScrapeInv
<1>5. QED BY <1>1, <1>2, <1>3, <1>4

\* All collectors have been tried.
LEMMA RegistryDoneServed ==
    ASSUME TypeOK, ServedInv, NEW r \in Scrapes, RegistryDone(r)
    PROVE  ServedInv'
<1>1. /\ pc[r] = "register" /\ pc'[r] = "serve" /\ req[r].todo = {}
      /\ opts' = opts /\ mine' = mine /\ req' = req
      /\ \A s \in Scrapes : s # r => pc'[s] = pc[s]
  BY DEF RegistryDone, Goto, TypeOK, Procs
<1>2. CachedInv(r) /\ BlocksInv(r) /\ RegistryInv(r) /\ ArbiterInv(r) /\ CopyInv(r) /\ OptsInv
  BY DEF ServedInv, ScrapeInv
<1>3. OptsStep
  BY <1>1 DEF OptsStep
<1>4. CachedInv(r)' /\ BlocksInv(r)' /\ ArbiterInv(r)'
  BY <1>1, <1>2 DEF CachedInv, BlocksInv, ArbiterInv, Before, Past
<1>a. CopyInv(r)'
  BY <1>1, <1>2, <1>3, CopyKept
<1>5. RegistryInv(r)'
  <2>1. Meant(r)' = Meant(r) /\ Lost(r) \subseteq Lost(r)'
    BY <1>1, <1>2, <1>3, MeantIsOwn, LostGrows
  <2>2. /\ req[r].registered \subseteq {"general"} \cup Meant(r)
        /\ Meant(r) \ Lost(r) \subseteq req[r].registered
    BY <1>1, <1>2 DEF RegistryInv, BlocksInv
  <2>3. mine[r] # None
    BY <1>1, <1>2 DEF BlocksInv
  <2>4. QED BY <1>1, <2>1, <2>2, <2>3 DEF RegistryInv
<1>6. QED BY <1>1, <1>3, <1>4, <1>5, <1>a, OneScrape DEF ScrapeInv

\* A deadline that passes only weakens what is said of the cache.
LEMMA ExpireServed ==
    ASSUME TypeOK, ServedInv, NEW r \in Scrapes, Expire(r)
    PROVE  ServedInv'
<1>1. /\ req' = [req EXCEPT ![r] = [req[r] EXCEPT !.expired = TRUE]]
      /\ opts' = opts /\ mine' = mine /\ pc' = pc
      /\ ~req[r].expired
  BY DEF Expire
<1>2. /\ req'[r].todo = req[r].todo /\ req'[r].asked = req[r].asked
      /\ req'[r].filtered = req[r].filtered
      /\ req'[r].registered = req[r].registered /\ req'[r].cached = req[r].cached
      /\ req'[r].node = req[r].node /\ req'[r].limitsOk = req[r].limitsOk
      /\ \A s \in Scrapes : s # r => req'[s] = req[s]
  BY <1>1 DEF TypeOK, Request
<1>3. CachedInv(r) /\ BlocksInv(r) /\ RegistryInv(r) /\ ArbiterInv(r) /\ CopyInv(r) /\ OptsInv
  BY DEF ServedInv, ScrapeInv
<1>4. CachedInv(r)'
  BY <1>1, <1>2, <1>3 DEF CachedInv
<1>5. BlocksInv(r)' /\ ArbiterInv(r)'
  BY <1>1, <1>2, <1>3 DEF BlocksInv, ArbiterInv
<1>6. OptsStep
  BY <1>1 DEF OptsStep
<1>7. RegistryInv(r)'
  <2>1. Meant(r)' = Meant(r) /\ Lost(r) \subseteq Lost(r)'
    BY <1>2, <1>3, <1>6, MeantIsOwn, LostGrows
  <2>2. QED BY <1>1, <1>2, <1>3, <2>1 DEF RegistryInv
<1>8. CopyInv(r)'
  BY <1>1, <1>2, <1>3, <1>6, CopyKept DEF Expire
<1>9. QED BY <1>1, <1>2, <1>4, <1>5, <1>6, <1>7, <1>8, OneScrape DEF ScrapeInv

-----------------------------------------------------------------------------
(***************************************************************************)
(* The theorems.                                                           *)
(***************************************************************************)

\* A new Exporter has the flags of the command line, and no scrape.
LEMMA InitServed == Init => ServedInv
<1> SUFFICES ASSUME Init PROVE ServedInv
  OBVIOUS
<1>1. OptsInv
  BY DEF Init, OptsInv, Allowed, Commanded
<1>2. \A r \in Scrapes : ScrapeInv(r)
  <2>1. TAKE r \in Scrapes
  <2>2. /\ pc[r] = "idle" /\ req[r].registered = {} /\ req[r].cached = {}
    BY ProcsAssumption DEF Init, Procs, NoRequest
  <2>3. QED BY <2>2 DEF ScrapeInv, CachedInv, BlocksInv, RegistryInv, ArbiterInv, CopyInv,
                       Before, Past
<1>3. QED BY <1>1, <1>2 DEF ServedInv

\* Whatever the scrapes write into e.opts while others make their registries, e.opts stays
\* between what is commanded and what is allowed, and every registry on its way to what is
\* meant for its scrape.
THEOREM ServedCorrect == Spec => []ServedInv
<1>1. TypeOK /\ ServedInv /\ [Next]_vars => ServedInv'
  <2> SUFFICES ASSUME TypeOK, ServedInv, [Next]_vars PROVE ServedInv'
    OBVIOUS
  <2>1. CASE UNCHANGED vars \/ ChangeRole \/ ChangeCollections
    <3>1. UNCHANGED <<opts, pc, mine, req>>
      BY <2>1 DEF vars, ChangeRole, ChangeCollections
    <3>2. OptsStep
      BY <3>1 DEF OptsStep
    <3>3. QED BY <3>1, <3>2, Frame, OptsKept DEF ServedInv
  <2>2. CASE \E p \in Procs : LockClient(p) \/ GetClientStep(p)
    BY <2>2, GetClientServed
  <2>3. CASE \E r \in Scrapes : StartScrape(r) \/ ScrapeStep(r)
    BY <2>3, EarlyStepServed, RegisterGeneralServed, BlockServed, AssignOptsServed,
       RegisterServed, RegistryDoneServed DEF ScrapeStep
  <2>4. CASE \E r \in Scrapes : Expire(r)
    BY <2>4, ExpireServed
  <2>5. QED BY <2>1, <2>2, <2>3, <2>4 DEF Next, Environment
<1>2. QED BY InitServed, TypeCorrect, <1>1, PTL DEF Spec

\* For any number of scrapes and any flags, a scrape with a client serves the general
\* collector, nothing that is not meant for it by the command line, its filters, the node and
\* the limit, and all that is, but for the flags an arbiter's scrape has cleared and, under
\* --collect-all, for what an unfiltered request copied before it was set.
THEOREM MeantServedCorrect == Spec => []MeantServed
<1>1. ServedInv => MeantServed
  <2> SUFFICES ASSUME ServedInv, NEW r \in Scrapes, pc[r] = "serve", mine[r] # None
               PROVE  /\ req[r].registered \subseteq {"general"} \cup Meant(r)
                      /\ {"general"} \cup (Meant(r) \ Lost(r)) \subseteq req[r].registered
    BY DEF MeantServed, Lost
  <2>1. QED BY DEF ServedInv, ScrapeInv, RegistryInv, CachedInv, Past
<1>2. QED BY <1>1, ServedCorrect, PTL

\* Without --collect-all no interleaving of scrapes makes one ask an arbiter for what it
\* denies.
THEOREM ArbiterAskedOnlyItsOwnCorrect ==
    ASSUME ~CollectAll PROVE Spec => []ArbiterAskedOnlyItsOwn
<1>1. ServedInv => ArbiterAskedOnlyItsOwn
  BY DEF ServedInv, ScrapeInv, ArbiterInv, ArbiterAskedOnlyItsOwn
<1>2. QED BY <1>1, ServedCorrect, PTL

\* For any number of scrapes, metrics of a registered collector are missing only where there
\* is a client and the deadline has passed.
THEOREM NothingSilentlyMissingCorrect == Spec => []NothingSilentlyMissing
<1>1. ServedInv => NothingSilentlyMissing
  BY DEF ServedInv, ScrapeInv, CachedInv, Past, NothingSilentlyMissing
<1>2. QED BY <1>1, ServedCorrect, PTL

-----------------------------------------------------------------------------
(***************************************************************************)
(* Exporter implements Registration, once for every scrape.                *)
(***************************************************************************)

\* A slot is free with its deadline not passed, and makeRegistry has yet to try only
\* collectors that are not in the registry.
FillInv(r) ==
    /\ pc[r] = "idle" => ~req[r].expired
    /\ pc[r] = "register" => req[r].todo \subseteq Collectors \ req[r].registered

\* And so for all scrapes.
FillingInv == \A r \in Scrapes : FillInv(r)

\* The general collector is none of those that have a flag.
LEMMA GeneralHasNoFlag == "general" \notin Collectors
BY OptionsAssumption DEF AllCollectors

\* A scrape that neither starts trying collectors nor becomes free keeps its part.
LEMMA FillKept ==
    ASSUME NEW r \in Scrapes, FillInv(r), pc'[r] # "register",
           pc'[r] = "idle" => ~req'[r].expired
    PROVE  FillInv(r)'
BY DEF FillInv

\* What a process does in getClient is not filling.
LEMMA GetClientFilling ==
    ASSUME TypeOK, PoolInv, FillingInv, NEW p \in Procs, LockClient(p) \/ GetClientStep(p)
    PROVE  FillingInv'
<1> USE DEF TypeOK, Goto, Procs
<1>1. /\ req' = req
      /\ \A s \in Scrapes : s # p => pc'[s] = pc[s]
      /\ p \in Scrapes => pc'[p] \notin {"register", "idle"}
  <2>1. ASSUME NEW c, ReturnClient(p, c)
        PROVE  /\ \A s \in Scrapes : s # p => pc'[s] = pc[s]
               /\ p \in Scrapes => pc'[p] \notin {"register", "idle"}
    BY <2>1, ProcsAssumption DEF ReturnClient, AfterGetClient
  <2>2. CASE LockClient(p)
    BY <2>2 DEF LockClient, CanLock
  <2>3. CASE PingShared(p)
    BY <2>1, <2>3 DEF PingShared
  <2>4. CASE Connect(p)
    BY <2>1, <2>4 DEF Connect
  <2>5. CASE PingNew(p)
    BY <2>1, <2>5 DEF PingNew
  <2>6. QED BY <2>2, <2>3, <2>4, <2>5 DEF GetClientStep
<1>2. QED BY <1>1 DEF FillingInv, FillInv

\* A block of makeRegistry that leads to the collectors leads to all of them.
LEMMA BlockFilling ==
    ASSUME TypeOK, ServedInv, NEW r \in Scrapes, NEW done,
           pc[r] \in {"limits", "enable", "disable"},
           pc'[r] = NextBlock(r, done).label,
           req'[r].todo = NextBlock(r, done).todo,
           req'[r].registered = req[r].registered
    PROVE  FillInv(r)'
<1>1. req[r].registered = {"general"}
  BY DEF ServedInv, ScrapeInv, BlocksInv
<1>2. pc'[r] # "idle"
  BY NextBlockType
<1>3. pc'[r] = "register" => req'[r].todo = Collectors
  BY DEF NextBlock
<1>4. QED BY <1>1, <1>2, <1>3, GeneralHasNoFlag DEF FillInv

\* Each step of a scrape leaves only collectors to try that it has not registered.
LEMMA ScrapeFilling ==
    ASSUME TypeOK, ServedInv, FillingInv, NEW r \in Scrapes, StartScrape(r) \/ ScrapeStep(r)
    PROVE  FillingInv'
<1> USE DEF TypeOK, Goto, Procs
<1>1. \A s \in Scrapes : s # r => pc'[s] = pc[s] /\ req'[s] = req[s]
  BY DEF ScrapeStep, StartScrape, ReadCount, ListCollections, StoreCount, GetNodeType,
         RegisterGeneral, CheckLimits, AssignOpts, EndBlock, Register, RegistryDone, Finish
<1>2. SUFFICES FillInv(r)'
  BY <1>1 DEF FillingInv, FillInv
<1>3. FillInv(r)
  BY DEF FillingInv
<1>4. CASE \/ StartScrape(r) \/ ReadCount(r) \/ ListCollections(r) \/ StoreCount(r)
           \/ GetNodeType(r) \/ RegisterGeneral(r) \/ RegistryDone(r) \/ Finish(r)
  <2>1. pc'[r] # "register" /\ (pc'[r] = "idle" => ~req'[r].expired)
    <3>1. CASE Finish(r)
      BY <3>1 DEF Finish, NoRequest
    <3>2. CASE StartScrape(r)
      BY <3>2 DEF StartScrape, FirstStep
    <3>3. CASE \/ ReadCount(r) \/ ListCollections(r) \/ StoreCount(r)
               \/ GetNodeType(r) \/ RegisterGeneral(r) \/ RegistryDone(r)
      BY <3>3 DEF ReadCount, ListCollections, StoreCount, GetNodeType, RegisterGeneral,
                  RegistryDone
    <3>4. QED BY <1>4, <3>1, <3>2, <3>3
  <2>2. QED BY <1>3, <2>1, FillKept
<1>5. CASE CheckLimits(r)
  <2>1. /\ pc[r] = "limits" /\ pc'[r] = NextBlock(r, "limits").label
        /\ req'[r] = [req[r] EXCEPT !.limitsOk = LimitsOk, !.todo = NextBlock(r, "limits").todo]
    BY <1>5 DEF CheckLimits
  <2>2. /\ req'[r].todo = NextBlock(r, "limits").todo
        /\ req'[r].registered = req[r].registered
    BY <2>1 DEF Request
  <2>3. QED BY <2>1, <2>2, BlockFilling
<1>6. CASE EndBlock(r)
  <2>1. /\ pc[r] \in {"enable", "disable"} /\ pc'[r] = NextBlock(r, pc[r]).label
        /\ req'[r] = [req[r] EXCEPT !.todo = NextBlock(r, pc[r]).todo]
    BY <1>6 DEF EndBlock
  <2>2. /\ req'[r].todo = NextBlock(r, pc[r]).todo
        /\ req'[r].registered = req[r].registered
    BY <2>1 DEF Request
  <2>3. QED BY <2>1, <2>2, BlockFilling
<1>7. CASE AssignOpts(r)
  BY <1>7 DEF AssignOpts, FillInv
<1>8. CASE Register(r)
  <2>1. PICK c \in Collectors :
           \/ req' = [req EXCEPT ![r] = [req[r] EXCEPT !.todo = req[r].todo \ {c}]]
                 /\ UNCHANGED pc
           \/ req' = [req EXCEPT ![r] = WithCollector(req[r], r, c)] /\ UNCHANGED pc
           \/ pc' = [pc EXCEPT ![r] = "panic"] /\ UNCHANGED req
    BY <1>8 DEF Register
  <2>2. pc[r] = "register"
    BY <1>8 DEF Register
  <2>3. CASE pc' = [pc EXCEPT ![r] = "panic"]
    BY <1>3, <2>3, FillKept
  <2>4. CASE req' = [req EXCEPT ![r] = [req[r] EXCEPT !.todo = req[r].todo \ {c}]]
                 /\ UNCHANGED pc
    <3>1. req'[r].todo = req[r].todo \ {c} /\ req'[r].registered = req[r].registered
      BY <2>4 DEF Request
    <3>2. QED BY <1>3, <2>2, <2>4, <3>1 DEF FillInv
  <2>5. CASE req' = [req EXCEPT ![r] = WithCollector(req[r], r, c)] /\ UNCHANGED pc
    <3>1. /\ req'[r].todo = req[r].todo \ {c}
          /\ req'[r].registered = req[r].registered \cup {c}
      BY <2>5 DEF WithCollector, Request
    <3>2. QED BY <1>3, <2>2, <2>5, <3>1 DEF FillInv
  <2>6. QED BY <2>1, <2>3, <2>4, <2>5
<1>9. QED BY <1>4, <1>5, <1>6, <1>7, <1>8 DEF ScrapeStep

\* No scrape ever tries a collector twice.
THEOREM FillingCorrect == Spec => []FillingInv
<1>1. Init => FillingInv
  BY ProcsAssumption DEF Init, FillingInv, FillInv, NoRequest, Procs
<1>2. TypeOK /\ PoolInv /\ ServedInv /\ FillingInv /\ [Next]_vars => FillingInv'
  <2> SUFFICES ASSUME TypeOK, PoolInv, ServedInv, FillingInv, Next \/ UNCHANGED vars
               PROVE  FillingInv'
    OBVIOUS
  <2>1. CASE UNCHANGED vars \/ ChangeRole \/ ChangeCollections
    BY <2>1 DEF vars, ChangeRole, ChangeCollections, FillingInv, FillInv
  <2>2. CASE \E p \in Procs : LockClient(p) \/ GetClientStep(p)
    BY <2>2, GetClientFilling
  <2>3. CASE \E r \in Scrapes : StartScrape(r) \/ ScrapeStep(r)
    BY <2>3, ScrapeFilling
  <2>4. CASE \E r \in Scrapes : Expire(r)
    <3>1. PICK r \in Scrapes : Expire(r)
      BY <2>4
    <3>2. /\ pc' = pc /\ pc[r] # "idle"
          /\ req' = [req EXCEPT ![r] = [req[r] EXCEPT !.expired = TRUE]]
      BY <3>1 DEF Expire
    <3>3. /\ req'[r].todo = req[r].todo /\ req'[r].registered = req[r].registered
          /\ \A s \in Scrapes : s # r => req'[s] = req[s]
      BY <3>2 DEF TypeOK, Request
    <3>4. QED BY <3>2, <3>3 DEF FillingInv, FillInv
  <2>5. QED BY <2>1, <2>2, <2>3, <2>4 DEF Next, Environment
<1>3. QED BY <1>1, <1>2, TypeCorrect, PoolCorrect, ServedCorrect, PTL DEF Spec

\* A scrape whose registry stays as it is can at most run out of time.
LEMMA NothingOrTimeOver ==
    ASSUME NEW r \in Scrapes,
           \/ pc'[r] = pc[r]
           \/ pc[r] \notin {"serve", "panic"} /\ pc'[r] \notin {"serve", "panic"},
           req'[r].registered = req[r].registered, req'[r].cached = req[r].cached,
           req[r].expired /\ mine[r] # None => req'[r].expired /\ mine'[r] # None
    PROVE  Registry(r)!RegistryStep
<1>1. CASE (req[r].expired /\ mine[r] # None) <=> (req'[r].expired /\ mine'[r] # None)
  BY <1>1 DEF Registry!RegistryStep, Registry!registryVars
<1>2. CASE ~(req[r].expired /\ mine[r] # None) /\ req'[r].expired /\ mine'[r] # None
  <2>1. Registry(r)!TimeIsOver
    BY <1>2 DEF Registry!TimeIsOver
  <2>2. QED BY <2>1 DEF Registry!RegistryStep, Registry!RegistryNext
<1>3. QED BY <1>1, <1>2

\* The scrapes that do not take the step are not touched by it.
LEMMA OthersImplement ==
    ASSUME NEW s \in Scrapes, pc'[s] = pc[s], req'[s] = req[s], mine'[s] = mine[s]
    PROVE  Registry(s)!RegistryStep
BY NothingOrTimeOver

\* A client that getClient returns may come when the time is already over.
LEMMA GetClientRegisters ==
    ASSUME TypeOK, PoolInv, NEW p \in Procs, LockClient(p) \/ GetClientStep(p),
           NEW s \in Scrapes
    PROVE  Registry(s)!RegistryStep
<1> USE DEF TypeOK, Goto, Procs
<1>1. /\ req' = req
      /\ s # p => pc'[s] = pc[s] /\ mine'[s] = mine[s]
      /\ s = p => pc[s] \in GettingClient /\ pc'[s] \notin {"serve", "panic"}
  <2> USE DEF GettingClient
  <2>1. ASSUME NEW c, ReturnClient(p, c)
        PROVE  /\ s # p => mine'[s] = mine[s] /\ pc'[s] = pc[s]
               /\ s = p => pc'[s] \notin {"serve", "panic"}
    BY <2>1, ProcsAssumption DEF ReturnClient, AfterGetClient
  <2>2. CASE LockClient(p)
    BY <2>2 DEF LockClient, CanLock
  <2>3. CASE PingShared(p)
    BY <2>1, <2>3 DEF PingShared
  <2>4. CASE Connect(p)
    BY <2>1, <2>4 DEF Connect
  <2>5. CASE PingNew(p)
    BY <2>1, <2>5 DEF PingNew
  <2>6. QED BY <2>2, <2>3, <2>4, <2>5 DEF GetClientStep
<1>2. CASE s # p
  BY <1>1, <1>2, OthersImplement
<1>3. CASE s = p
  <2>1. mine[s] = None
    BY <1>1, <1>3 DEF PoolInv, LeaseInv
  <2>2. pc[s] \notin {"serve", "panic"}
    BY <1>1, <1>3 DEF GettingClient
  <2>3. QED BY <1>1, <1>3, <2>1, <2>2, NothingOrTimeOver
<1>4. QED BY <1>2, <1>3

\* What a scrape does before and between its registrations.
LEMMA QuietRegisters ==
    ASSUME TypeOK, PoolInv, ServedInv, FillingInv, NEW r \in Scrapes,
           \/ StartScrape(r) \/ ReadCount(r) \/ ListCollections(r) \/ StoreCount(r)
           \/ GetNodeType(r) \/ CheckLimits(r) \/ AssignOpts(r) \/ EndBlock(r)
    PROVE  Registry(r)!RegistryStep
<1> USE DEF TypeOK, Goto, Procs
<1>1. /\ \/ pc'[r] = pc[r]
         \/ pc[r] \notin {"serve", "panic"} /\ pc'[r] \notin {"serve", "panic"}
      /\ mine'[r] = mine[r]
  <2>1. CASE CheckLimits(r) \/ EndBlock(r)
    <3>1. NextBlock(r, "limits").label \notin {"serve", "panic"}
      BY NextBlockType
    <3>2. NextBlock(r, pc[r]).label \notin {"serve", "panic"}
      BY NextBlockType
    <3>3. QED BY <2>1, <3>1, <3>2 DEF CheckLimits, EndBlock
  <2>2. CASE AssignOpts(r)
    BY <2>2 DEF AssignOpts
  <2>3. CASE \/ StartScrape(r) \/ ReadCount(r) \/ ListCollections(r) \/ StoreCount(r)
             \/ GetNodeType(r)
    BY <2>3 DEF StartScrape, FirstStep, ReadCount, ListCollections, StoreCount, GetNodeType
  <2>4. QED BY <2>1, <2>2, <2>3
<1>2. /\ req'[r].registered = req[r].registered /\ req'[r].cached = req[r].cached
      /\ req'[r].expired = req[r].expired
  <2>1. CASE StartScrape(r)
    <3>1. pc[r] = "idle" /\ req[r].expired \in BOOLEAN
      BY <2>1 DEF StartScrape, Request
    <3>2. req[r].registered = {} /\ req[r].cached = {} /\ ~req[r].expired
      BY <3>1 DEF ServedInv, ScrapeInv, CachedInv, Before, FillingInv, FillInv
    <3>3. /\ req'[r].registered = {} /\ req'[r].cached = {} /\ req'[r].expired = FALSE
      BY <2>1 DEF StartScrape, NoRequest
    <3>4. QED BY <3>1, <3>2, <3>3
  <2>2. CASE ReadCount(r)
    BY <2>2 DEF ReadCount
  <2>3. CASE ListCollections(r)
    BY <2>3 DEF ListCollections, Request
  <2>4. CASE StoreCount(r) \/ GetNodeType(r)
    BY <2>4 DEF StoreCount, GetNodeType, Request
  <2>5. CASE CheckLimits(r) \/ AssignOpts(r) \/ EndBlock(r)
    BY <2>5 DEF CheckLimits, AssignOpts, EndBlock, Request
  <2>6. QED BY <2>1, <2>2, <2>3, <2>4, <2>5
<1>3. QED BY <1>1, <1>2, NothingOrTimeOver

\* registry.MustRegister of a collector that is not in the registry yet.
LEMMA WithCollectorRegisters ==
    ASSUME TypeOK, NEW r \in Scrapes, NEW c \in Collectors \cup {"general"},
           c \notin req[r].registered, pc[r] \notin {"serve", "panic"}, pc'[r] # "panic",
           mine' = mine, req' = [req EXCEPT ![r] = WithCollector(req[r], r, c)]
    PROVE  Registry(r)!RegistryStep
<1>1. /\ req'[r].registered = req[r].registered \cup {c}
      /\ req'[r].expired = req[r].expired
      /\ \/ req'[r].cached = req[r].cached \cup {c}
         \/ req'[r].cached = req[r].cached /\ req[r].expired /\ mine[r] # None
  BY DEF WithCollector, Describes, Expired, TypeOK, Request
<1>2. Registry(r)!RegisterOne(c)
  BY <1>1 DEF Registry!RegisterOne
<1>3. QED BY <1>2 DEF Registry!RegistryStep, Registry!RegistryNext

\* Registering, completing, refusing and starting anew.
LEMMA FillRegisters ==
    ASSUME TypeOK, ServedInv, FillingInv, NEW r \in Scrapes,
           RegisterGeneral(r) \/ Register(r) \/ RegistryDone(r) \/ Finish(r)
    PROVE  Registry(r)!RegistryStep
<1> USE DEF TypeOK, Goto, Procs
<1>1. CASE RegisterGeneral(r)
  <2>1. req[r].registered = {}
    BY <1>1 DEF RegisterGeneral, ServedInv, ScrapeInv, CachedInv, Before
  <2>2. /\ pc[r] = "general" /\ pc'[r] # "panic" /\ mine' = mine
        /\ req' = [req EXCEPT ![r] = WithCollector(req[r], r, "general")]
    BY <1>1 DEF RegisterGeneral
  <2>3. QED BY <2>1, <2>2, WithCollectorRegisters
<1>2. CASE Register(r)
  <2>1. pc[r] = "register" /\ mine' = mine
    BY <1>2 DEF Register
  <2>2. PICK c \in Collectors :
           /\ c \in req[r].todo
           /\ \/ req' = [req EXCEPT ![r] = [req[r] EXCEPT !.todo = req[r].todo \ {c}]]
                    /\ UNCHANGED pc
              \/ req' = [req EXCEPT ![r] = WithCollector(req[r], r, c)] /\ UNCHANGED pc
              \/ pc' = [pc EXCEPT ![r] = "panic"] /\ UNCHANGED req
    BY <1>2 DEF Register, Turn
  <2>3. CASE req' = [req EXCEPT ![r] = [req[r] EXCEPT !.todo = req[r].todo \ {c}]]
                 /\ UNCHANGED pc
    <3>1. /\ req'[r].registered = req[r].registered /\ req'[r].cached = req[r].cached
          /\ req'[r].expired = req[r].expired
      BY <2>3 DEF Request
    <3>2. QED BY <2>1, <2>3, <3>1, NothingOrTimeOver
  <2>4. CASE req' = [req EXCEPT ![r] = WithCollector(req[r], r, c)] /\ UNCHANGED pc
    <3>1. c \notin req[r].registered
      BY <2>1, <2>2 DEF FillingInv, FillInv
    <3>2. QED BY <2>1, <2>4, <3>1, WithCollectorRegisters
  <2>5. CASE pc' = [pc EXCEPT ![r] = "panic"] /\ UNCHANGED req
    <3>1. pc'[r] = "panic"
      BY <2>5
    <3>2. Registry(r)!RefuseAll
      BY <2>1, <2>5, <3>1 DEF Registry!RefuseAll
    <3>3. QED BY <3>2 DEF Registry!RegistryStep, Registry!RegistryNext
  <2>6. QED BY <2>2, <2>3, <2>4, <2>5
<1>3. CASE RegistryDone(r)
  <2>1. pc[r] = "register" /\ pc'[r] = "serve" /\ UNCHANGED <<mine, req>>
    BY <1>3 DEF RegistryDone
  <2>2. Registry(r)!Complete
    BY <2>1 DEF Registry!Complete
  <2>3. QED BY <2>2 DEF Registry!RegistryStep, Registry!RegistryNext
<1>4. CASE Finish(r)
  <2>1. /\ pc[r] \in {"serve", "panic"} /\ pc'[r] = "idle"
        /\ mine'[r] = None /\ req'[r] = NoRequest
    BY <1>4 DEF Finish
  <2>2. Registry(r)!Renew
    BY <2>1 DEF Registry!Renew, Registry!RegistryInit, NoRequest
  <2>3. QED BY <2>2 DEF Registry!RegistryStep, Registry!RegistryNext
<1>5. QED BY <1>1, <1>2, <1>3, <1>4

\* A deadline that passes while the scrape has a client is TimeIsOver.
LEMMA ExpireRegisters ==
    ASSUME TypeOK, NEW r \in Scrapes, Expire(r), NEW s \in Scrapes
    PROVE  Registry(s)!RegistryStep
<1>1. /\ pc' = pc /\ mine' = mine
      /\ req' = [req EXCEPT ![r] = [req[r] EXCEPT !.expired = TRUE]]
  BY DEF Expire
<1>2. /\ req'[s].registered = req[s].registered /\ req'[s].cached = req[s].cached
      /\ req[s].expired => req'[s].expired
  BY <1>1 DEF TypeOK, Request
<1>3. QED BY <1>1, <1>2, NothingOrTimeOver

\* Whatever other scrapes do to e.opts and to the clients meanwhile, each scrape fills its
\* registry as Registration promises: every collector once, with metrics unless the time is
\* over for a client, and all or nothing.
THEOREM ImplementsRegistrationCorrect == Spec => ImplementsRegistration
<1>1. Init => \A r \in Scrapes : Registry(r)!RegistryInit
  BY ProcsAssumption DEF Init, Registry!RegistryInit, NoRequest, Procs
<1>2. TypeOK /\ PoolInv /\ ServedInv /\ FillingInv /\ [Next]_vars
        => [\A r \in Scrapes : Registry(r)!RegistryStep]_vars
  <2> SUFFICES ASSUME TypeOK, PoolInv, ServedInv, FillingInv, Next, NEW s \in Scrapes
               PROVE  Registry(s)!RegistryStep
    OBVIOUS
  <2>1. CASE ChangeRole \/ ChangeCollections
    BY <2>1, OthersImplement DEF ChangeRole, ChangeCollections
  <2>2. CASE \E p \in Procs : LockClient(p) \/ GetClientStep(p)
    BY <2>2, GetClientRegisters
  <2>3. CASE \E r \in Scrapes : StartScrape(r) \/ ScrapeStep(r)
    <3>1. PICK r \in Scrapes : StartScrape(r) \/ ScrapeStep(r)
      BY <2>3
    <3>2. CASE s = r
      BY <3>1, <3>2, QuietRegisters, FillRegisters DEF ScrapeStep
    <3>3. CASE s # r
      <4>1. pc'[s] = pc[s] /\ req'[s] = req[s] /\ mine'[s] = mine[s]
        BY <3>1, <3>3 DEF ScrapeStep, StartScrape, ReadCount, ListCollections, StoreCount,
                          GetNodeType, RegisterGeneral, CheckLimits, AssignOpts, EndBlock,
                          Register, RegistryDone, Finish, TypeOK, Goto, Procs
      <4>2. QED BY <4>1, OthersImplement
    <3>4. QED BY <3>2, <3>3
  <2>4. CASE \E r \in Scrapes : Expire(r)
    BY <2>4, ExpireRegisters
  <2>5. QED BY <2>1, <2>2, <2>3, <2>4 DEF Next, Environment
<1>3. QED BY <1>1, <1>2, TypeCorrect, PoolCorrect, ServedCorrect, FillingCorrect, PTL
          DEF Spec, ImplementsRegistration

-----------------------------------------------------------------------------
(***************************************************************************)
(* The count of collections.                                               *)
(***************************************************************************)

\* A step that moves no scrape to or from counting leaves the count to those who count.
LEMMA CountKept ==
    ASSUME total' = total, Counting = {},
           \A s \in Scrapes : pc'[s] \in {"list", "storeCount"} => pc[s] \in {"list", "storeCount"}
    PROVE  total' = total /\ Counting' = {}
BY DEF Counting

\* getClient leads to the count, and never past the question whether one is wanted.
LEMMA GetClientCounts ==
    ASSUME TypeOK, NEW p \in Procs, LockClient(p) \/ GetClientStep(p)
    PROVE  /\ total' = total
           /\ \A s \in Scrapes : pc'[s] \in {"list", "storeCount"} => pc'[s] = pc[s]
<1> USE DEF TypeOK, Goto, Procs
<1>1. ASSUME NEW c, ReturnClient(p, c)
      PROVE  \A s \in Scrapes : pc'[s] \in {"list", "storeCount"} => pc'[s] = pc[s]
  BY <1>1, ProcsAssumption DEF ReturnClient, AfterGetClient
<1>2. CASE LockClient(p)
  BY <1>2 DEF LockClient
<1>3. CASE PingShared(p)
  BY <1>1, <1>3 DEF PingShared
<1>4. CASE Connect(p)
  BY <1>1, <1>4 DEF Connect
<1>5. CASE PingNew(p)
  BY <1>1, <1>5 DEF PingNew
<1>6. QED BY <1>2, <1>3, <1>4, <1>5 DEF GetClientStep

\* A scrape that finds a positive count does not count.
LEMMA ScrapeCounts ==
    ASSUME TypeOK, total > 0, Counting = {}, NEW r \in Scrapes, StartScrape(r) \/ ScrapeStep(r)
    PROVE  /\ total' = total
           /\ \A s \in Scrapes : pc'[s] \in {"list", "storeCount"} => pc'[s] = pc[s]
<1> USE DEF TypeOK, Goto, Procs
<1>1. pc[r] \notin {"list", "storeCount"}
  BY DEF Counting
<1>2. CASE StartScrape(r)
  BY <1>2 DEF StartScrape, FirstStep
<1>3. CASE ReadCount(r)
  <2>1. total \in Int /\ ~CountWanted
    BY OptionsAssumption DEF CountWanted
  <2>2. QED BY <1>3, <2>1 DEF ReadCount
<1>4. CASE ListCollections(r) \/ StoreCount(r)
  BY <1>1, <1>4 DEF ListCollections, StoreCount
<1>5. CASE CheckLimits(r) \/ EndBlock(r)
  <2>1. /\ NextBlock(r, "limits").label \notin {"list", "storeCount"}
        /\ NextBlock(r, pc[r]).label \notin {"list", "storeCount"}
    BY NextBlockType
  <2>2. QED BY <1>5, <2>1 DEF CheckLimits, EndBlock
<1>6. CASE GetNodeType(r) \/ RegisterGeneral(r) \/ RegistryDone(r) \/ Finish(r)
  BY <1>6 DEF GetNodeType, RegisterGeneral, RegistryDone, Finish
<1>7. CASE AssignOpts(r) \/ Register(r)
  BY <1>7 DEF AssignOpts, Register
<1>8. QED BY <1>2, <1>3, <1>4, <1>5, <1>6, <1>7 DEF ScrapeStep

\* For any number of scrapes, once a positive count is known and those who raced for it are
\* done, it is the count of the Exporter for good.
THEOREM CountSettlesCorrect == Spec => CountSettles
<1>1. TypeOK /\ [Next]_vars => [total > 0 /\ Counting = {} => total' = total /\ Counting' = {}]_vars
  <2> SUFFICES ASSUME TypeOK, Next, total > 0, Counting = {}
               PROVE  total' = total /\ Counting' = {}
    OBVIOUS
  <2>1. CASE Environment
    BY <2>1, CountKept DEF Environment, Expire, ChangeRole, ChangeCollections
  <2>2. CASE \E p \in Procs : LockClient(p) \/ GetClientStep(p)
    BY <2>2, GetClientCounts, CountKept
  <2>3. CASE \E r \in Scrapes : StartScrape(r) \/ ScrapeStep(r)
    BY <2>3, ScrapeCounts, CountKept
  <2>4. QED BY <2>1, <2>2, <2>3 DEF Next
<1>2. QED BY <1>1, TypeCorrect, PTL DEF Spec, CountSettles
=============================================================================
