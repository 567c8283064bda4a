----------------------------- MODULE ClientPool -----------------------------
(***************************************************************************)
(* What an Exporter promises about its MongoDB clients, seen from outside. *)
(* With a shared pool the first user that manages to connect installs it   *)
(* once and for all and everybody borrows that one.  Without, each user    *)
(* works with a client of its own, which is gone when the user is done.    *)
(***************************************************************************)
CONSTANTS
    Users,    \* who works with a client
    Guest,    \* not a user: it may install the shared pool, and borrows nothing
    None,     \* no client
    Shared    \* whether there is a shared pool

VARIABLES pool,    \* the installed shared client, by its builder
          lease,   \* the client each user works with
          live     \* the connected clients

poolVars == <<pool, lease, live>>

PoolInit ==
    /\ pool = None
    /\ lease = [u \in Users |-> None]
    /\ live = {}

Install(u) ==
    /\ Shared /\ pool = None
    /\ pool' = u
    /\ live' = live \cup {u}
    /\ \/ u \in Users /\ lease[u] = None /\ lease' = [lease EXCEPT ![u] = u]
       \/ u = Guest /\ UNCHANGED lease

Borrow(u) ==
    /\ Shared /\ pool # None
    /\ lease[u] = None
    /\ lease' = [lease EXCEPT ![u] = pool]
    /\ UNCHANGED <<pool, live>>

TakeOwn(u) ==
    /\ ~Shared
    /\ lease[u] = None
    /\ lease' = [lease EXCEPT ![u] = u]
    /\ live' = live \cup {u}
    /\ UNCHANGED pool

Return(u) ==
    /\ lease[u] # None
    /\ lease' = [lease EXCEPT ![u] = None]
    /\ live' = IF Shared THEN live ELSE live \ {u}
    /\ UNCHANGED pool

PoolNext ==
    \/ \E u \in Users \cup {Guest} : Install(u)
    \/ \E u \in Users : Borrow(u) \/ TakeOwn(u) \/ Return(u)

PoolSpec == PoolInit /\ [][PoolNext]_poolVars

=============================================================================
