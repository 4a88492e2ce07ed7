----------------------------- MODULE ClientPool -----------------------------
(***************************************************************************)
(* The pool of HTTP clients to the upstreams (client.py).  Whole requests  *)
(* share one client per endpoint; a client that is replaced is retired and *)
(* closed some time later, so that the requests that still use it can end. *)
(*                                                                         *)
(* One lock guards the pool and serves its callers in turn.  Only the task *)
(* that closes retired clients keeps it over an await.                     *)
(***************************************************************************)
EXTENDS Integers, Sequences, FiniteSets

CONSTANTS
  Endpoints,     \* endpoints: base url and proxy
  NoClient,      \* nothing is pooled for an endpoint
  Free,          \* nobody holds the lock
  MaxCached,     \* _MAX_CACHED_CLIENTS
  MinDelay,      \* _RETIRED_CLIENT_CLOSE_DELAY_SECONDS
  MaxAge         \* age at which the cleanup loop retires an unused client

ASSUME PoolAssumption ==
  /\ MaxCached \in Nat \ {0} /\ MinDelay \in Nat /\ MaxAge \in Nat
  /\ NoClient \notin Nat /\ IsFiniteSet(Endpoints)

VARIABLES
  pool,          \* _clients: per endpoint its client
  unused,        \* time since the pool gave it out, up to MaxAge + 1
  clients,       \* every client made: its timeout, whether it is open and was
                 \* retired when the timeout in force was shorter than its own
  retiring,      \* _retirement_tasks: their clients and the time they sleep
  holder,        \* the task that holds the lock while it closes clients
  line           \* who waits for the lock, in turn

poolVars == <<pool, unused, clients, retiring, holder, line>>

Asleep == -1   \* a retirement task that has not run yet

Tasks == [clients: SUBSET Nat, left: Int]

Contended == holder # Free \/ line # <<>>
Waits(who) == Contended /\ line' = Append(line, who)

\* A lock that nobody holds or waits for is taken at once.
Gets(who) ==
  \/ ~Contended /\ UNCHANGED line
  \/ holder = Free /\ line # <<>> /\ Head(line) = who /\ line' = Tail(line)

Cached(p)    == {u \in Endpoints : p[u] # NoClient}

\* A task is made for the clients, if there are any.
Retired(set) ==
  IF set = {} THEN retiring ELSE retiring \cup {[clients |-> set, left |-> Asleep]}

Taken(set) == [u \in Endpoints |-> IF u \in set THEN NoClient ELSE pool[u]]

-----------------------------------------------------------------------------
GetOld(u) ==
  /\ pool[u] # NoClient
  /\ unused' = [unused EXCEPT ![u] = 0]
  /\ UNCHANGED <<pool, clients, retiring>>

\* The client used longest ago makes room for a new one.
GetNew(u, timeout) ==
  LET id    == Len(clients) + 1
      after == [pool EXCEPT ![u] = id] IN
  /\ pool[u] = NoClient
  /\ clients' = Append(clients, [timeout |-> timeout, open |-> TRUE, hasty |-> FALSE])
  /\ unused' = [unused EXCEPT ![u] = 0]
  /\ IF Cardinality(Cached(after)) <= MaxCached
     THEN pool' = after /\ UNCHANGED retiring
     ELSE \E v \in Cached(pool) :
            /\ \A w \in Cached(pool) : unused[w] <= unused[v]
            /\ pool' = [after EXCEPT ![v] = NoClient]
            /\ retiring' = Retired({pool[v]})

\* get_or_create_client, with the timeout read before the wait for the lock.
get_or_create_client(who, u, timeout) ==
  /\ Gets(who)
  /\ GetOld(u) \/ GetNew(u, timeout)
  /\ UNCHANGED holder

\* invalidate_all_clients and remove_channel_client: the pool is rid of clients.
TakeOut(who, set) ==
  /\ Gets(who)
  /\ pool' = Taken(set)
  /\ retiring' = Retired({pool[u] : u \in set \cap Cached(pool)})
  /\ UNCHANGED <<unused, clients, holder>>

\* The cleanup loop looks at the clients when it has the lock; where it stood in
\* line for it makes no difference.
cleanup_stale_clients ==
  LET stale == {u \in Cached(pool) : unused[u] > MaxAge} IN
  /\ ~Contended /\ stale # {}
  /\ pool' = Taken(stale)
  /\ retiring' = Retired({pool[u] : u \in stale})
  /\ UNCHANGED <<unused, clients, holder, line>>

-----------------------------------------------------------------------------
\* Faulty: the timeout in force does not count.
_fixed_close_delay_seconds(timeout) == MinDelay

_retired_client_close_delay_seconds(timeout) == IF timeout > MinDelay THEN timeout ELSE MinDelay

\* The delay is fixed when the task runs for the first time.
Sleep(task, timeout) ==
  /\ task.left = Asleep
  /\ retiring' = (retiring \ {task}) \cup {[task EXCEPT !.left = _retired_client_close_delay_seconds(timeout)]}
  /\ clients' = [c \in DOMAIN clients |->
       IF c \in task.clients /\ timeout < clients[c].timeout
       THEN [clients[c] EXCEPT !.hasty = TRUE] ELSE clients[c]]
  /\ UNCHANGED <<pool, unused, holder, line>>

Waiting(task) == \E i \in DOMAIN line : line[i] = task

Wake(task) ==
  /\ task.left = 0 /\ holder # task /\ ~Waiting(task) /\ Waits(task)
  /\ UNCHANGED <<pool, unused, clients, retiring, holder>>

Close(task) ==
  /\ task.left = 0 /\ Gets(task) /\ holder' = task
  /\ clients' = [c \in DOMAIN clients |->
       IF c \in task.clients THEN [clients[c] EXCEPT !.open = FALSE] ELSE clients[c]]
  /\ UNCHANGED <<pool, unused, retiring>>

Closed(task) ==
  /\ holder = task /\ holder' = Free
  /\ retiring' = retiring \ {task}
  /\ UNCHANGED <<pool, unused, clients, line>>

\* Time passes for the tasks that sleep and the clients in the pool.
Age ==
  /\ retiring' = {IF task.left > 0 THEN [task EXCEPT !.left = @ - 1] ELSE task : task \in retiring}
  /\ unused' = [u \in Endpoints |-> IF pool[u] = NoClient THEN 0
                               ELSE IF unused[u] > MaxAge THEN unused[u] ELSE unused[u] + 1]
  /\ UNCHANGED <<pool, clients, holder, line>>

NothingPooled == [u \in Endpoints |-> NoClient]
NothingUsed   == [u \in Endpoints |-> 0]

PoolInit ==
  /\ pool = NothingPooled /\ unused = NothingUsed
  /\ clients = <<>> /\ retiring = {} /\ holder = Free /\ line = <<>>

\* The clients go with their process.
PoolDies ==
  /\ pool' = NothingPooled /\ unused' = NothingUsed
  /\ clients' = <<>> /\ retiring' = {} /\ holder' = Free /\ line' = <<>>
=============================================================================
