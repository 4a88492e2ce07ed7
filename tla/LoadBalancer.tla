---------------------------- MODULE LoadBalancer ----------------------------
(***************************************************************************)
(* The balancer (balancer/load_balancer.py): one selection among the       *)
(* channels that are admitted right now, by priority and then by the       *)
(* strategy in force -- smooth weighted round robin, backup or sticky --   *)
(* while an administrator changes strategy, limits and weights and deletes *)
(* channels.  A selection runs inside the balancer's lock: one action.     *)
(*                                                                         *)
(* Which channels are admitted is up to the outcome ledger and the         *)
(* exclusions of the request (Outcomes, Dispatch): any set, here.  The     *)
(* backup strategy takes the heaviest of the top group and keeps no state. *)
(***************************************************************************)
EXTENDS SessionSticky, FiniteSets, FiniteSetsExt

CONSTANTS
  N,             \* channels 1..N, numbered in catalog order, in which selection looks at them
  Weights,       \* weights an administrator can give
  Sessions,      \* session fingerprints
  Hash,          \* Hash[k][c]: -log of the hash of session k and channel c
  Configs,       \* settings an administrator can save: [strategy, ttl, capacity]
  Scenarios,     \* bounds: [priority, first weights, sessions that come, is round robin used]
  MaxTurns       \* bound on round robin selections while nothing is disturbed

Strategies == {"round_robin", "backup", "sticky"}

Catalog == 1..N

ASSUME LoadBalancerAssumption ==
  /\ N \in Nat \ {0, 1} /\ Weights \subseteq Nat \ {0} /\ IsFiniteSet(Weights)
  /\ Configs \subseteq [strategy : Strategies, ttl : Nat \ {0}, capacity : Nat \ {0}]
  /\ Hash \in [Sessions -> [Catalog -> Nat \ {0}]]
  /\ Scenarios \subseteq [priority : [Catalog -> Nat],
                          weights : SUBSET [Catalog -> Weights],
                          sessions : SUBSET Sessions, rotating : BOOLEAN]
  /\ MaxTurns \in Nat

VARIABLES
  strategy,      \* _strategy
  current,       \* _current_weights: absent is 0
  weight,        \* the channels' configured weights
  scenario,      \* which part of the state space this behaviour is about
  turns,         \* history: times each channel was chosen by round robin
  disturbed,     \* history: the candidates or weights of round robin changed
  deleted        \* history: some channel was deleted

balancerVars == <<stickyVars, current, weight, strategy, scenario, turns, disturbed, deleted>>

-----------------------------------------------------------------------------
(* Candidates and choices *)

Top(admitted) ==
  {c \in admitted : \A d \in admitted : scenario.priority[c] <= scenario.priority[d]}

\* Rendezvous hashing: the lowest score -log(hash) / weight, the first of equals.
Rendezvous(k, candidates) ==
  LET before(c, d) == Hash[k][c] * weight[d] < Hash[k][d] * weight[c] IN
  CHOOSE c \in candidates : \A d \in candidates :
    before(c, d) \/ (~before(d, c) /\ c <= d)

StickyChoice(k, candidates) ==
  IF Bound(k) /\ EntryOf(cache, k).ch \in candidates
  THEN EntryOf(cache, k).ch
  ELSE Rendezvous(k, candidates)

-----------------------------------------------------------------------------
(* Smooth weighted round robin: every candidate is credited its weight, the one *)
(* with the most credit is chosen and pays the weight of all.                   *)

SumOf(f, set) == MapThenSumSet(LAMBDA c : f[c], set)

Raised(members) ==
  [c \in Catalog |-> IF c \in members THEN current[c] + weight[c] ELSE current[c]]

\* The first of the candidates with the greatest raised weight.
Favourite(members) ==
  LET raised == Raised(members) IN
  CHOOSE c \in members : \A d \in members :
    raised[c] > raised[d] \/ (raised[c] = raised[d] /\ c <= d)

\* Faulty: the chosen channel does not pay for being chosen.
Unpaid(members) == Raised(members)

Paid(members) == [Raised(members) EXCEPT ![Favourite(members)] = @ - SumOf(weight, members)]

-----------------------------------------------------------------------------
(* select_channel, by strategy *)

SelectSticky(k, admitted) ==
  /\ strategy = "sticky" /\ admitted # {}
  /\ Remember(k, StickyChoice(k, Top(admitted)))
  /\ UNCHANGED <<current, weight, strategy, scenario, turns, disturbed, deleted>>

\* A lone candidate is taken without touching the weights.
SelectRoundRobin(admitted) ==
  LET members == Top(admitted) IN
  /\ strategy = "round_robin" /\ scenario.rotating /\ ~deleted
  /\ Cardinality(members) > 1
  /\ ~disturbed => SumOf(turns, Catalog) < MaxTurns
  /\ current' = Paid(members)
  /\ disturbed' = (disturbed \/ members # Top(Catalog))
  /\ turns' = IF disturbed' THEN [c \in Catalog |-> 0]
                            ELSE [turns EXCEPT ![Favourite(members)] = @ + 1]
  /\ UNCHANGED <<stickyVars, weight, strategy, scenario, deleted>>

-----------------------------------------------------------------------------
(* Administration *)

UpdateConfig(cfg) ==
  /\ strategy' = cfg.strategy
  /\ Configure([ttl |-> cfg.ttl, capacity |-> cfg.capacity],
               cfg.strategy # strategy \/ cfg.ttl # limits.ttl)
  /\ UNCHANGED <<current, weight, scenario, turns, disturbed, deleted>>

Undisturbed == [c \in Catalog |-> 0]

Reweight(c, w) ==
  /\ scenario.rotating /\ ~deleted
  /\ weight' = [weight EXCEPT ![c] = w]
  /\ disturbed' = TRUE
  /\ turns' = Undisturbed
  /\ UNCHANGED <<stickyVars, current, strategy, scenario, deleted>>

\* A channel deleted, and one added in its place later, which starts at 0.  What
\* is known of credit ends here, and so does the part of this behaviour about it.
RemoveChannel(c) ==
  /\ Forget(c)
  /\ current' = [current EXCEPT ![c] = 0]
  /\ disturbed' = TRUE
  /\ turns' = Undisturbed
  /\ deleted' = TRUE
  /\ UNCHANGED <<weight, strategy, scenario>>

BalancerTicks ==
  /\ ClockTicks
  /\ UNCHANGED <<current, weight, strategy, scenario, turns, disturbed, deleted>>

-----------------------------------------------------------------------------
BalancerInit ==
  /\ now = 1
  /\ cache = <<>> /\ uses = <<>>
  /\ \E cfg \in Configs :
       strategy = cfg.strategy /\ limits = [ttl |-> cfg.ttl, capacity |-> cfg.capacity]
  /\ current = Undisturbed
  /\ scenario \in Scenarios
  /\ weight \in scenario.weights
  /\ turns = Undisturbed
  /\ disturbed = ~scenario.rotating /\ deleted = ~scenario.rotating

BalancerNext ==
  \/ BalancerTicks
  \/ \E admitted \in SUBSET Catalog :
       \/ SelectRoundRobin(admitted)
       \/ \E k \in scenario.sessions : SelectSticky(k, admitted)
  \/ \E cfg \in Configs : UpdateConfig(cfg)
  \/ \E c \in Catalog : RemoveChannel(c) \/ \E w \in Weights : Reweight(c, w)

BalancerSpec == BalancerInit /\ [][BalancerNext]_balancerVars

-----------------------------------------------------------------------------
(* Properties *)

\* However lookups, writes, expiry in batches, deletions and reconfiguration
\* interleave, a session goes where a plain LRU cache of the same capacity, from
\* which nothing expires early, would send it: to the channel of its last use if
\* that is recent enough and still a candidate, and otherwise where its hash says.
\* Neither the clean-up of others nor better candidates move it (outcomes.py,
\* session_sticky_get to trim_session_sticky; load_balancer.py,
\* _sticky_select_cached).
SessionsStay ==
  [][\A k \in scenario.sessions, admitted \in SUBSET Catalog :
       LET recent == k \in KeysOf(uses) /\ ~Expired(EntryOf(uses, k), limits.ttl)
           last   == EntryOf(uses, k).ch
       IN SelectSticky(k, admitted) =>
            EntryOf(cache', k).ch =
              IF recent /\ last \in Top(admitted) THEN last ELSE Rendezvous(k, Top(admitted))]_balancerVars

\* How far one of n channels that take turns may fall behind, in 2520ths of a
\* selection: 1/2 + 1/3 + ... + 1/n (2520 is a multiple of each number up to 10).
Share(i)   == (2520 + i - 1) \div i
Patience(n) == SumOf([i \in 2..n |-> Share(i)], 2..n)

\* From a fresh start and while nothing changes, every channel has at any time
\* been chosen as often as its weight entitles it to: it is less than one selection
\* ahead, and behind by no more than what grows as the logarithm of the number of
\* channels -- less than one selection for three; of five that weigh 1, 1, 1, 6 and
\* 6, one comes to be a whole selection behind -- whatever other strategies were in
\* force in between (load_balancer.py, _weighted_round_robin).
FairShare ==
  LET members == Top(Catalog)
      total   == SumOf(weight, members)
      lag(c)  == SumOf(turns, Catalog) * weight[c] - turns[c] * total
  IN ~disturbed => \A c \in members :
       /\ lag(c) > -total
       /\ 2520 * lag(c) <= Patience(Cardinality(members)) * total

\* However candidates come and go and weights change, a channel neither piles up
\* credit, to be flooded with when it comes back, nor debt, to be starved for:
\* both stay within N - 1 selections of the heaviest weight.  Deleting a channel
\* strands its credit with the others and voids this (load_balancer.py,
\* remove_channel).
CreditBounded ==
  ~deleted => \A c \in Catalog :
    /\ current[c] <= (N - 1) * Max(Weights)
    /\ current[c] >= -((N - 1) * Max(Weights))

\* Round robin is fair in the short run and does not drift in the long one.
TurnsAreFair == FairShare /\ CreditBounded
=============================================================================
