----------------------------- MODULE LedgerViews -----------------------------
(***************************************************************************)
(* What the outcome ledger (proxy/outcomes.py) promises to those who route *)
(* by it: the sets of pairs and channels its views name, and how each      *)
(* event may change them -- no counters and no clock.  Outcomes implements *)
(* it (OutcomesViews); Dispatch is built on it.                            *)
(*                                                                         *)
(* An event on a channel changes the views of that channel only.  Asking a *)
(* view changes none: the ledger may forget on a read, never visibly.      *)
(***************************************************************************)
EXTENDS Integers

CONSTANTS Models, Channels, Groups, NoChannel     \* see Outcomes

VARIABLES
  unhealthy,     \* pairs whose circuit is open: ~is_healthy
  degraded,      \* pairs with a failure no success has covered: is_degraded
  permanent,     \* degraded pairs the probe loop must leave alone
  closed,        \* channels inside a quota window: is_blocked
  preferred      \* lazily sticky channel of a (group, model)

views == <<unhealthy, degraded, permanent, closed, preferred>>

Pairs == (Models \X Channels) \cup {<<c, c>> : c \in Channels}

FailureKinds == {"transport_failure", "http_5xx", "http_429",
                 "http_4xx_config", "rate_limit_exhausted"}

Of(pairs, c) == {p \in pairs : p[2] = c}

\* The hard gate of routing (admits).
Admitted(p) == p[2] \notin closed /\ p \notin unhealthy

-----------------------------------------------------------------------------
Succeeded(p) ==
  /\ unhealthy' = unhealthy \ {p}
  /\ degraded' = degraded \ {p}
  /\ permanent' = permanent \ {p}
  /\ UNCHANGED <<closed, preferred>>

\* A failure degrades the pair and may open its circuit, never close it.
FailedWith(p, kind) ==
  /\ unhealthy' \in {unhealthy, unhealthy \cup {p}}
  /\ degraded' = degraded \cup {p}
  /\ permanent' = IF kind = "http_4xx_config" THEN permanent \cup {p} ELSE permanent
  /\ UNCHANGED <<closed, preferred>>

\* A success and, before anyone looks, a failure.
SucceededThenFailed(p) ==
  /\ unhealthy' \in {unhealthy \ {p}, unhealthy \cup {p}}
  /\ degraded' = degraded \cup {p}
  /\ permanent' = permanent \ {p}
  /\ UNCHANGED <<closed, preferred>>

\* A quota window that is already over opens the channel it was to close.
OutOfQuota(c) ==
  /\ closed' \in {closed \cup {c}, closed \ {c}}
  /\ UNCHANGED <<unhealthy, degraded, permanent, preferred>>

Preferred(g, m, c) ==
  /\ preferred' = [preferred EXCEPT ![<<g, m>>] = c]
  /\ UNCHANGED <<unhealthy, degraded, permanent, closed>>

\* With time circuits close and windows pass; degradation does not heal by itself.
TimePasses ==
  /\ unhealthy' \in SUBSET unhealthy
  /\ closed' \in SUBSET closed
  /\ UNCHANGED <<degraded, permanent, preferred>>

Reconfigured(c) ==
  /\ permanent' = permanent \ Of(permanent, c)
  /\ UNCHANGED <<unhealthy, degraded, closed, preferred>>

Removed(c) ==
  /\ unhealthy' = unhealthy \ Of(unhealthy, c)
  /\ degraded' = degraded \ Of(degraded, c)
  /\ permanent' = permanent \ Of(permanent, c)
  /\ closed' = closed \ {c}
  /\ preferred' = [gm \in Groups \X Models |->
       IF preferred[gm] = c THEN NoChannel ELSE preferred[gm]]

EmptyPreferred == [gm \in Groups \X Models |-> NoChannel]

\* Only quota windows outlive the process.
Restarted ==
  /\ unhealthy' = {} /\ degraded' = {} /\ permanent' = {}
  /\ closed' \in SUBSET Channels
  /\ preferred' = EmptyPreferred

-----------------------------------------------------------------------------
Init ==
  /\ unhealthy = {} /\ degraded = {} /\ permanent = {}
  /\ closed = {}
  /\ preferred = EmptyPreferred

\* What others -- requests, probes, administration, time -- do to the views.
Others ==
  \/ TimePasses
  \/ \E p \in Pairs : Succeeded(p) \/ \E kind \in FailureKinds : FailedWith(p, kind)
  \/ \E c \in Channels :
       \/ OutOfQuota(c) \/ Reconfigured(c) \/ Removed(c)
       \/ \E g \in Groups, m \in Models : Preferred(g, m, c)

Next == Others \/ Restarted

Spec == Init /\ [][Next]_views
=============================================================================
