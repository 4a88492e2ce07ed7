---------------------------- MODULE OutcomesViews ----------------------------
(***************************************************************************)
(* The outcome ledger implements the views it promises: counters, clocks   *)
(* and lazy forgetting of Outcomes, seen through is_healthy, is_degraded,  *)
(* is_blocked and the permanent mark, behave as LedgerViews.               *)
(***************************************************************************)
EXTENDS Outcomes

Views == INSTANCE LedgerViews WITH
  unhealthy <- {p \in Pairs : ~IsHealthy(p)},
  degraded  <- {p \in Pairs : IsDegraded(p)},
  permanent <- {p \in Pairs : health[p].permanent},
  closed    <- {c \in Channels : IsBlocked(c)}

\* Every step of the ledger is one its readers may expect: an event changes the
\* views of its own channel alone; a read that forgets expired state
\* (outcomes.py, is_healthy and is_blocked) changes no view; time heals circuits
\* and windows but never a degradation, which only a success or the channel's
\* deletion ends.
ImplementsViews == Views!Spec
=============================================================================
