------------------------------ MODULE GroupProbe ------------------------------
(***************************************************************************)
(* The loop that probes degraded pairs of lazily sticky groups             *)
(* (proxy/group_probe.py): a round lists the pairs that are due, sends a   *)
(* small streamed request to each, a few at a time and each with a time    *)
(* limit, waits for all of them and makes the channels that answered the   *)
(* preferred ones of their groups.  Requests, administration and quota     *)
(* windows go on meanwhile.                                                *)
(***************************************************************************)
EXTENDS StreamAttempt, FiniteSets

CONSTANTS
  Groups,
  Lists,        \* models of the unbound items of a lazily sticky group
  NoChannel,
  Rank,         \* the order of channel ids
  Interval,     \* group_probe_interval_seconds, in ticks
  Concurrency   \* group_probe_concurrency

ASSUME GroupProbeAssumption ==
  /\ Lists \in [Groups -> SUBSET Models]
  /\ NoChannel \notin Channels
  /\ Rank \in [Channels -> Int]
  /\ \A c, d \in Channels : Rank[c] = Rank[d] => c = d
  /\ Interval \in Nat \ {0} /\ Concurrency \in Nat \ {0}

VARIABLES
  round,        \* "idle" or "on"
  since,        \* ticks since the round started
  targets,      \* pairs of the round
  offered,      \* channels that serve their models and are in no quota window
  preferred     \* lazily sticky channel of a (group, model)

loop == <<round, since, targets>>
vars == <<row, stream, loop, offered, preferred>>

-----------------------------------------------------------------------------
Backoff(consec) ==
  UpTo(Interval * 2 ^ (IF consec = 0 THEN 0 ELSE consec - 1), Cap)

Due(p) == row[p].age >= Backoff(row[p].consec)

Listed(p) == \E g \in Groups : p[1] \in Lists[g]

Probeable(p) ==
  /\ row[p].degraded /\ ~row[p].permanent
  /\ p[2] \in offered
  /\ Listed(p)

StartRound ==
  /\ round = "idle" /\ since = Interval
  /\ targets' = {p \in Pairs : Probeable(p) /\ Due(p)}
  /\ round' = IF targets' = {} THEN "idle" ELSE "on"
  /\ since' = 0
  /\ UNCHANGED <<row, stream, offered, preferred>>

InFlight == {p \in Pairs : stream[p].stage \in {"reading", "closing"}}

\* A target that is gone by now is skipped, or turned down by the admission.
Begin(p) ==
  /\ p \in targets /\ stream[p].stage = "none"
  /\ Cardinality(InFlight) < Concurrency
  /\ \/ p[2] \in offered /\ Start(p)
     \/ /\ p[2] \notin offered
        /\ \E result \in {"skipped", "failure"} : Becomes(p, Over(NoAttempt, result))
        /\ UNCHANGED row
  /\ UNCHANGED <<loop, offered, preferred>>

Probe(p) ==
  /\ UpstreamActs(p) \/ Closed(p) \/ Timeout(p)
  /\ UNCHANGED <<loop, offered, preferred>>

\* A 429 that announces a quota window closes the channel; any other leaves no
\* trace, for the probe's request has no model to record it under.
Limited(p) ==
  /\ \/ TurnedAway(p, "limited") /\ offered' \in {offered, offered \ {p[2]}}
     \/ TurnedAway(p, "other") /\ UNCHANGED offered
  /\ UNCHANGED <<loop, preferred>>

Answered(m) == {c \in Channels : stream[<<m, c>>].result = "success"}

First(channels) == CHOOSE c \in channels : \A d \in channels : Rank[c] <= Rank[d]

EndRound ==
  /\ round = "on"
  /\ \A p \in targets : stream[p].stage = "over"
  /\ preferred' = [gm \in Groups \X Models |->
       IF gm[2] \in Lists[gm[1]] /\ Answered(gm[2]) # {}
       THEN First(Answered(gm[2])) ELSE preferred[gm]]
  /\ round' = "idle"
  /\ targets' = {}
  /\ stream' = [p \in Pairs |-> NoAttempt]
  /\ UNCHANGED <<row, since, offered>>

-----------------------------------------------------------------------------
\* What requests and administration do meanwhile.
Elsewhere ==
  /\ \/ /\ \E p \in Pairs :
             \/ RecordSuccess(p)
             \/ \E kind \in {"http_5xx", "http_4xx_config"} : RecordFailure(p, kind)
             \/ ClearPermanent(p[2])
        /\ UNCHANGED <<offered, preferred>>
     \/ /\ \E c \in Channels :
             \/ offered' = offered \cup {c}
             \/ offered' = offered \ {c}
        /\ UNCHANGED <<row, preferred>>
     \/ /\ \E gm \in Groups \X Models, c \in Channels :
             gm[2] \in Lists[gm[1]] /\ preferred' = [preferred EXCEPT ![gm] = c]
        /\ UNCHANGED <<row, offered>>
  /\ UNCHANGED <<stream, loop>>

Tick ==
  /\ TimePasses
  /\ since' = UpTo(since + 1, Interval)
  /\ UNCHANGED <<stream, round, targets, offered, preferred>>

Init ==
  /\ row = [p \in Pairs |-> Clean]
  /\ stream = [p \in Pairs |-> NoAttempt]
  /\ round = "idle" /\ since = Interval /\ targets = {}
  /\ offered = Channels
  /\ preferred = [gm \in Groups \X Models |-> NoChannel]

Next ==
  \/ StartRound \/ EndRound \/ Tick \/ Elsewhere
  \/ \E p \in Pairs : Begin(p) \/ Probe(p) \/ Limited(p)

\* The event loop runs the loop and its probes, closing a client and waiting for an
\* upstream have time limits, and the clock moves.  An upstream need not act.
Fairness ==
  /\ WF_vars(StartRound) /\ WF_vars(EndRound) /\ WF_vars(Tick)
  /\ \A p \in Pairs :
       /\ WF_vars(Begin(p))
       /\ WF_vars((Closed(p) \/ Timeout(p)) /\ UNCHANGED <<loop, offered, preferred>>)

Spec == Init /\ [][Next]_vars /\ Fairness

-----------------------------------------------------------------------------
(* Properties *)

\* Whichever endpoint fails in whichever way, before or after the first output or
\* at the time limit, an attempt never records more failures than it met, and one
\* that met any has recorded one by its end (channel_attempt.py,
\* _AttemptAccounting; stream_executor.py, the finally of _do_stream_request).
FailuresBlamedOnce ==
  \A p \in Pairs :
    /\ stream[p].unblamed >= 0
    /\ stream[p].stage = "over" /\ stream[p].unblamed > 0 => stream[p].blamed

\* A round ends, whatever the upstreams do or leave undone (group_probe.py,
\* run_probe_round).
RoundEnds == round = "on" ~> round = "idle"

\* A pair that stays degraded and could be probed is probed again and again: no
\* stream of failures on it, and no other pair of the round, puts it off for ever
\* (group_probe.py, _next_due_at).
DegradedIsProbed ==
  \A p \in Pairs : <>[]Probeable(p) => []<>(p \in InFlight)
=============================================================================
