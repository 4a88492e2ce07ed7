------------------------------ MODULE Outcomes ------------------------------
(***************************************************************************)
(* The outcome ledger (proxy/outcomes.py): what the proxy remembers about  *)
(* how every (model, channel) pair has been doing, and the views that      *)
(* routing derives from it -- healthy, degraded, blocked, preferred.       *)
(*                                                                         *)
(* The whole process shares one ledger.  Every operation runs to the end   *)
(* under one lock, so an operation is one action here.  What interleaves   *)
(* is the order in which in-flight requests, the probe loop and channel    *)
(* administration call it: Next lets them call in any order, at any time.  *)
(*                                                                         *)
(* Time is the integer clock `now`, which starts at 1 so that the 0.0 the  *)
(* code uses for "no such time" is never a real reading.                   *)
(*                                                                         *)
(* A ledger entry that is absent in the code and one that holds only the   *)
(* defaults answer every view alike, so an absent entry is NoFailures, and *)
(* an absent block has reset time 0.                                       *)
(***************************************************************************)
EXTENDS Integers, Sequences

CONSTANTS
  Models,        \* real model names
  Channels,      \* channel ids
  Groups,        \* model-group ids
  NoChannel,     \* "no preferred channel"
  MaxFailCount,  \* failures that open the circuit of a pair
  Cooldown,      \* how long an open circuit stays open
  Resets,        \* reset times an upstream can announce for a quota window
  MaxTime,       \* bound on the clock
  MaxEpisode     \* bound on the failures of one pair between two successes

ASSUME OutcomesAssumption ==
  /\ MaxFailCount \in Nat \ {0}
  /\ Cooldown \in Nat
  /\ Resets \subseteq Nat
  /\ MaxTime \in Nat
  /\ MaxEpisode \in Nat
  /\ NoChannel \notin Channels

VARIABLES
  now,           \* the wall clock
  health,        \* _health: ledger entry of every pair
  blocked,       \* _blocked: reset time of a channel's quota window
  preferred,     \* _preferred: lazily sticky channel of a (group, model)
  episode        \* history: the failures of a pair since its last success

ledger == <<health, blocked, preferred, episode>>
vars == <<now, ledger>>

\* A request without a model is recorded under the channel's own id
\* (effective_model), so every channel has one virtual pair.
Pairs == (Models \X Channels) \cup {<<c, c>> : c \in Channels}

FailureKinds == {"transport_failure", "http_5xx", "http_429",
                 "http_4xx_config", "rate_limit_exhausted"}

Entry == [fail: Nat, lastFail: Nat, degraded: BOOLEAN,
          firstFailed: Nat, consec: Nat, permanent: BOOLEAN]

Failure == [at: Nat, config: BOOLEAN]

NoFailures == [fail |-> 0, lastFail |-> 0, degraded |-> FALSE,
               firstFailed |-> 0, consec |-> 0, permanent |-> FALSE]

-----------------------------------------------------------------------------
(* The views *)

CircuitOpen(p) ==
  /\ health[p].fail >= MaxFailCount
  /\ now - health[p].lastFail <= Cooldown
\* Faulty: forgets the cooldown.
CooledDownAtOnce(e) == e.fail >= MaxFailCount

\* Reading is_healthy after the cooldown forgets the failure count.
CooledDown(e) ==
  /\ e.fail >= MaxFailCount
  /\ now - e.lastFail > Cooldown
\* Faulty: forgives the degradation with the count.
ForgivenWholly(e) ==
  IF CooledDown(e) THEN [NoFailures EXCEPT !.permanent = e.permanent] ELSE e

Forgiven(e) ==
  IF CooledDown(e) THEN [e EXCEPT !.fail = 0, !.lastFail = 0] ELSE e

IsHealthy(p)  == ~CircuitOpen(p)
IsDegraded(p) == health[p].degraded
IsBlocked(c)  == blocked[c] > now

\* The hard gate of routing; `checkHealth` is FALSE for a caller without a model.
Admits(p, checkHealth) == ~IsBlocked(p[2]) /\ (checkHealth => IsHealthy(p))

\* The pairs the probe loop may test: never a permanent or a virtual one.
ProbeTargets ==
  {p \in Pairs : health[p].degraded /\ ~health[p].permanent /\ p[1] # p[2]}

-----------------------------------------------------------------------------
(* The operations *)

RecordSuccess(p) ==
  /\ health' = [health EXCEPT ![p] =
       [NoFailures EXCEPT !.lastFail = health[p].lastFail]]
  /\ episode' = [episode EXCEPT ![p] = <<>>]
  /\ UNCHANGED <<now, blocked, preferred>>
\* Faulty: every failure dates the period anew.
FailedRedated(e, kind) ==
  [fail |-> e.fail + 1, lastFail |-> now, degraded |-> TRUE, firstFailed |-> now,
   consec |-> e.consec + 1, permanent |-> e.permanent \/ kind = "http_4xx_config"]

Failed(e, kind) ==
  [fail        |-> e.fail + 1,
   lastFail    |-> now,
   degraded    |-> TRUE,
   firstFailed |-> IF e.consec = 0 THEN now ELSE e.firstFailed,
   consec      |-> e.consec + 1,
   permanent   |-> e.permanent \/ kind = "http_4xx_config"]

RecordFailure(p, kind) ==
  /\ Len(episode[p]) < MaxEpisode
  /\ health' = [health EXCEPT ![p] = Failed(@, kind)]
  /\ episode' = [episode EXCEPT ![p] =
       Append(@, [at |-> now, config |-> kind = "http_4xx_config"])]
  /\ UNCHANGED <<now, blocked, preferred>>

\* The window of the last 429 replaces the one before, whichever is longer.
RecordQuotaWindow(c, reset) ==
  /\ blocked' = [blocked EXCEPT ![c] = reset]
  /\ UNCHANGED <<now, health, preferred, episode>>

\* A client that went away says nothing about the channel.
RecordCancelled == UNCHANGED vars

\* admits() changes what it reads: an expired block is dropped, and the
\* failure count of a pair whose cooldown is over is forgiven.
CheckAdmission(p, checkHealth) ==
  LET c == p[2] IN
  /\ blocked' = [blocked EXCEPT ![c] = IF IsBlocked(c) THEN @ ELSE 0]
  /\ health' = IF checkHealth /\ ~IsBlocked(c)
               THEN [health EXCEPT ![p] = Forgiven(@)] ELSE health
  /\ UNCHANGED <<now, preferred, episode>>

RememberPreferred(g, m, c) ==
  /\ preferred' = [preferred EXCEPT ![<<g, m>>] = c]
  /\ UNCHANGED <<now, health, blocked, episode>>

\* A channel's configuration was saved: its pairs may be probed again.
ClearPermanent(c) ==
  /\ health' = [p \in Pairs |->
       IF p[2] = c THEN [health[p] EXCEPT !.permanent = FALSE] ELSE health[p]]
  /\ UNCHANGED <<now, blocked, preferred, episode>>

RemoveChannel(c) ==
  /\ health'  = [p \in Pairs |-> IF p[2] = c THEN NoFailures ELSE health[p]]
  /\ episode' = [p \in Pairs |-> IF p[2] = c THEN <<>> ELSE episode[p]]
  /\ blocked' = [blocked EXCEPT ![c] = 0]
  /\ preferred' = [gm \in Groups \X Models |->
       IF preferred[gm] = c THEN NoChannel ELSE preferred[gm]]
  /\ UNCHANGED now

EmptyHealth    == [p \in Pairs |-> NoFailures]
EmptyEpisodes  == [p \in Pairs |-> <<>>]
EmptyPreferred == [gm \in Groups \X Models |-> NoChannel]

\* A restart loses everything but the windows still open in the quota file.
Reload(onDisk) ==
  /\ health' = EmptyHealth
  /\ episode' = EmptyEpisodes
  /\ preferred' = EmptyPreferred
  /\ blocked' = [c \in Channels |-> IF onDisk[c] > now THEN onDisk[c] ELSE 0]
  /\ UNCHANGED now

Tick ==
  /\ now < MaxTime
  /\ now' = now + 1
  /\ UNCHANGED ledger

-----------------------------------------------------------------------------
Init ==
  /\ now = 1
  /\ health = EmptyHealth
  /\ episode = EmptyEpisodes
  /\ preferred = EmptyPreferred
  /\ blocked = [c \in Channels |-> 0]

Next ==
  \/ Tick
  \/ \E p \in Pairs :
       \/ RecordSuccess(p)
       \/ \E kind \in FailureKinds : RecordFailure(p, kind)
       \/ RecordCancelled
       \/ \E checkHealth \in BOOLEAN : CheckAdmission(p, checkHealth)
  \/ \E c \in Channels :
       \/ \E reset \in Resets : RecordQuotaWindow(c, reset)
       \/ \E g \in Groups, m \in Models : RememberPreferred(g, m, c)
       \/ ClearPermanent(c)
       \/ RemoveChannel(c)
  \/ \E onDisk \in [Channels -> Resets \cup {0}] : Reload(onDisk)

Spec == Init /\ [][Next]_vars

-----------------------------------------------------------------------------
(* Properties *)

TypeOK ==
  /\ now \in Nat \ {0}
  /\ health \in [Pairs -> Entry]
  /\ blocked \in [Channels -> Nat]
  /\ preferred \in [Groups \X Models -> Channels \cup {NoChannel}]
  /\ episode \in [Pairs -> Seq(Failure)]

\* The ledger entry of a pair, which the code updates incrementally, is at all
\* times what the pair's failures since its last success amount to: degraded
\* exactly while there are any, the period dated by the first of them, counted
\* in full although the circuit's own count is forgiven now and then, and
\* permanent only on the word of a 401, 403 or 404 (outcomes.py, record and
\* is_healthy).
EntryMatchesEpisode(p) ==
  LET e == health[p]
      ep == episode[p]
  IN /\ e.degraded <=> ep # <<>>
     /\ e.consec = Len(ep)
     /\ e.firstFailed = IF ep = <<>> THEN 0 ELSE ep[1].at
     /\ e.fail <= Len(ep)
     /\ e.fail > 0 => e.lastFail = ep[Len(ep)].at
     /\ e.permanent => \E i \in 1..Len(ep) : ep[i].config

HealthMatchesEpisodes == \A p \in Pairs : EntryMatchesEpisode(p)

\* Failures drop out of the circuit's count only across a pause longer than the
\* cooldown: the oldest failure still counted, or the present moment when none
\* is, lies more than a cooldown after the newest one forgiven (outcomes.py,
\* is_healthy).
ForgivenAcrossPause(p) ==
  LET ep == episode[p]
      n  == Len(ep)
      k  == health[p].fail
  IN k < n => IF k = 0 THEN now - ep[n].at > Cooldown
                       ELSE ep[n - k + 1].at - ep[n - k].at > Cooldown

ForgivenOnlyAcrossPauses == \A p \in Pairs : ForgivenAcrossPause(p)

\* The last MaxFailCount failures of p came without a success and without a
\* pause longer than the cooldown, and the last of them is no older than it.
Burst(p) ==
  LET ep == episode[p]
      n  == Len(ep)
  IN /\ n >= MaxFailCount
     /\ \A i \in (n - MaxFailCount + 1)..(n - 1) : ep[i + 1].at - ep[i].at <= Cooldown
     /\ now - ep[n].at <= Cooldown

\* However admission checks interleave with failures -- and each may forgive
\* the count -- a burst of failures always has the circuit open, and the
\* circuit is never open on fewer failures than the threshold or on failures
\* older than the cooldown (outcomes.py, is_healthy).
BurstOpensCircuit ==
  \A p \in Pairs :
    /\ Burst(p) => ~IsHealthy(p)
    /\ ~IsHealthy(p) => /\ Len(episode[p]) >= MaxFailCount
                        /\ now - episode[p][Len(episode[p])].at <= Cooldown
=============================================================================
