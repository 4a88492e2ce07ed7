------------------------------- MODULE Dispatch -------------------------------
(***************************************************************************)
(* One request on its way to a channel that serves it: the items of its    *)
(* model group in order (proxy/model_group_dispatch.py), the select-       *)
(* attempt-exclude loop within an item (proxy/dispatcher.py), the attempt  *)
(* over a channel's endpoints (proxy/channel_attempt.py) and the waiting   *)
(* on rate limits (rate_limiting.py).  A request for a plain model is a    *)
(* group of one unbound item that is not lazily sticky.                    *)
(*                                                                         *)
(* The ledger is seen through its views (LedgerViews).  All that goes on   *)
(* around the request -- other requests, probes, administration, time --   *)
(* may change the views between any two of its steps.  A step is the code  *)
(* from one await to the next.                                             *)
(***************************************************************************)
EXTENDS Integers, Sequences, FiniteSets

CONSTANTS
  Models, Channels, Groups, NoChannel,       \* see Outcomes
  Items,         \* the group: a sequence of [model, bound], bound = NoChannel
                 \* for an item served by any channel that has the model
  Group,         \* the group's id
  Lazy,          \* whether the group is lazily sticky
  Priority,      \* Priority[c]: the smaller the sooner
  Budget,        \* rate_limit_wait_seconds, in units of MinDelay
  RetryAfters,   \* waits an upstream asks for with a 429
  MinDelay,      \* the floor under such a wait (0.1 s)
  DefaultDelay,  \* the wait when it asks for none (1 s)
  QueueWaits,    \* waits for the channel's own send limit
  MaxEndpoints   \* bound on the usable endpoints of a channel

ASSUME DispatchAssumption ==
  /\ Items \in Seq([model : Models, bound : Channels \cup {NoChannel}])
  /\ IsFiniteSet(Channels)
  /\ NoChannel \notin Channels
  /\ Group \in Groups
  /\ Lazy \in BOOLEAN
  /\ Priority \in [Channels -> Int]
  /\ Budget \in Nat
  /\ RetryAfters \subseteq Nat /\ QueueWaits \subseteq Nat
  /\ MinDelay \in Nat \ {0} /\ DefaultDelay \in Nat
  /\ MinDelay <= DefaultDelay
  /\ MaxEndpoints \in Nat

VARIABLES
  unhealthy, degraded, permanent, closed, preferred,   \* see LedgerViews
  pc,            \* "item", "select", "attempt", or how the request ended
  item,          \* index of the item being served
  unit,          \* entry to the loop: "bound", "preferred" or "pool"
  pool,          \* channels the unit may choose from
  fallback,      \* the item's whole pool, for when its preferred channel fails
  chosen,        \* channel of the current attempt
  endpoints,     \* endpoints of it still to try
  charged,       \* this attempt has recorded its failure (failure_recorded)
  tried,         \* DispatchContext.tried
  budget,        \* DispatchContext.wait_budget
  lastError,     \* DispatchContext.last_error is set
  attempted,     \* history: channels this request was sent to
  givenUp,       \* history: channels it failed over from
  attempts,      \* history: number of attempts
  retryWaits,    \* history: time spent waiting to try again after a 429
  queueWaits     \* history: time spent in send queues

Ledger == INSTANCE LedgerViews

views   == <<unhealthy, degraded, permanent, closed, preferred>>
loop    == <<item, unit, pool, fallback>>
attempt == <<chosen, endpoints, charged>>
context == <<tried, budget, lastError>>
waits   == <<retryWaits, queueWaits>>
history == <<attempted, givenUp, attempts, waits>>
vars    == <<views, pc, loop, attempt, context, history>>

Ended == {"served", "limited", "exhausted", "failed"}

Model == Items[item].model
Pair(c) == <<Model, c>>

-----------------------------------------------------------------------------
(* The items of the group *)

\* A unit of dispatching begins: a pass through the loop over these channels.
Begin(kind, candidates, rest) ==
  /\ unit' = kind
  /\ pool' = candidates
  /\ fallback' = rest
  /\ pc' = "select"
  /\ UNCHANGED <<views, item, attempt, context, history>>

\* The schedule blocks the model, or the bound channel is gone or disabled, or no
\* channel has the model in a format the client can be served in.
SkipItem ==
  /\ pc = "item" /\ item <= Len(Items)
  /\ item' = item + 1
  /\ UNCHANGED <<views, pc, unit, pool, fallback, attempt, context, history>>

StartBound ==
  /\ pc = "item" /\ item <= Len(Items)
  /\ Items[item].bound # NoChannel
  /\ Begin("bound", {Items[item].bound}, {})

\* The candidates come from the catalog as it is now.  A lazy group first tries
\* the channel that served the model last.
StartPool(candidates) ==
  /\ pc = "item" /\ item <= Len(Items)
  /\ Items[item].bound = NoChannel
  /\ candidates # {}
  /\ LET first == preferred[<<Group, Model>>] IN
     IF Lazy /\ first \in candidates \ tried
     THEN Begin("preferred", {first}, candidates)
     ELSE Begin("pool", candidates, {})

Exhausted ==
  /\ pc = "item" /\ item > Len(Items)
  /\ pc' = "exhausted"
  /\ UNCHANGED <<views, loop, attempt, context, history>>

-----------------------------------------------------------------------------
(* The loop *)

\* A bound item asks only whether its channel was given up already: it would
\* rather pass a 429 through than be skipped.
Selectable == {c \in pool \ tried : unit = "bound" \/ Ledger!Admitted(Pair(c))}

FirstChoice == {c \in Selectable : \A d \in Selectable : Priority[c] <= Priority[d]}

MustYield(c) == Lazy /\ unit # "bound" /\ Pair(c) \in degraded

NoneLeft ==
  /\ pc = "select"
  /\ Selectable = {}
  /\ IF unit = "preferred"
     THEN unit' = "pool" /\ pool' = fallback /\ UNCHANGED <<pc, item>>
     ELSE pc' = "item" /\ item' = item + 1 /\ UNCHANGED <<unit, pool>>
  /\ UNCHANGED <<views, fallback, attempt, context, history>>
\* Faulty: a channel that gave way stays selectable.
YieldInPlace(c) ==
  /\ pc = "select"
  /\ c \in FirstChoice
  /\ MustYield(c)
  /\ UNCHANGED vars

\* A degraded channel gives way to others in a lazy group.
Yield(c) ==
  /\ pc = "select"
  /\ c \in FirstChoice
  /\ MustYield(c)
  /\ tried' = tried \cup {c}
  /\ UNCHANGED <<views, pc, loop, attempt, budget, lastError, history>>

StartAttempt(c, n) ==
  /\ pc = "select"
  /\ c \in FirstChoice
  /\ ~MustYield(c)
  /\ pc' = "attempt"
  /\ chosen' = c
  /\ endpoints' = n
  /\ charged' = FALSE
  /\ attempted' = attempted \cup {c}
  /\ attempts' = attempts + 1
  /\ UNCHANGED <<views, loop, context, givenUp, waits>>

-----------------------------------------------------------------------------
(* The attempt *)

\* An endpoint is sent to once the channel's send limit lets it.
Sending(w) ==
  /\ pc = "attempt"
  /\ endpoints > 0
  /\ w = 0 \/ w < budget
  /\ queueWaits' = queueWaits + w
\* Faulty: the channel is not excluded.
FailOverForgetting ==
  /\ pc' = "select"
  /\ tried' = tried
  /\ givenUp' = givenUp \cup {chosen}
  /\ lastError' = TRUE

FailOver ==
  /\ pc' = "select"
  /\ tried' = tried \cup {chosen}
  /\ givenUp' = givenUp \cup {chosen}
  /\ lastError' = TRUE

\* A retryable or configuration error, recorded once per attempt.
EndpointFails(w, kind) ==
  /\ Sending(w)
  /\ IF charged THEN UNCHANGED views ELSE Ledger!FailedWith(Pair(chosen), kind)
  /\ charged' = TRUE
  /\ endpoints' = endpoints - 1
  /\ UNCHANGED <<pc, loop, chosen, context, attempted, givenUp, attempts, retryWaits>>

\* A stream without any output: a success for the executor that read it, a failure
\* for the attempt (see StreamAttempt).
EndpointEmpty(w) ==
  /\ Sending(w)
  /\ IF charged THEN Ledger!Succeeded(Pair(chosen))
     ELSE Ledger!SucceededThenFailed(Pair(chosen))
  /\ charged' = TRUE
  /\ endpoints' = endpoints - 1
  /\ UNCHANGED <<pc, loop, chosen, context, attempted, givenUp, attempts, retryWaits>>

\* The conversion refuses the request (before sending) or the answer (after).
EndpointIncompatible(w) ==
  /\ Sending(w)
  /\ endpoints' = endpoints - 1
  /\ UNCHANGED <<views, pc, loop, chosen, charged, context,
                 attempted, givenUp, attempts, retryWaits>>

ChannelExhausted ==
  /\ pc = "attempt"
  /\ endpoints = 0
  /\ FailOver
  /\ UNCHANGED <<views, loop, attempt, budget, attempted, attempts, waits>>

\* The answer, or the first event of a stream.  An answer is recorded as it
\* comes, a stream when it ends.
Serve(w, recorded) ==
  /\ Sending(w)
  /\ LET p == Pair(chosen) IN
     /\ unhealthy' = IF recorded THEN unhealthy \ {p} ELSE unhealthy
     /\ degraded'  = IF recorded THEN degraded \ {p} ELSE degraded
     /\ permanent' = IF recorded THEN permanent \ {p} ELSE permanent
  /\ preferred' = IF Lazy /\ unit # "bound"
                  THEN [preferred EXCEPT ![<<Group, Model>>] = chosen] ELSE preferred
  /\ pc' = "served"
  /\ UNCHANGED <<closed, loop, attempt, context, attempted, givenUp, attempts, retryWaits>>

\* A 429 that announces a quota window is passed through at once.
HitQuota(w) ==
  /\ Sending(w)
  /\ Ledger!OutOfQuota(chosen)
  /\ pc' = "limited"
  /\ UNCHANGED <<loop, attempt, context, attempted, givenUp, attempts, retryWaits>>
\* Faulty: the upstream's word is taken for the wait, also when it is 0.
DelayAsAsked(asked) == asked

Delay(asked) == IF asked < MinDelay THEN MinDelay ELSE asked

\* Any other 429 within the budget: wait, then select again, the same channel too.
WaitAndRetry(w, delay) ==
  /\ Sending(w)
  /\ delay <= budget
  /\ budget' = budget - delay
  /\ retryWaits' = retryWaits + delay
  /\ pc' = "select"
  /\ UNCHANGED <<views, loop, attempt, tried, lastError, attempted, givenUp, attempts>>

\* A 429 beyond the budget.
OutOfBudget(w, delay) ==
  /\ Sending(w)
  /\ delay > budget
  /\ Ledger!FailedWith(Pair(chosen), "rate_limit_exhausted")
  /\ FailOver
  /\ UNCHANGED <<loop, attempt, budget, attempted, attempts, retryWaits>>

\* The send limit would not let the request go within the budget.
QueueTimeout(w) ==
  /\ pc = "attempt"
  /\ endpoints > 0
  /\ w <= budget
  /\ Ledger!FailedWith(Pair(chosen), "rate_limit_exhausted")
  /\ budget' = budget - w
  /\ queueWaits' = queueWaits + w
  /\ FailOver
  /\ UNCHANGED <<loop, attempt, attempted, attempts, retryWaits>>

\* An error that says nothing about the channel ends the request.
Fail(w) ==
  /\ Sending(w)
  /\ pc' = "failed"
  /\ UNCHANGED <<views, loop, attempt, context, attempted, givenUp, attempts, retryWaits>>

-----------------------------------------------------------------------------
Init ==
  /\ Ledger!Init
  /\ pc = "item" /\ item = 1
  /\ unit = "pool" /\ pool = {} /\ fallback = {}
  /\ chosen = NoChannel /\ endpoints = 0 /\ charged = FALSE
  /\ tried = {} /\ budget = Budget /\ lastError = FALSE
  /\ attempted = {} /\ givenUp = {} /\ attempts = 0
  /\ retryWaits = 0 /\ queueWaits = 0

Step ==
  \/ SkipItem \/ StartBound \/ Exhausted \/ NoneLeft \/ ChannelExhausted
  \/ \E candidates \in SUBSET Channels : StartPool(candidates)
  \/ \E c \in Channels : Yield(c) \/ \E n \in 0..MaxEndpoints : StartAttempt(c, n)
  \/ \E w \in QueueWaits \cup {0} :
       \/ \E kind \in {"transport_failure", "http_5xx", "http_4xx_config"} :
            EndpointFails(w, kind)
       \/ EndpointEmpty(w) \/ EndpointIncompatible(w)
       \/ \E recorded \in BOOLEAN : Serve(w, recorded)
       \/ HitQuota(w)
       \/ \E asked \in RetryAfters : WaitAndRetry(w, Delay(asked)) \/ OutOfBudget(w, Delay(asked))
       \/ WaitAndRetry(w, DefaultDelay)
       \/ OutOfBudget(w, DefaultDelay)
       \/ QueueTimeout(w)
       \/ Fail(w)

\* The client may go away at any await.
Abort ==
  /\ pc \notin Ended
  /\ pc' = "failed"
  /\ UNCHANGED <<views, loop, attempt, context, history>>

\* What others do to the views this request reads.
Elsewhere ==
  /\ \/ Ledger!TimePasses
     \/ \E i \in DOMAIN Items, c \in Channels :
          \/ Ledger!Succeeded(<<Items[i].model, c>>)
          \/ Ledger!FailedWith(<<Items[i].model, c>>, "http_5xx")
          \/ Ledger!Preferred(Group, Items[i].model, c)
     \/ \E c \in Channels : Ledger!OutOfQuota(c) \/ Ledger!Removed(c)
  /\ UNCHANGED <<pc, loop, attempt, context, history>>

Next == Step \/ Abort \/ Elsewhere

\* The event loop keeps running the request: its awaits all have a time limit.
Spec == Init /\ [][Next]_vars /\ WF_vars(Step)

-----------------------------------------------------------------------------
(* Properties *)

TypeOK ==
  /\ unhealthy \subseteq Ledger!Pairs
  /\ degraded \subseteq Ledger!Pairs
  /\ permanent \subseteq Ledger!Pairs
  /\ closed \subseteq Channels
  /\ preferred \in [Groups \X Models -> Channels \cup {NoChannel}]
  /\ pc \in Ended \cup {"item", "select", "attempt"}
  /\ item \in 1..(Len(Items) + 1)
  /\ pc \in {"select", "attempt"} => item <= Len(Items) /\ pool # {}
  /\ unit \in {"bound", "preferred", "pool"}
  /\ pool \subseteq Channels
  /\ fallback \subseteq Channels
  /\ unit = "preferred" => fallback # {}
  /\ chosen \in Channels \cup {NoChannel}
  /\ pc = "attempt" => chosen \in pool
  /\ endpoints \in Nat
  /\ charged \in BOOLEAN
  /\ tried \subseteq Channels
  /\ budget \in 0..Budget
  /\ lastError \in BOOLEAN
  /\ attempted \subseteq Channels
  /\ givenUp \subseteq Channels
  /\ attempts \in Nat
  /\ retryWaits \in Nat
  /\ queueWaits \in Nat

\* A channel the request failed over from is out for the rest of it, across the
\* items of the group, whichever entry to the loop offers it again and however
\* the views change meanwhile (dispatcher.py, DispatchContext.tried).
NeverBack == pc = "attempt" => chosen \notin givenUp

\* Waits between retries of rate-limited channels stay within one budget for the
\* whole request, not one per channel or item (dispatcher.py, DispatchContext).
RetryWaitsBounded == retryWaits <= Budget - budget

\* No mix of failures, waits, fallbacks and help from others keeps a request
\* trying: all attempts beyond one per channel are paid for from the budget
\* (rate_limiting.py, handle_rate_limit, the 0.1 s floor).
AttemptsBounded == (attempts - Cardinality(Channels)) * MinDelay <= Budget

\* Whatever upstreams answer and the views become, the request comes to an end.
Terminates == <>(pc \in Ended)
=============================================================================
