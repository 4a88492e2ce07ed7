--------------------------- MODULE DispatchProofs ---------------------------
(***************************************************************************)
(* What a request can rely on, for every group of items, every set of      *)
(* channels, any priorities, budget and delays, and whatever others do to  *)
(* the ledger meanwhile; and, in the second part, what the limiter it      *)
(* waits at promises its channel and its callers, for every window, poll   *)
(* interval, time limits and sequence of configured limits.                *)
(***************************************************************************)
EXTENDS Dispatch, RateLimiter, FiniteSetTheorems, WellFoundedInduction, TLAPS

\* The parts of TypeOK: the shared views and the request's own state.
ViewsOK ==
  /\ unhealthy \subseteq Ledger!Pairs
  /\ degraded \subseteq Ledger!Pairs
  /\ permanent \subseteq Ledger!Pairs
  /\ closed \subseteq Channels
  /\ preferred \in [Groups \X Models -> Channels \cup {NoChannel}]

RequestOK ==
  /\ pc \in Ended \cup {"item", "select", "attempt"}
  /\ item \in 1..(Len(Items) + 1)
  /\ pc \in {"select", "attempt"} => item <= Len(Items) /\ pool # {}
  /\ unit \in {"bound", "preferred", "pool"}
  /\ pool \subseteq Channels
  /\ fallback \subseteq Channels
  /\ unit = "preferred" => fallback # {}
  /\ chosen \in Channels \cup {NoChannel}
  /\ pc = "attempt" => chosen \in pool
  /\ endpoints \in Nat
  /\ charged \in BOOLEAN
  /\ tried \subseteq Channels
  /\ budget \in 0..Budget
  /\ lastError \in BOOLEAN
  /\ attempted \subseteq Channels
  /\ givenUp \subseteq Channels
  /\ attempts \in Nat
  /\ retryWaits \in Nat
  /\ queueWaits \in Nat

LEMMA TypeParts == TypeOK <=> ViewsOK /\ RequestOK
  BY DEF TypeOK, ViewsOK, RequestOK

\* What an exclusion means: a channel given up is excluded, and the one being
\* tried is not.
Excluded ==
  /\ givenUp \subseteq tried
  /\ pc = "attempt" => chosen \notin tried

-----------------------------------------------------------------------------
(* Helpers *)

\* While items are left, the current one names a model.
LEMMA ItemTyped ==
  ASSUME NEW i \in DOMAIN Items
  PROVE  /\ i \in 1..Len(Items)
         /\ Items[i].model \in Models
         /\ Items[i].bound \in Channels \cup {NoChannel}
  <1> DEFINE ItemSet == [model : Models, bound : Channels \cup {NoChannel}]
  <1>1. Items \in Seq(ItemSet)
    BY DispatchAssumption
  <1>2. DOMAIN Items = 1..Len(Items) /\ Items[i] \in ItemSet
    <2> HIDE DEF ItemSet
    <2> QED
      BY <1>1
  <1>3. \A x \in ItemSet : x.model \in Models /\ x.bound \in Channels \cup {NoChannel}
    OBVIOUS
  <1> QED
    BY <1>2, <1>3

LEMMA ItemsDomain == Len(Items) \in Nat /\ DOMAIN Items = 1..Len(Items)
  BY DispatchAssumption

LEMMA DelayTyped ==
  ASSUME NEW asked \in RetryAfters
  PROVE  Delay(asked) \in Nat /\ Delay(asked) >= MinDelay
  BY DispatchAssumption DEF Delay

\* What the loop may choose it may choose from the unit's channels, untried.
LEMMA FirstChoiceUntried == FirstChoice \subseteq pool \ tried
  BY DEF FirstChoice, Selectable

\* The steps of a request that go on with an attempt, with the waiting it took.
LEMMA SendingTyped ==
  ASSUME RequestOK, NEW w \in QueueWaits \cup {0}, Sending(w)
  PROVE  /\ pc = "attempt" /\ endpoints \in Nat \ {0} /\ queueWaits' \in Nat
         /\ chosen \in Channels /\ item \in DOMAIN Items
  <1>1. pc = "attempt" /\ endpoints > 0 /\ queueWaits' = queueWaits + w
    BY DEF Sending
  <1>2. endpoints \in Nat /\ queueWaits \in Nat /\ w \in Nat
    BY DispatchAssumption DEF RequestOK
  <1>3. chosen \in pool /\ pool \subseteq Channels
    BY <1>1 DEF RequestOK
  <1>4. item \in 1..(Len(Items) + 1) /\ item <= Len(Items)
    BY <1>1 DEF RequestOK
  <1> QED
    BY <1>1, <1>2, <1>3, <1>4, ItemsDomain

-----------------------------------------------------------------------------
LEMMA InitTyped == Init => ViewsOK /\ RequestOK /\ Excluded
  <1> SUFFICES ASSUME Init PROVE ViewsOK /\ RequestOK /\ Excluded
    OBVIOUS
  <1>1. ViewsOK
    BY DEF Init, Ledger!Init, Ledger!EmptyPreferred, ViewsOK
  <1>2. item \in 1..(Len(Items) + 1)
    BY ItemsDomain DEF Init
  <1>3. budget \in 0..Budget
    BY DispatchAssumption DEF Init
  <1>4. RequestOK
    BY <1>2, <1>3 DEF Init, RequestOK, Ended
  <1> QED
    BY <1>1, <1>4 DEF Init, Excluded

(* The views stay views, whoever changes them. *)

LEMMA FailedWithTyped ==
  ASSUME ViewsOK, NEW p \in Ledger!Pairs, NEW kind, Ledger!FailedWith(p, kind)
  PROVE  ViewsOK'
  BY DEF ViewsOK, Ledger!FailedWith

LEMMA SucceededThenFailedTyped ==
  ASSUME ViewsOK, NEW p \in Ledger!Pairs,
         Ledger!Succeeded(p) \/ Ledger!SucceededThenFailed(p)
  PROVE  ViewsOK'
  <1>1. CASE Ledger!Succeeded(p)
    BY <1>1 DEF ViewsOK, Ledger!Succeeded
  <1>2. CASE Ledger!SucceededThenFailed(p)
    BY <1>2 DEF ViewsOK, Ledger!SucceededThenFailed
  <1> QED
    BY <1>1, <1>2

LEMMA ElsewhereTyped ==
  ASSUME ViewsOK, Elsewhere
  PROVE  ViewsOK'
  <1>1. CASE Ledger!TimePasses
    BY <1>1 DEF ViewsOK, Ledger!TimePasses
  <1>2. ASSUME NEW p, Ledger!Succeeded(p)
        PROVE  ViewsOK'
    BY <1>2 DEF ViewsOK, Ledger!Succeeded
  <1>3. ASSUME NEW i \in DOMAIN Items, NEW c \in Channels,
               Ledger!FailedWith(<<Items[i].model, c>>, "http_5xx")
        PROVE  ViewsOK'
    <2>1. Items[i].model \in Models
      BY ItemTyped
    <2>2. <<Items[i].model, c>> \in Ledger!Pairs
      BY <2>1 DEF Ledger!Pairs
    <2> QED
      BY <1>3, <2>2, FailedWithTyped
  <1>4. ASSUME NEW g, NEW m, NEW c \in Channels, Ledger!Preferred(g, m, c)
        PROVE  ViewsOK'
    BY <1>4 DEF ViewsOK, Ledger!Preferred
  <1>5. ASSUME NEW c \in Channels, Ledger!OutOfQuota(c)
        PROVE  ViewsOK'
    BY <1>5 DEF ViewsOK, Ledger!OutOfQuota
  <1>6. ASSUME NEW c \in Channels, Ledger!Removed(c)
        PROVE  ViewsOK'
    BY <1>6 DEF ViewsOK, Ledger!Removed
  <1> QED
    BY <1>1, <1>2, <1>3, <1>4, <1>5, <1>6 DEF Elsewhere

-----------------------------------------------------------------------------
(* The steps between attempts *)

LEMMA SkipItemTyped ==
  ASSUME ViewsOK, RequestOK, Excluded, SkipItem
  PROVE  ViewsOK' /\ RequestOK' /\ Excluded'
  BY ItemsDomain DEF SkipItem, views, attempt, context, history, waits, ViewsOK, RequestOK, Excluded

LEMMA StartBoundTyped ==
  ASSUME ViewsOK, RequestOK, Excluded, StartBound
  PROVE  ViewsOK' /\ RequestOK' /\ Excluded'
  <1>1. Items[item].bound \in Channels
    BY ItemsDomain, ItemTyped DEF StartBound, RequestOK
  <1> QED
    BY <1>1 DEF StartBound, Begin, views, attempt, context, history, waits,
         ViewsOK, RequestOK, Excluded

LEMMA StartPoolTyped ==
  ASSUME ViewsOK, RequestOK, Excluded, NEW candidates \in SUBSET Channels,
         StartPool(candidates)
  PROVE  ViewsOK' /\ RequestOK' /\ Excluded'
  <1>1. PICK kind, some, rest :
          /\ Begin(kind, some, rest)
          /\ kind \in {"preferred", "pool"}
          /\ some \subseteq Channels /\ some # {} /\ rest \subseteq Channels
          /\ kind = "preferred" => rest # {}
    BY SMTT(30) DEF StartPool
  <1> QED
    BY <1>1 DEF StartPool, Begin, views, attempt, context, history, waits,
         ViewsOK, RequestOK, Excluded

LEMMA ExhaustedTyped ==
  ASSUME ViewsOK, RequestOK, Excluded, Exhausted
  PROVE  ViewsOK' /\ RequestOK' /\ Excluded'
  BY DEF Exhausted, views, loop, attempt, context, history, waits, ViewsOK, RequestOK,
     Excluded, Ended

LEMMA NoneLeftTyped ==
  ASSUME ViewsOK, RequestOK, Excluded, NoneLeft
  PROVE  ViewsOK' /\ RequestOK' /\ Excluded'
  <1>1. CASE unit = "preferred"
    BY <1>1 DEF NoneLeft, views, attempt, context, history, waits, ViewsOK, RequestOK, Excluded
  <1>2. CASE unit # "preferred"
    <2>1. item + 1 \in 1..(Len(Items) + 1)
      BY ItemsDomain DEF NoneLeft, RequestOK
    <2> QED
      BY <1>2, <2>1 DEF NoneLeft, views, attempt, context, history, waits,
           ViewsOK, RequestOK, Excluded
  <1> QED
    BY <1>1, <1>2

LEMMA YieldTyped ==
  ASSUME ViewsOK, RequestOK, Excluded, NEW c \in Channels, Yield(c)
  PROVE  ViewsOK' /\ RequestOK' /\ Excluded'
  BY DEF Yield, views, loop, attempt, history, waits, ViewsOK, RequestOK, Excluded

LEMMA StartAttemptTyped ==
  ASSUME ViewsOK, RequestOK, Excluded, NEW c \in Channels, NEW n \in 0..MaxEndpoints,
         StartAttempt(c, n)
  PROVE  ViewsOK' /\ RequestOK' /\ Excluded'
  <1>1. c \in pool \ tried
    BY FirstChoiceUntried DEF StartAttempt
  <1>2. n \in Nat
    BY DispatchAssumption
  <1> QED
    <2>1. ViewsOK' /\ Excluded'
      BY <1>1 DEF StartAttempt, views, context, ViewsOK, Excluded
    <2>2. pc = "select" /\ pc' = "attempt" /\ item' = item /\ unit' = unit /\ pool' = pool
          /\ fallback' = fallback /\ tried' = tried /\ budget' = budget
          /\ lastError' = lastError /\ givenUp' = givenUp
          /\ retryWaits' = retryWaits /\ queueWaits' = queueWaits
      BY DEF StartAttempt, loop, context, waits
    <2>3. chosen' \in pool /\ endpoints' \in Nat /\ charged' \in BOOLEAN
          /\ attempted' = attempted \cup {c} /\ attempts' = attempts + 1
      BY <1>1, <1>2 DEF StartAttempt
    <2>4. RequestOK'
      BY <2>2, <2>3 DEF RequestOK
    <2> QED
      BY <2>1, <2>4

-----------------------------------------------------------------------------
(* The steps of an attempt *)

LEMMA FailOverTyped ==
  ASSUME RequestOK, Excluded, pc = "attempt", FailOver
  PROVE  /\ pc' = "select" /\ tried' \subseteq Channels /\ givenUp' \subseteq Channels
         /\ lastError' \in BOOLEAN /\ givenUp' \subseteq tried'
         /\ item <= Len(Items) /\ pool # {}
  BY DEF RequestOK, Excluded, FailOver

LEMMA EndpointFailsTyped ==
  ASSUME ViewsOK, RequestOK, Excluded, NEW w \in QueueWaits \cup {0}, NEW kind,
         EndpointFails(w, kind)
  PROVE  ViewsOK' /\ RequestOK' /\ Excluded'
  <1>1. Sending(w) /\ pc' = pc /\ endpoints' = endpoints - 1
    BY DEF EndpointFails
  <1>2. endpoints \in Nat \ {0} /\ queueWaits' \in Nat /\ chosen \in Channels
        /\ item \in DOMAIN Items
    BY <1>1, SendingTyped
  <1>3. ViewsOK'
    <2>1. Pair(chosen) \in Ledger!Pairs
      BY <1>2, ItemTyped DEF Pair, Model, Ledger!Pairs
    <2>2. CASE charged
      BY <2>2 DEF EndpointFails, views, ViewsOK
    <2>3. CASE ~charged
      BY <2>1, <2>3, FailedWithTyped DEF EndpointFails
    <2> QED
      BY <2>2, <2>3
  <1> QED
    BY <1>1, <1>2, <1>3 DEF EndpointFails, loop, context, RequestOK, Excluded

LEMMA EndpointEmptyTyped ==
  ASSUME ViewsOK, RequestOK, Excluded, NEW w \in QueueWaits \cup {0}, EndpointEmpty(w)
  PROVE  ViewsOK' /\ RequestOK' /\ Excluded'
  <1>1. Sending(w) /\ pc' = pc /\ endpoints' = endpoints - 1
    BY DEF EndpointEmpty
  <1>2. endpoints \in Nat \ {0} /\ queueWaits' \in Nat /\ chosen \in Channels
        /\ item \in DOMAIN Items
    BY <1>1, SendingTyped
  <1>3. Pair(chosen) \in Ledger!Pairs
    BY <1>2, ItemTyped DEF Pair, Model, Ledger!Pairs
  <1>4. ViewsOK'
    BY <1>3, SucceededThenFailedTyped DEF EndpointEmpty
  <1> QED
    BY <1>1, <1>2, <1>4 DEF EndpointEmpty, loop, context, RequestOK, Excluded

LEMMA EndpointIncompatibleTyped ==
  ASSUME ViewsOK, RequestOK, Excluded, NEW w \in QueueWaits \cup {0},
         EndpointIncompatible(w)
  PROVE  ViewsOK' /\ RequestOK' /\ Excluded'
  <1>1. Sending(w)
    BY DEF EndpointIncompatible
  <1>2. endpoints \in Nat \ {0} /\ queueWaits' \in Nat
    BY <1>1, SendingTyped
  <1> QED
    BY <1>2 DEF EndpointIncompatible, views, loop, context, ViewsOK, RequestOK, Excluded

LEMMA ChannelExhaustedTyped ==
  ASSUME ViewsOK, RequestOK, Excluded, ChannelExhausted
  PROVE  ViewsOK' /\ RequestOK' /\ Excluded'
  <1>1. pc = "attempt" /\ FailOver
    BY DEF ChannelExhausted
  <1> QED
    BY <1>1, FailOverTyped DEF ChannelExhausted, views, loop, attempt, waits,
         ViewsOK, RequestOK, Excluded

LEMMA ServeTyped ==
  ASSUME ViewsOK, RequestOK, Excluded, NEW w \in QueueWaits \cup {0},
         NEW recorded \in BOOLEAN, Serve(w, recorded)
  PROVE  ViewsOK' /\ RequestOK' /\ Excluded'
  <1>1. Sending(w)
    BY DEF Serve
  <1>2. queueWaits' \in Nat /\ chosen \in Channels
    BY <1>1, SendingTyped
  <1>3. ViewsOK'
    BY <1>2 DEF Serve, ViewsOK
  <1> QED
    BY <1>2, <1>3 DEF Serve, loop, attempt, context, RequestOK, Excluded, Ended

LEMMA HitQuotaTyped ==
  ASSUME ViewsOK, RequestOK, Excluded, NEW w \in QueueWaits \cup {0}, HitQuota(w)
  PROVE  ViewsOK' /\ RequestOK' /\ Excluded'
  <1>1. Sending(w)
    BY DEF HitQuota
  <1>2. queueWaits' \in Nat /\ chosen \in Channels
    BY <1>1, SendingTyped
  <1>3. ViewsOK'
    BY <1>2 DEF HitQuota, Ledger!OutOfQuota, ViewsOK
  <1> QED
    BY <1>2, <1>3 DEF HitQuota, loop, attempt, context, RequestOK, Excluded, Ended

LEMMA WaitAndRetryTyped ==
  ASSUME ViewsOK, RequestOK, Excluded, NEW w \in QueueWaits \cup {0}, NEW delay \in Nat,
         WaitAndRetry(w, delay)
  PROVE  ViewsOK' /\ RequestOK' /\ Excluded'
  <1>1. Sending(w)
    BY DEF WaitAndRetry
  <1>2. queueWaits' \in Nat /\ pc = "attempt"
    BY <1>1, SendingTyped
  <1>3. budget' \in 0..Budget /\ retryWaits' \in Nat
    BY DispatchAssumption DEF WaitAndRetry, RequestOK
  <1> QED
    BY <1>2, <1>3 DEF WaitAndRetry, views, loop, attempt, ViewsOK, RequestOK, Excluded

LEMMA OutOfBudgetTyped ==
  ASSUME ViewsOK, RequestOK, Excluded, NEW w \in QueueWaits \cup {0}, NEW delay \in Nat,
         OutOfBudget(w, delay)
  PROVE  ViewsOK' /\ RequestOK' /\ Excluded'
  <1>1. Sending(w) /\ FailOver
    BY DEF OutOfBudget
  <1>2. pc = "attempt" /\ queueWaits' \in Nat /\ chosen \in Channels
        /\ item \in DOMAIN Items
    BY <1>1, SendingTyped
  <1>3. ViewsOK'
    <2>1. Pair(chosen) \in Ledger!Pairs
      BY <1>2, ItemTyped DEF Pair, Model, Ledger!Pairs
    <2> QED
      BY <2>1, FailedWithTyped DEF OutOfBudget
  <1> QED
    BY <1>1, <1>2, <1>3, FailOverTyped DEF OutOfBudget, loop, attempt, RequestOK, Excluded

LEMMA QueueTimeoutTyped ==
  ASSUME ViewsOK, RequestOK, Excluded, NEW w \in QueueWaits \cup {0}, QueueTimeout(w)
  PROVE  ViewsOK' /\ RequestOK' /\ Excluded'
  <1>1. pc = "attempt" /\ FailOver
    BY DEF QueueTimeout
  <1>2. chosen \in Channels /\ item \in DOMAIN Items
    BY <1>1, ItemsDomain DEF RequestOK
  <1>3. budget' \in 0..Budget /\ queueWaits' \in Nat
    BY DispatchAssumption DEF QueueTimeout, RequestOK
  <1>4. ViewsOK'
    <2>1. Pair(chosen) \in Ledger!Pairs
      BY <1>2, ItemTyped DEF Pair, Model, Ledger!Pairs
    <2> QED
      BY <2>1, FailedWithTyped DEF QueueTimeout
  <1> QED
    BY <1>1, <1>3, <1>4, FailOverTyped, SMTT(30) DEF QueueTimeout, loop, attempt, RequestOK, Excluded

LEMMA FailTyped ==
  ASSUME ViewsOK, RequestOK, Excluded, NEW w \in QueueWaits \cup {0}, Fail(w)
  PROVE  ViewsOK' /\ RequestOK' /\ Excluded'
  <1>1. Sending(w)
    BY DEF Fail
  <1>2. queueWaits' \in Nat
    BY <1>1, SendingTyped
  <1> QED
    BY <1>2 DEF Fail, views, loop, attempt, context, ViewsOK, RequestOK, Excluded, Ended

LEMMA AbortTyped ==
  ASSUME ViewsOK, RequestOK, Excluded, Abort
  PROVE  ViewsOK' /\ RequestOK' /\ Excluded'
  BY DEF Abort, views, loop, attempt, context, history, waits, ViewsOK, RequestOK, Excluded, Ended

-----------------------------------------------------------------------------
(* All steps *)

LEMMA StepTyped ==
  ASSUME ViewsOK, RequestOK, Excluded, Step
  PROVE  ViewsOK' /\ RequestOK' /\ Excluded'
  <1>1. CASE SkipItem \/ StartBound \/ Exhausted \/ NoneLeft \/ ChannelExhausted
    BY <1>1, SkipItemTyped, StartBoundTyped, ExhaustedTyped, NoneLeftTyped,
       ChannelExhaustedTyped
  <1>2. ASSUME NEW candidates \in SUBSET Channels, StartPool(candidates)
        PROVE  ViewsOK' /\ RequestOK' /\ Excluded'
    BY <1>2, StartPoolTyped
  <1>3. ASSUME NEW c \in Channels, NEW n \in 0..MaxEndpoints, StartAttempt(c, n)
        PROVE  ViewsOK' /\ RequestOK' /\ Excluded'
    BY <1>3, StartAttemptTyped
  <1>4. ASSUME NEW c \in Channels, Yield(c)
        PROVE  ViewsOK' /\ RequestOK' /\ Excluded'
    BY <1>4, YieldTyped
  <1>5. ASSUME NEW w \in QueueWaits \cup {0}, NEW kind, EndpointFails(w, kind)
        PROVE  ViewsOK' /\ RequestOK' /\ Excluded'
    BY <1>5, EndpointFailsTyped
  <1>6. ASSUME NEW w \in QueueWaits \cup {0},
               EndpointEmpty(w) \/ EndpointIncompatible(w) \/ HitQuota(w)
                 \/ QueueTimeout(w) \/ Fail(w)
        PROVE  ViewsOK' /\ RequestOK' /\ Excluded'
    BY <1>6, EndpointEmptyTyped, EndpointIncompatibleTyped, HitQuotaTyped, QueueTimeoutTyped, FailTyped
  <1>7. ASSUME NEW w \in QueueWaits \cup {0}, NEW recorded \in BOOLEAN, Serve(w, recorded)
        PROVE  ViewsOK' /\ RequestOK' /\ Excluded'
    BY <1>7, ServeTyped
  <1>8. ASSUME NEW w \in QueueWaits \cup {0}, NEW delay \in Nat,
               WaitAndRetry(w, delay) \/ OutOfBudget(w, delay)
        PROVE  ViewsOK' /\ RequestOK' /\ Excluded'
    BY <1>8, WaitAndRetryTyped, OutOfBudgetTyped
  <1>9. DefaultDelay \in Nat /\ \A asked \in RetryAfters : Delay(asked) \in Nat
    BY DelayTyped, DispatchAssumption
  <1> QED
    BY <1>1, <1>2, <1>3, <1>4, <1>5, <1>6, <1>7, <1>8, <1>9 DEF Step

LEMMA NextTyped ==
  ASSUME ViewsOK, RequestOK, Excluded, [Next]_vars
  PROVE  ViewsOK' /\ RequestOK' /\ Excluded'
  <1>1. CASE Elsewhere
    <2>1. ViewsOK'
      BY <1>1, ElsewhereTyped
    <2>2. UNCHANGED <<pc, loop, attempt, context, history>>
      BY <1>1 DEF Elsewhere
    <2> QED
      BY <2>1, <2>2 DEF loop, attempt, context, history, waits, RequestOK, Excluded
  <1>2. CASE UNCHANGED vars
    BY <1>2 DEF vars, views, loop, attempt, context, history, waits, ViewsOK, RequestOK, Excluded
  <1> QED
    BY <1>1, <1>2, StepTyped, AbortTyped DEF Next

LEMMA Typed == Spec => [](ViewsOK /\ RequestOK /\ Excluded)
  <1>1. ViewsOK /\ RequestOK /\ Excluded /\ [Next]_vars
          => (ViewsOK /\ RequestOK /\ Excluded)'
    BY NextTyped
  <1> QED
    BY <1>1, InitTyped, PTL DEF Spec

\* A request's state, and the views as it may find them, are always well formed
\* (dispatcher.py, DispatchContext; model_group_dispatch.py).
THEOREM TypeCorrect == Spec => []TypeOK
  BY Typed, TypeParts, PTL

\* No request, whatever its group and the channels, is ever sent again to a channel
\* it failed over from (dispatcher.py, DispatchContext.tried).
THEOREM NeverBackToFailed == Spec => []NeverBack
  <1>1. Excluded => NeverBack
    BY DEF Excluded, NeverBack
  <1> QED
    BY <1>1, Typed, PTL

-----------------------------------------------------------------------------
(* Waits and attempts *)

\* Every attempt but the last on each excluded channel, and the one under way,
\* has been paid for with a wait of MinDelay or more out of the budget.
Paid ==
  /\ retryWaits <= Budget - budget
  /\ pc \in {"item", "select"} => (attempts - Cardinality(tried)) * MinDelay <= retryWaits
  /\ pc = "attempt" => (attempts - Cardinality(tried) - 1) * MinDelay <= retryWaits
  /\ (attempts - Cardinality(Channels)) * MinDelay <= retryWaits

LEMMA Products ==
  ASSUME NEW a \in Int, NEW m \in Nat
  PROVE  (a + 1) * m = a * m + m
  OBVIOUS

LEMMA Monotone ==
  ASSUME NEW a \in Int, NEW b \in Int, NEW m \in Nat, a <= b
  PROVE  a * m <= b * m
  OBVIOUS

LEMMA Smaller ==
  ASSUME NEW r \in Int, NEW total \in Int, NEW b \in Int, NEW c \in Int,
         r <= total - b, c <= b
  PROVE  r <= total - c
  OBVIOUS

\* The excluded channels are finitely many, and excluding another adds one.
LEMMA TriedCounted ==
  ASSUME RequestOK
  PROVE  /\ Cardinality(tried) \in Nat /\ Cardinality(Channels) \in Nat
         /\ Cardinality(tried) <= Cardinality(Channels)
         /\ \A c \in Channels \ tried :
              /\ Cardinality(tried \cup {c}) = Cardinality(tried) + 1
              /\ Cardinality(tried) + 1 <= Cardinality(Channels)
  <1>1. IsFiniteSet(Channels) /\ tried \subseteq Channels
    BY DispatchAssumption DEF RequestOK
  <1>2. IsFiniteSet(tried) /\ Cardinality(tried) <= Cardinality(Channels)
    BY <1>1, FS_Subset
  <1>3. Cardinality(tried) \in Nat /\ Cardinality(Channels) \in Nat
    BY <1>1, <1>2, FS_CardinalityType
  <1>4. ASSUME NEW c \in Channels \ tried
        PROVE  /\ Cardinality(tried \cup {c}) = Cardinality(tried) + 1
               /\ Cardinality(tried) + 1 <= Cardinality(Channels)
    <2>1. Cardinality(tried \cup {c}) = Cardinality(tried) + 1
      BY <1>2, <1>4, FS_AddElement
    <2>2. tried \cup {c} \subseteq Channels
      BY <1>1, <1>4
    <2>3. Cardinality(tried \cup {c}) <= Cardinality(Channels)
      BY <1>1, <2>2, FS_Subset
    <2> QED
      BY <2>1, <2>3
  <1> QED
    BY <1>2, <1>3, <1>4

\* Steps that neither attempt, exclude nor wait leave the account as it is.
LEMMA NothingSpent ==
  ASSUME RequestOK, Paid, UNCHANGED <<tried, budget, attempts, retryWaits>>,
         \/ pc' = pc
         \/ pc \in {"item", "select"} /\ pc' \in {"item", "select"}
         \/ pc' \in Ended
  PROVE  Paid'
  BY DEF Paid, RequestOK, Ended

LEMMA StartAttemptPaid ==
  ASSUME RequestOK, Paid, NEW c \in Channels, NEW n, StartAttempt(c, n)
  PROVE  Paid'
  <1>1. c \in Channels \ tried /\ pc = "select"
    BY FirstChoiceUntried DEF StartAttempt
  <1>2. /\ pc' = "attempt" /\ attempts' = attempts + 1 /\ tried' = tried
        /\ retryWaits' = retryWaits /\ budget' = budget
    BY DEF StartAttempt, context, waits
  <1>3. attempts \in Nat /\ MinDelay \in Nat /\ retryWaits \in Nat
    BY DispatchAssumption DEF RequestOK
  <1>4. Cardinality(tried) \in Nat /\ Cardinality(Channels) \in Nat
        /\ Cardinality(tried) + 1 <= Cardinality(Channels)
    BY <1>1, TriedCounted
  <1>5. attempts + 1 - Cardinality(tried) - 1 = attempts - Cardinality(tried)
    BY <1>3, <1>4
  <1>6. (attempts' - Cardinality(tried') - 1) * MinDelay <= retryWaits'
    <2>1. (attempts - Cardinality(tried)) * MinDelay <= retryWaits
      BY <1>1 DEF Paid
    <2>2. attempts' - Cardinality(tried') - 1 = attempts + 1 - Cardinality(tried) - 1
      BY <1>2, <1>3, <1>4
    <2> QED
      BY <1>2, <1>5, <2>1, <2>2
  <1>7. (attempts + 1 - Cardinality(Channels)) * MinDelay
          <= (attempts - Cardinality(tried)) * MinDelay
    BY <1>3, <1>4, Monotone
  <1>8. (attempts - Cardinality(tried)) * MinDelay \in Int
        /\ (attempts + 1 - Cardinality(Channels)) * MinDelay \in Int
    BY <1>3, <1>4
  <1>9. (attempts' - Cardinality(Channels)) * MinDelay <= retryWaits'
    <2>1. (attempts - Cardinality(tried)) * MinDelay <= retryWaits
      BY <1>1 DEF Paid
    <2>2. (attempts + 1 - Cardinality(Channels)) * MinDelay <= retryWaits
      BY <1>3, <1>7, <1>8, <2>1
    <2>3. attempts' - Cardinality(Channels) = attempts + 1 - Cardinality(Channels)
      BY <1>2, <1>3, <1>4
    <2> QED
      BY <1>2, <2>2, <2>3
  <1> QED
    BY <1>2, <1>6, <1>9 DEF Paid

LEMMA YieldPaid ==
  ASSUME RequestOK, Paid, NEW c \in Channels, Yield(c)
  PROVE  Paid'
  <1>1. c \in Channels \ tried /\ pc = "select"
    BY FirstChoiceUntried DEF Yield
  <1>2. /\ pc' = "select" /\ attempts' = attempts /\ tried' = tried \cup {c}
        /\ retryWaits' = retryWaits /\ budget' = budget
    BY <1>1 DEF Yield, history, waits
  <1>3. attempts \in Nat /\ MinDelay \in Nat /\ retryWaits \in Nat
    BY DispatchAssumption DEF RequestOK
  <1>4. Cardinality(tried) \in Nat /\ Cardinality(tried') = Cardinality(tried) + 1
    BY <1>1, <1>2, TriedCounted
  <1>5. (attempts - Cardinality(tried')) * MinDelay <= (attempts - Cardinality(tried)) * MinDelay
    BY <1>3, <1>4, Monotone
  <1>6. (attempts - Cardinality(tried')) * MinDelay \in Int
        /\ (attempts - Cardinality(tried)) * MinDelay \in Int
    BY <1>3, <1>4
  <1>7. (attempts - Cardinality(tried')) * MinDelay <= retryWaits
    BY <1>1, <1>3, <1>5, <1>6 DEF Paid
  <1> QED
    BY <1>2, <1>7 DEF Paid

\* Giving a channel up closes the attempt's account.
LEMMA FailOverPaid ==
  ASSUME RequestOK, Excluded, Paid, pc = "attempt", FailOver,
         attempts' = attempts, retryWaits' = retryWaits, budget' \in Nat, budget' <= budget
  PROVE  Paid'
  <1>1. chosen \in Channels \ tried
    BY DEF RequestOK, Excluded
  <1>2. pc' = "select" /\ tried' = tried \cup {chosen}
    BY DEF FailOver
  <1>3. attempts \in Nat /\ retryWaits \in Nat /\ budget \in Nat /\ Budget \in Nat
    BY DispatchAssumption DEF RequestOK
  <1>4. Cardinality(tried) \in Nat /\ Cardinality(tried') = Cardinality(tried) + 1
    BY <1>1, <1>2, TriedCounted
  <1>5. attempts - Cardinality(tried') = attempts - Cardinality(tried) - 1
    BY <1>3, <1>4
  <1>6. (attempts' - Cardinality(tried')) * MinDelay <= retryWaits'
    BY <1>5 DEF Paid
  <1>7. retryWaits' <= Budget - budget'
    <2>1. retryWaits <= Budget - budget
      BY DEF Paid
    <2>2. PICK left \in Nat : left = budget'
      OBVIOUS
    <2>3. left <= budget
      BY <2>2
    <2>4. retryWaits <= Budget - left
      BY <1>3, <2>1, <2>3, Smaller
    <2> QED
      BY <2>2, <2>4
  <1> QED
    BY <1>2, <1>6, <1>7 DEF Paid

LEMMA WaitAndRetryPaid ==
  ASSUME RequestOK, Paid, NEW w, NEW delay \in Nat, MinDelay <= delay, WaitAndRetry(w, delay)
  PROVE  Paid'
  <1>1. pc = "attempt" /\ pc' = "select"
    BY DEF WaitAndRetry, Sending
  <1>2. /\ attempts' = attempts /\ tried' = tried
        /\ retryWaits' = retryWaits + delay /\ budget' = budget - delay
    BY DEF WaitAndRetry
  <1>3. attempts \in Nat /\ MinDelay \in Nat /\ retryWaits \in Nat /\ budget \in Nat
        /\ Budget \in Nat
    BY DispatchAssumption DEF RequestOK
  <1>4. Cardinality(tried) \in Nat /\ Cardinality(Channels) \in Nat
    BY TriedCounted
  <1>5. (attempts - Cardinality(tried)) * MinDelay
          = (attempts - Cardinality(tried) - 1) * MinDelay + MinDelay
    <2> DEFINE a == attempts - Cardinality(tried) - 1
    <2>1. a \in Int /\ a + 1 = attempts - Cardinality(tried)
      BY <1>3, <1>4
    <2>2. (a + 1) * MinDelay = a * MinDelay + MinDelay
      BY <1>3, <2>1, Products
    <2> QED
      BY <2>1, <2>2
  <1>6. (attempts - Cardinality(tried) - 1) * MinDelay \in Int
        /\ (attempts - Cardinality(Channels)) * MinDelay \in Int
    BY <1>3, <1>4
  <1>7. (attempts' - Cardinality(tried')) * MinDelay <= retryWaits'
    BY <1>1, <1>2, <1>3, <1>5, <1>6 DEF Paid
  <1>8. (attempts' - Cardinality(Channels)) * MinDelay <= retryWaits'
    BY <1>2, <1>3, <1>6 DEF Paid
  <1>9. retryWaits' <= Budget - budget'
    BY <1>2, <1>3 DEF Paid
  <1> QED
    BY <1>1, <1>7, <1>8, <1>9 DEF Paid

LEMMA StepPaid ==
  ASSUME RequestOK, Excluded, Paid, Step
  PROVE  Paid'
  <1>1. CASE SkipItem \/ StartBound \/ Exhausted \/ NoneLeft
    BY <1>1, NothingSpent DEF SkipItem, StartBound, Exhausted, NoneLeft, Begin,
         context, history, waits, Ended
  <1>2. ASSUME NEW candidates, StartPool(candidates)
        PROVE  Paid'
    <2>1. PICK kind, some, rest : Begin(kind, some, rest)
      BY <1>2 DEF StartPool
    <2>2. pc = "item"
      BY <1>2 DEF StartPool
    <2> QED
      BY <2>1, <2>2, NothingSpent DEF Begin, context, history, waits
  <1>3. ASSUME NEW c \in Channels, NEW n, StartAttempt(c, n)
        PROVE  Paid'
    BY <1>3, StartAttemptPaid
  <1>4. ASSUME NEW c \in Channels, Yield(c)
        PROVE  Paid'
    BY <1>4, YieldPaid
  <1>5. CASE ChannelExhausted
    BY <1>5, FailOverPaid DEF ChannelExhausted, RequestOK, waits
  <1>6. ASSUME NEW w, NEW kind, EndpointFails(w, kind)
        PROVE  Paid'
    BY <1>6, NothingSpent DEF EndpointFails, context
  <1>7. ASSUME NEW w, EndpointEmpty(w) \/ EndpointIncompatible(w) \/ HitQuota(w) \/ Fail(w)
        PROVE  Paid'
    BY <1>7, NothingSpent DEF EndpointEmpty, EndpointIncompatible, HitQuota, Fail, context, Ended
  <1>8. ASSUME NEW w, NEW recorded, Serve(w, recorded)
        PROVE  Paid'
    BY <1>8, NothingSpent DEF Serve, context, Ended
  <1>9. ASSUME NEW w, NEW delay \in Nat, MinDelay <= delay, WaitAndRetry(w, delay)
        PROVE  Paid'
    BY <1>9, WaitAndRetryPaid
  <1>10. ASSUME NEW w, NEW delay, OutOfBudget(w, delay)
         PROVE  Paid'
    BY <1>10, FailOverPaid DEF OutOfBudget, Sending, RequestOK
  <1>11. ASSUME NEW w \in QueueWaits \cup {0}, QueueTimeout(w)
         PROVE  Paid'
    <2>1. budget' \in Nat /\ budget' <= budget
      BY <1>11, DispatchAssumption DEF QueueTimeout, RequestOK
    <2> QED
      BY <1>11, <2>1, FailOverPaid DEF QueueTimeout
  <1>12. /\ DefaultDelay \in Nat /\ MinDelay <= DefaultDelay
         /\ \A asked \in RetryAfters : Delay(asked) \in Nat /\ MinDelay <= Delay(asked)
    BY DelayTyped, DispatchAssumption
  <1> QED
    BY <1>1, <1>2, <1>3, <1>4, <1>5, <1>6, <1>7, <1>8, <1>9, <1>10, <1>11, <1>12 DEF Step

LEMMA NextPaid ==
  ASSUME RequestOK, Excluded, Paid, [Next]_vars
  PROVE  Paid'
  <1>1. CASE Abort \/ Elsewhere \/ UNCHANGED vars
    BY <1>1, NothingSpent DEF Abort, Elsewhere, vars, context, history, waits, Ended
  <1> QED
    BY <1>1, StepPaid DEF Next

LEMMA InitPaid == Init => Paid
  <1> SUFFICES ASSUME Init PROVE Paid
    OBVIOUS
  <1>1. /\ pc = "item" /\ tried = {} /\ budget = Budget /\ attempts = 0 /\ retryWaits = 0
    BY DEF Init
  <1>2. Cardinality({}) = 0 /\ Cardinality(Channels) \in Nat
    BY DispatchAssumption, FS_EmptySet, FS_CardinalityType
  <1>3. (0 - Cardinality(Channels)) * MinDelay <= 0 * MinDelay
    BY <1>2, DispatchAssumption, Monotone
  <1>4. 0 * MinDelay = 0 /\ (0 - Cardinality({})) * MinDelay = 0 /\ 0 <= Budget - Budget
    BY <1>2, DispatchAssumption
  <1> QED
    BY <1>1, <1>3, <1>4 DEF Paid

LEMMA AlwaysPaid == Spec => [](RequestOK /\ Paid)
  <1>1. RequestOK /\ Excluded /\ Paid /\ [Next]_vars => Paid'
    BY NextPaid
  <1> QED
    BY <1>1, InitPaid, Typed, PTL DEF Spec

\* Waits between retries come out of one budget for the whole request
\* (rate_limiting.py, handle_rate_limit).
THEOREM WaitsBounded == Spec => []RetryWaitsBounded
  <1>1. Paid => RetryWaitsBounded
    BY DEF Paid, RetryWaitsBounded
  <1> QED
    BY <1>1, AlwaysPaid, PTL

\* A request makes at most one attempt per channel and one more for every floor
\* delay its budget pays for (rate_limiting.py, handle_rate_limit; dispatcher.py,
\* _dispatch_loop).
THEOREM RequestGivesUp == Spec => []AttemptsBounded
  <1>1. ASSUME RequestOK, Paid
        PROVE  AttemptsBounded
    <2>1. retryWaits <= Budget
      <3>1. retryWaits <= Budget - budget
        BY <1>1 DEF Paid
      <3> QED
        BY <1>1, <3>1, DispatchAssumption DEF RequestOK
    <2>2. (attempts - Cardinality(Channels)) * MinDelay <= retryWaits
      BY <1>1 DEF Paid
    <2>3. (attempts - Cardinality(Channels)) * MinDelay \in Int /\ retryWaits \in Int
      BY <1>1, TriedCounted, DispatchAssumption, SMTT(30) DEF RequestOK
    <2> QED
      BY <2>1, <2>2, <2>3, DispatchAssumption DEF AttemptsBounded
  <1> QED
    BY <1>1, AlwaysPaid, PTL

-----------------------------------------------------------------------------
(* The send-rate limiter. *)

\* A set of numbers that is not empty has a least one.
LEMMA LeastOf ==
  ASSUME NEW T \in SUBSET Nat, T # {}
  PROVE  \E x \in T : \A y \in T : x <= y
  <1>1. PICK x \in T : \A y \in T : ~(<<y, x>> \in OpToRel(<, Nat))
    BY NatLessThanWellFounded, WFMin, Zenon
  <1>2. \A y \in T : ~(y < x)
    BY <1>1 DEF OpToRel
  <1> QED
    BY <1>2

WindowTyped ==
  /\ now \in Nat /\ window \in Seq(Nat)
  /\ \A i, j \in 1..Len(window) : i <= j => window[i] <= window[j]
  /\ \A i \in 1..Len(window) : window[i] <= now

CallersTyped ==
  /\ DOMAIN caller = Callers
  /\ \A r \in Callers : DOMAIN caller[r] = {"pc", "limit", "deadline", "wake"}
  /\ \A r \in Callers : caller[r].pc = "waiting" =>
       caller[r].limit \in Nat \ {0} /\ caller[r].deadline \in Nat
  /\ limit \in Nat

\* The window holds the last of the permits; those before it have slid out.
WindowSound ==
  /\ granted \in Seq(Nat) /\ allowed \in Nat
  /\ Len(window) <= Len(granted)
  /\ \A i \in 1..Len(window) : window[i] = granted[Len(granted) - Len(window) + i]
  /\ \A i \in 1..Len(granted) - Len(window) : now - granted[i] >= Window

\* So many permits of the window that a caller was turned down for stay in it until
\* its deadline.
DenialsSound ==
  /\ denied \subseteq [deadline: Nat, limit: Nat \ {0}]
  /\ \A d \in denied :
       /\ now < d.deadline /\ d.limit <= Len(window)
       /\ window[Len(window) - d.limit + 1] + Window >= d.deadline

LInv == WindowTyped /\ CallersTyped /\ WindowSound /\ DenialsSound /\ NoBurst

\* What slides out are the permits too old to count, and none that counts.
LEMMA SlidOut ==
  ASSUME WindowTyped
  PROVE  /\ Slid \in 0..Len(window)
         /\ \A i \in 1..Slid : now - window[i] >= Window
         /\ \A i \in Slid + 1..Len(window) : now - window[i] < Window
  <1> DEFINE Young == {i \in 1..Len(window) : now - window[i] < Window}
             IsSlid(k) == /\ \A i \in 1..k : now - window[i] >= Window
                          /\ k < Len(window) => now - window[k + 1] < Window
  <1>1. Len(window) \in Nat /\ \A i \in 1..Len(window) : window[i] \in Nat
    BY DEF WindowTyped
  <1>2. Window \in Nat /\ now \in Nat
    BY RateLimiterAssumption DEF RateLimiterAssumption, WindowTyped
  <1>3. \E k \in 0..Len(window) : IsSlid(k)
    <2>1. CASE Young = {}
      <3>1. Len(window) \in 0..Len(window) /\ IsSlid(Len(window))
        BY <1>1, <1>2, <2>1
      <3> QED
        BY <3>1
    <2>2. CASE Young # {}
      <3>1. Young \in SUBSET Nat
        BY <1>1
      <3> HIDE DEF Young
      <3>2. PICK m \in Young : \A i \in Young : m <= i
        BY <2>2, <3>1, LeastOf
      <3> USE DEF Young
      <3>3. m - 1 \in 0..Len(window) /\ (m - 1) + 1 = m /\ m \in 1..Len(window)
        BY <1>1, <3>2
      <3>4. \A i \in 1..m - 1 : now - window[i] >= Window
        BY <1>1, <1>2, <3>2, <3>3, SMTT(30)
      <3>5. IsSlid(m - 1)
        BY <3>2, <3>3, <3>4
      <3> QED
        BY <3>3, <3>5
    <2> QED
      BY <2>1, <2>2
  <1>4. Slid \in 0..Len(window) /\ IsSlid(Slid)
    BY <1>3 DEF Slid
  <1>5. ASSUME NEW i \in Slid + 1..Len(window) PROVE now - window[i] < Window
    <2>1. Slid + 1 \in 1..Len(window) /\ i \in 1..Len(window) /\ Slid + 1 <= i /\ Slid < Len(window)
      BY <1>1, <1>4
    <2>2. window[Slid + 1] <= window[i] /\ now - window[Slid + 1] < Window
      BY <1>4, <2>1 DEF WindowTyped
    <2> QED
      BY <1>1, <1>2, <2>1, <2>2, SMTT(30)
  <1> QED
    BY <1>4, <1>5

LEMMA CountedIs ==
  ASSUME WindowTyped
  PROVE  /\ Counted \in Seq(Nat) /\ Len(Counted) = Len(window) - Slid
         /\ Slid \in Nat /\ Slid <= Len(window) /\ Len(window) \in Nat
         /\ \A i \in 1..Len(Counted) : Slid + i \in 1..Len(window) /\ Counted[i] = window[Slid + i]
         /\ Counted # <<>> => Head(Counted) = window[Slid + 1]
  <1>1. Slid \in 0..Len(window) /\ window \in Seq(Nat) /\ Len(window) \in Nat
    BY SlidOut DEF WindowTyped
  <1> DEFINE k == Slid
  <1>2. k \in 0..Len(window)
    BY <1>1
  <1> HIDE DEF k
  <1>3. /\ SubSeq(window, k + 1, Len(window)) \in Seq(Nat)
        /\ Len(SubSeq(window, k + 1, Len(window))) = Len(window) - k
        /\ \A i \in 1..Len(window) - k : SubSeq(window, k + 1, Len(window))[i] = window[k + i]
    BY <1>1, <1>2, SMTT(30)
  <1>4. Counted = SubSeq(window, k + 1, Len(window))
    BY DEF Counted, k
  <1>5. Counted \in Seq(Nat) /\ Len(Counted) = Len(window) - k
        /\ \A i \in 1..Len(window) - k : Counted[i] = window[k + i]
    BY <1>3, <1>4
  <1>6. \A i \in 1..Len(Counted) : k + i \in 1..Len(window) /\ Counted[i] = window[k + i]
    <2> TAKE i \in 1..Len(Counted)
    <2>1. i \in 1..Len(window) - k /\ k \in Nat /\ k <= Len(window)
      BY <1>1, <1>2, <1>5
    <2>2. k + i \in 1..Len(window)
      BY <1>1, <2>1
    <2> QED
      BY <1>5, <2>1, <2>2
  <1>7. Counted # <<>> => Head(Counted) = Counted[1] /\ 1 \in 1..Len(Counted)
    BY <1>5
  <1> QED
    BY <1>1, <1>2, <1>5, <1>6, <1>7 DEF k

\* What is left says of the permits and the denials what the whole window did.
LEMMA CountedSound ==
  ASSUME LInv
  PROVE  /\ \A i, j \in 1..Len(Counted) : i <= j => Counted[i] <= Counted[j]
         /\ \A i \in 1..Len(Counted) : Counted[i] <= now
         /\ Len(Counted) <= Len(granted)
         /\ \A i \in 1..Len(Counted) : Counted[i] = granted[Len(granted) - Len(Counted) + i]
         /\ \A i \in 1..Len(granted) - Len(Counted) : now - granted[i] >= Window
         /\ \A d \in denied : d.limit <= Len(Counted)
                              /\ Counted[Len(Counted) - d.limit + 1] + Window >= d.deadline
  <1>1. WindowTyped /\ WindowSound /\ DenialsSound
    BY DEF LInv
  <1>2. /\ Counted \in Seq(Nat) /\ Len(Counted) = Len(window) - Slid
        /\ Slid \in Nat /\ Slid <= Len(window) /\ Len(window) \in Nat
        /\ \A i \in 1..Len(Counted) : Slid + i \in 1..Len(window) /\ Counted[i] = window[Slid + i]
    BY <1>1, CountedIs
  <1>3. /\ \A i \in 1..Slid : now - window[i] >= Window
        /\ Len(Counted) \in Nat /\ Len(granted) \in Nat
    BY <1>1, <1>2, SlidOut DEF WindowSound
  <1> DEFINE k == Slid
             n == Len(Counted)
             w == Len(window)
             g == Len(granted)
  <1>4. n = w - k /\ k \in Nat /\ w \in Nat /\ g \in Nat /\ n \in Nat /\ w <= g /\ k <= w
    BY <1>1, <1>2, <1>3 DEF WindowSound
  <1>5. \A i \in 1..n : k + i \in 1..w /\ Counted[i] = window[k + i]
    BY <1>2
  <1>6. /\ \A i \in 1..w : window[i] = granted[g - w + i]
        /\ \A i \in 1..g - w : now - granted[i] >= Window
        /\ \A i \in 1..k : now - window[i] >= Window
    BY <1>1, <1>3 DEF WindowSound
  <1>7. \A i, j \in 1..w : i <= j => window[i] <= window[j]
    BY <1>1 DEF WindowTyped
  <1>8. \A i \in 1..w : window[i] <= now /\ window[i] \in Nat
    BY <1>1, SMTT(30) DEF WindowTyped
  <1> HIDE DEF k, n, w, g
  <1>9. \A i, j \in 1..n : i <= j => Counted[i] <= Counted[j]
    <2> TAKE i, j \in 1..n
    <2> HAVE i <= j
    <2>1. k + i \in 1..w /\ k + j \in 1..w /\ k + i <= k + j
      BY <1>4, <1>5
    <2> QED
      BY <1>5, <1>7, <2>1
  <1>10. \A i \in 1..n : Counted[i] <= now
    BY <1>5, <1>8
  <1>11. \A i \in 1..n : Counted[i] = granted[g - n + i]
    <2> TAKE i \in 1..n
    <2>1. k + i \in 1..w /\ g - w + (k + i) = g - n + i
      BY <1>4, <1>5
    <2> QED
      BY <1>5, <1>6, <2>1
  <1>12. \A i \in 1..g - n : now - granted[i] >= Window
    <2> TAKE i \in 1..g - n
    <2>1. CASE i \in 1..g - w
      BY <1>6, <2>1
    <2>2. CASE i \notin 1..g - w
      <3>1. i - (g - w) \in 1..k /\ i - (g - w) \in 1..w /\ g - w + (i - (g - w)) = i
        BY <1>4, <2>2
      <3>2. window[i - (g - w)] = granted[i]
        BY <1>6, <3>1
      <3> QED
        BY <1>6, <3>1, <3>2
    <2> QED
      BY <2>1, <2>2
  <1>13. ASSUME NEW d \in denied
         PROVE  d.limit <= n /\ Counted[n - d.limit + 1] + Window >= d.deadline
    <2>1. /\ now < d.deadline /\ d.limit <= w /\ d.limit \in Nat \ {0} /\ d.deadline \in Nat
          /\ window[w - d.limit + 1] + Window >= d.deadline
      BY <1>1 DEF DenialsSound, w
    <2>2. w - d.limit + 1 \in 1..w
      BY <1>4, <2>1
    <2>3. Window \in Nat /\ now \in Nat /\ window[w - d.limit + 1] \in Nat
      BY <1>1, <1>8, <2>2, RateLimiterAssumption DEF RateLimiterAssumption, WindowTyped
    <2>4. ~(w - d.limit + 1 \in 1..k)
      BY <1>6, <2>1, <2>3
    <2>5. d.limit <= n /\ n - d.limit + 1 \in 1..n /\ k + (n - d.limit + 1) = w - d.limit + 1
      BY <1>4, <2>1, <2>2, <2>4
    <2> QED
      BY <1>5, <2>1, <2>5
  <1>14. n <= g
    BY <1>4
  <1> QED
    BY <1>9, <1>10, <1>11, <1>12, <1>13, <1>14 DEF n, g

LEMMA TrimmedStep ==
  ASSUME LInv, window' = Counted, UNCHANGED <<now, granted, allowed>>
  PROVE  WindowTyped' /\ WindowSound'
  <1>1. WindowTyped /\ WindowSound /\ DenialsSound /\ Counted \in Seq(Nat)
    BY CountedIs DEF LInv
  <1>2. WindowTyped'
    BY <1>1, CountedSound DEF WindowTyped
  <1>3. WindowSound'
    BY <1>1, CountedSound DEF WindowSound
  <1> QED
    BY <1>2, <1>3

LEMMA TrimStep ==
  ASSUME LInv, window' = Counted, UNCHANGED <<now, granted, allowed, denied>>
  PROVE  WindowTyped' /\ WindowSound' /\ DenialsSound'
  <1>1. DenialsSound'
    BY CountedSound DEF LInv, DenialsSound
  <1> QED
    BY <1>1, TrimmedStep

\* A permit is given only if fewer than the caller's limit were given within a
\* window: the one so many before it has slid out.
LEMMA GrantStep == ASSUME LInv, NEW r \in Callers, Grant(r) PROVE LInv'
  <1> DEFINE n == Len(Counted)
             g == Len(granted)
             c == caller[r].limit
  <1>1. /\ WindowTyped /\ CallersTyped /\ WindowSound /\ DenialsSound
        /\ caller[r].pc = "waiting" /\ c \in Nat \ {0} /\ n < c
        /\ window' = Append(Counted, now) /\ granted' = Append(granted, now) /\ allowed' = c
        /\ caller' = [caller EXCEPT ![r] = NotCalling]
        /\ UNCHANGED <<now, limit, denied>>
    BY DEF LInv, Grant, Look, CallersTyped
  <1>2. /\ Counted \in Seq(Nat) /\ granted \in Seq(Nat) /\ now \in Nat /\ n \in Nat /\ g \in Nat /\ n <= g
        /\ Window \in Nat
    BY <1>1, CountedIs, CountedSound, RateLimiterAssumption
       DEF WindowTyped, WindowSound, RateLimiterAssumption
  <1>3. /\ window' \in Seq(Nat) /\ Len(window') = n + 1 /\ window'[n + 1] = now
        /\ \A i \in 1..n : window'[i] = Counted[i]
    BY <1>1, <1>2
  <1>4. /\ granted' \in Seq(Nat) /\ Len(granted') = g + 1 /\ granted'[g + 1] = now
        /\ \A i \in 1..g : granted'[i] = granted[i]
    BY <1>1, <1>2
  <1>5. /\ \A i, j \in 1..n : i <= j => Counted[i] <= Counted[j]
        /\ \A i \in 1..n : Counted[i] <= now
        /\ \A i \in 1..n : Counted[i] = granted[g - n + i]
        /\ \A i \in 1..g - n : now - granted[i] >= Window
        /\ \A d \in denied : d.limit <= n /\ Counted[n - d.limit + 1] + Window >= d.deadline
    BY CountedSound
  <1>a. n \in Nat /\ g \in Nat /\ n <= g /\ now \in Nat /\ Window \in Nat /\ c \in Nat \ {0} /\ n < c
    BY <1>1, <1>2
  <1>b. /\ \A i \in 1..n : Counted[i] \in Nat /\ Counted[i] <= now /\ window'[i] = Counted[i]
        /\ \A i \in 1..g : granted[i] \in Nat /\ granted'[i] = granted[i]
    <2>1. /\ \A i \in 1..n : Counted[i] \in Nat
          /\ \A i \in 1..g : granted[i] \in Nat
      BY <1>2, SMTT(30)
    <2> HIDE DEF n, g, c
    <2> QED
      BY <1>3, <1>4, <1>5, <2>1
  <1>c. /\ window' \in Seq(Nat) /\ Len(window') = n + 1 /\ window'[n + 1] = now
        /\ granted' \in Seq(Nat) /\ Len(granted') = g + 1 /\ granted'[g + 1] = now
    BY <1>3, <1>4
  <1> HIDE DEF n, g, c
  <1>6. WindowTyped'
    <2>1. \A i, j \in 1..n + 1 : i <= j => window'[i] <= window'[j]
      <3> TAKE i, j \in 1..n + 1
      <3>1. CASE j = n + 1
        <4>1. i = n + 1 \/ i \in 1..n
          BY <1>2
        <4>2. window'[i] <= now
          BY <1>a, <1>b, <1>c, <4>1, SMTT(30)
        <4> QED
          BY <1>c, <3>1, <4>2
      <3>2. CASE i <= j /\ j # n + 1
        <4>1. i \in 1..n /\ j \in 1..n
          BY <1>2, <3>2
        <4> QED
          BY <1>3, <1>5, <4>1
      <3> QED
        BY <3>1, <3>2
    <2>2. \A i \in 1..n + 1 : window'[i] <= now
      <3> TAKE i \in 1..n + 1
      <3>1. i = n + 1 \/ i \in 1..n
        BY <1>a
      <3> QED
        BY <1>a, <1>b, <1>c, <3>1, SMTT(30)
    <2> QED
      BY <1>1, <1>2, <1>3, <2>1, <2>2 DEF WindowTyped
  <1>7. WindowSound'
    <2>1. \A i \in 1..n + 1 : window'[i] = granted'[(g + 1) - (n + 1) + i]
      <3> TAKE i \in 1..n + 1
      <3>1. CASE i = n + 1
        <4>1. (g + 1) - (n + 1) + i = g + 1
          BY <1>2, <3>1
        <4> QED
          BY <1>3, <1>4, <3>1, <4>1
      <3>2. CASE i # n + 1
        <4>1. i \in 1..n /\ (g + 1) - (n + 1) + i = g - n + i /\ g - n + i \in 1..g
          BY <1>2, <3>2
        <4> QED
          BY <1>3, <1>4, <1>5, <4>1
      <3> QED
        BY <3>1, <3>2
    <2>2. \A i \in 1..(g + 1) - (n + 1) : now - granted'[i] >= Window
      <3> TAKE i \in 1..(g + 1) - (n + 1)
      <3>1. i \in 1..g /\ i \in 1..g - n
        BY <1>a
      <3> QED
        BY <1>5, <1>b, <3>1
    <2>3. allowed' \in Nat /\ n + 1 <= g + 1
      BY <1>1, <1>2
    <2> QED
      BY <1>1, <1>3, <1>4, <2>1, <2>2, <2>3, ZenonT(60) DEF WindowSound
  <1>8. DenialsSound'
    <2>1. ASSUME NEW d \in denied
          PROVE  d.limit <= n + 1 /\ window'[(n + 1) - d.limit + 1] + Window >= d.deadline
      <3>1. /\ d.limit \in Nat \ {0} /\ d.deadline \in Nat /\ d.limit <= n
            /\ Counted[n - d.limit + 1] + Window >= d.deadline
        BY <1>1, <1>5 DEF DenialsSound
      <3>0. PICK q \in Nat \ {0} : q = d.limit /\ q <= n
        BY <3>1
      <3>2. n - q + 1 \in 1..n
        BY <1>a, <3>0
      <3>5. Counted[n - q + 1] <= now /\ Counted[n - q + 1] \in Nat
        BY <1>b, <3>2
      <3>3. CASE d.limit = 1
        <4>1. (n + 1) - q + 1 = n + 1 /\ q <= n + 1
          BY <1>a, <3>0, <3>3
        <4>2. window'[(n + 1) - q + 1] = now
          BY <1>c, <4>1
        <4> QED
          BY <1>a, <3>0, <3>1, <3>5, <4>1, <4>2
      <3>4. CASE d.limit # 1
        <4>1. n - q + 2 \in 1..n /\ (n + 1) - q + 1 = n - q + 2 /\ n - q + 1 <= n - q + 2 /\ q <= n + 1
          BY <1>a, <3>0, <3>4
        <4>2. Counted[n - q + 1] <= Counted[n - q + 2] /\ Counted[n - q + 2] \in Nat
          BY <1>5, <1>b, <3>2, <4>1
        <4>3. window'[(n + 1) - q + 1] = Counted[n - q + 2]
          BY <1>b, <4>1
        <4> QED
          BY <1>a, <3>0, <3>1, <3>5, <4>1, <4>2, <4>3
      <3> QED
        BY <3>3, <3>4
    <2> QED
      BY <1>1, <1>3, <2>1 DEF DenialsSound
  <1>9. CallersTyped'
    BY <1>1 DEF CallersTyped, NotCalling
  <1>10. NoBurst'
    <2>1. ASSUME g + 1 > c PROVE now - granted'[(g + 1) - c] >= Window
      <3>1. (g + 1) - c \in 1..g - n /\ (g + 1) - c \in 1..g
        BY <1>a, <2>1
      <3> QED
        BY <1>5, <1>b, <3>1
    <2>2. Len(granted') = g + 1 /\ granted'[g + 1] = now /\ allowed' = c
      BY <1>1, <1>c
    <2> QED
      BY <2>1, <2>2 DEF NoBurst
  <1> QED
    BY <1>6, <1>7, <1>8, <1>9, <1>10 DEF LInv

\* Whoever is turned down asked for more than stays in the window until its deadline.
LEMMA TurnDownStep == ASSUME LInv, NEW r \in Callers, TurnDown(r) PROVE LInv'
  <1> DEFINE n == Len(Counted)
             c == caller[r].limit
             e == caller[r].deadline
  <1>1. /\ WindowTyped /\ CallersTyped /\ WindowSound /\ DenialsSound /\ NoBurst
        /\ c \in Nat \ {0} /\ e \in Nat /\ n >= c /\ NextFree >= e
        /\ window' = Counted
        /\ caller' = [caller EXCEPT ![r] = NotCalling]
        /\ denied' = Pending(denied \cup {[deadline |-> e, limit |-> c]}, now)
        /\ UNCHANGED <<now, limit, granted, allowed>>
    BY DEF LInv, TurnDown, Look, CallersTyped
  <1>2. WindowTyped' /\ WindowSound'
    BY <1>1, TrimmedStep
  <1>3. CallersTyped' /\ NoBurst'
    BY <1>1 DEF CallersTyped, NotCalling, NoBurst
  <1>4. DenialsSound'
    <2>1. ASSUME NEW d \in denied'
          PROVE  /\ d \in [deadline: Nat, limit: Nat \ {0}]
                 /\ now < d.deadline /\ d.limit <= n
                 /\ Counted[n - d.limit + 1] + Window >= d.deadline
      <3>1. now < d.deadline /\ (d \in denied \/ d = [deadline |-> e, limit |-> c])
        BY <1>1 DEF Pending
      <3>2. CASE d \in denied
        BY <1>1, <3>1, <3>2, CountedSound DEF DenialsSound
      <3>3. CASE d = [deadline |-> e, limit |-> c]
        <4>1. d \in [deadline: Nat, limit: Nat \ {0}] /\ d.limit = c /\ d.deadline = e
          BY <1>1, <3>3
        <4>2. /\ Counted \in Seq(Nat) /\ n \in Nat
              /\ \A i, j \in 1..n : i <= j => Counted[i] <= Counted[j]
          BY <1>1, CountedIs, CountedSound
        <4>3. 1 \in 1..n /\ Counted # <<>> /\ Counted[1] \in Nat /\ Window \in Nat
          BY <1>1, <4>2, RateLimiterAssumption DEF RateLimiterAssumption
        <4>4. NextFree = Counted[1] + Window
          BY <4>2, <4>3 DEF NextFree
        <4> HIDE DEF n, c, e
        <4>5. n - c + 1 \in 1..n /\ 1 <= n - c + 1
          BY <1>1, <4>2
        <4>6. Counted[n - c + 1] \in Nat /\ Counted[1] <= Counted[n - c + 1]
          BY <4>2, <4>3, <4>5 DEF n
        <4>7. Counted[n - c + 1] + Window >= e
          BY <1>1, <4>3, <4>4, <4>6, SMTT(30)
        <4> QED
          BY <1>1, <3>1, <4>1, <4>7
      <3> QED
        BY <3>1, <3>2, <3>3
    <2> HIDE DEF n, c, e
    <2>2. /\ denied' \subseteq [deadline: Nat, limit: Nat \ {0}]
          /\ \A d \in denied' :
               /\ now < d.deadline /\ d.limit <= n
               /\ Counted[n - d.limit + 1] + Window >= d.deadline
      BY <2>1
    <2>3. now' = now /\ window' = Counted /\ Len(window') = n
      BY <1>1 DEF n
    <2> QED
      BY <2>2, <2>3 DEF DenialsSound
  <1> QED
    BY <1>2, <1>3, <1>4 DEF LInv

LEMMA SleepStep == ASSUME LInv, NEW r \in Callers, Sleep(r) PROVE LInv'
  <1>1. /\ CallersTyped /\ NoBurst /\ window' = Counted
        /\ UNCHANGED <<now, limit, granted, allowed, denied>>
        /\ \E w : caller' = [caller EXCEPT ![r].wake = w]
    BY DEF LInv, Sleep, Look, given
  <1>2. WindowTyped' /\ WindowSound' /\ DenialsSound'
    BY <1>1, TrimStep
  <1>3. CallersTyped'
    BY <1>1 DEF CallersTyped
  <1>4. NoBurst'
    BY <1>1 DEF NoBurst
  <1> QED
    BY <1>2, <1>3, <1>4 DEF LInv

\* A caller comes with the limit of that moment, or goes; the limit changes.
LEMMA CallStep ==
  ASSUME LInv, NEW r \in Callers, NEW timeout \in Timeouts, Call(r, timeout) PROVE LInv'
  <1>1. WindowTyped' /\ WindowSound' /\ DenialsSound' /\ NoBurst'
    BY DEF LInv, Call, given, WindowTyped, WindowSound, DenialsSound, NoBurst
  <1>2. CallersTyped'
    BY RateLimiterAssumption
       DEF LInv, Call, given, WindowTyped, CallersTyped, RateLimiterAssumption
  <1> QED
    BY <1>1, <1>2 DEF LInv

LEMMA CancelStep == ASSUME LInv, NEW r \in Callers, Cancel(r) PROVE LInv'
  BY DEF LInv, Cancel, NotCalling, given, WindowTyped, WindowSound, DenialsSound,
         NoBurst, CallersTyped

LEMMA ReconfigureStep ==
  ASSUME LInv, NEW n \in Limits, Reconfigure(n) PROVE LInv'
  BY RateLimiterAssumption
     DEF LInv, Reconfigure, given, WindowTyped, WindowSound, DenialsSound, NoBurst,
         CallersTyped, RateLimiterAssumption

LEMMA RemoveKeyStep == ASSUME LInv, RemoveKey PROVE LInv'
  <1>1. window' = <<>> /\ granted' = <<>> /\ allowed' = 0 /\ denied' = {}
        /\ UNCHANGED <<now, limit, caller>>
    BY DEF RemoveKey
  <1>2. Len(window') = 0 /\ Len(granted') = 0 /\ window' \in Seq(Nat) /\ granted' \in Seq(Nat)
    BY <1>1
  <1> QED
    BY <1>1, <1>2 DEF LInv, WindowTyped, WindowSound, DenialsSound, NoBurst, CallersTyped

\* Time lets permits slide out and denials come to their end, and nothing else.
LEMMA TickStep == ASSUME LInv, Tick PROVE LInv'
  <1>1. /\ WindowTyped /\ CallersTyped /\ WindowSound /\ DenialsSound /\ NoBurst
        /\ now \in Nat /\ now' = now + 1 /\ denied' = Pending(denied, now + 1)
        /\ UNCHANGED <<limit, window, caller, granted, allowed>>
    BY DEF LInv, Tick, WindowTyped
  <1>2. WindowTyped'
    <2>1. \A i \in 1..Len(window) : window[i] \in Nat /\ window[i] <= now + 1
      BY <1>1 DEF WindowTyped
    <2> QED
      BY <1>1, <2>1 DEF WindowTyped
  <1>3. WindowSound'
    <2>1. \A i \in 1..Len(granted) - Len(window) : (now + 1) - granted[i] >= Window
      <3> TAKE i \in 1..Len(granted) - Len(window)
      <3>1. i \in 1..Len(granted) /\ now - granted[i] >= Window /\ Window \in Nat
        BY <1>1, RateLimiterAssumption DEF WindowTyped, WindowSound, RateLimiterAssumption
      <3>2. granted[i] \in Nat
        BY <1>1, <3>1, SMTT(30) DEF WindowSound
      <3> QED
        BY <1>1, <3>1, <3>2, SMTT(30)
    <2> QED
      BY <1>1, <2>1 DEF WindowSound
  <1>4. DenialsSound'
    BY <1>1 DEF DenialsSound, Pending
  <1>5. CallersTyped' /\ NoBurst'
    BY <1>1 DEF CallersTyped, NoBurst
  <1> QED
    BY <1>2, <1>3, <1>4, <1>5 DEF LInv

LEMMA LimiterInvariant == LimiterSpec => []LInv
  <1>1. ASSUME LimiterInit PROVE LInv
    <2>1. Len(window) = 0 /\ Len(granted) = 0 /\ window \in Seq(Nat) /\ granted \in Seq(Nat)
      BY <1>1 DEF LimiterInit
    <2> QED
      BY <1>1, <2>1, RateLimiterAssumption
         DEF LimiterInit, LInv, WindowTyped, WindowSound, DenialsSound, NoBurst,
             CallersTyped, NotCalling, RateLimiterAssumption
  <1>2. ASSUME LInv, [LimiterNext]_limiterVars PROVE LInv'
    <2>1. CASE Tick
      BY <1>2, <2>1, TickStep
    <2>2. ASSUME NEW r \in Callers, Answer(r) PROVE LInv'
      BY <1>2, <2>2, GrantStep, TurnDownStep, SleepStep DEF Answer
    <2>3. ASSUME NEW r \in Callers, Cancel(r) PROVE LInv'
      BY <1>2, <2>3, CancelStep
    <2>4. ASSUME NEW r \in Callers, NEW timeout \in Timeouts, Call(r, timeout) PROVE LInv'
      BY <1>2, <2>4, CallStep
    <2>5. ASSUME NEW n \in Limits, Reconfigure(n) PROVE LInv'
      BY <1>2, <2>5, ReconfigureStep
    <2>6. CASE RemoveKey
      BY <1>2, <2>6, RemoveKeyStep
    <2>7. CASE UNCHANGED limiterVars
      BY <1>2, <2>7 DEF limiterVars, given, LInv, WindowTyped, WindowSound, DenialsSound,
                        NoBurst, CallersTyped
    <2> QED
      BY <1>2, <2>1, <2>2, <2>3, <2>4, <2>5, <2>6, <2>7 DEF LimiterNext
  <1> QED
    BY <1>1, <1>2, PTL DEF LimiterSpec

\* However callers race, poll, give up and see different limits, a channel never gets
\* more requests in a window than the last one's caller was allowed: the permits that
\* slid out of the window are those that no window can hold any more
\* (rate_limiter.py, acquire).
THEOREM ChannelsAreNeverRushed == LimiterSpec => []NoBurst
  <1>1. LInv => NoBurst
    BY DEF LInv
  <1> QED
    BY <1>1, LimiterInvariant, PTL

\* A caller is told at once that it would wait in vain only if it would: as many
\* permits as it was allowed stay in the window until its deadline, whoever
\* else gets one (rate_limiter.py, acquire).
THEOREM DenialsAreDue == LimiterSpec => []NotDeniedInVain
  <1>1. LInv => NotDeniedInVain
    BY CountedSound DEF NotDeniedInVain
  <1> QED
    BY <1>1, LimiterInvariant, PTL
=============================================================================
