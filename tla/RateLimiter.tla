----------------------------- MODULE RateLimiter -----------------------------
(***************************************************************************)
(* The sliding-window limiter in front of one channel (rate_limiter.py):   *)
(* concurrent callers of acquire, each with its own time limit, polling    *)
(* for a permit to slide out of the window.                                *)
(*                                                                         *)
(* What happens inside the limiter's lock is one step.  The event loop may *)
(* resume a sleeper any time after it is due, and callers in any order.    *)
(***************************************************************************)
EXTENDS Integers, Sequences

CONSTANTS
  Callers,
  Limits,        \* requests per window an administrator can set (0: unlimited)
  Window,        \* length of the window (60 s)
  Poll,          \* longest sleep between two looks (0.5 s)
  Timeouts,      \* wait_timeout of a call
  MaxTime        \* bound on the clock

ASSUME RateLimiterAssumption ==
  /\ Limits \subseteq Nat
  /\ Window \in Nat \ {0} /\ Poll \in Nat \ {0}
  /\ Timeouts \subseteq Nat
  /\ MaxTime \in Nat

VARIABLES
  now,           \* the monotonic clock
  limit,         \* the channel's rate_limit_rpm
  window,        \* _windows[key]: times of the permits still counted
  caller,        \* per caller: [pc, limit, deadline, wake]
  granted,       \* history: times of the permits since the last reset
  allowed,       \* history: the limit of the caller who got the last of them
  denied         \* history: [deadline, limit] of denials since then whose
                 \* deadline is yet to come

given == <<granted, allowed, denied>>
limiterVars == <<now, limit, window, caller, given>>

NotCalling == [pc |-> "out", limit |-> 0, deadline |-> 0, wake |-> 0]

\* How many permits slide out: from the left, up to the first that still counts.
Slid == CHOOSE k \in 0..Len(window) :
  /\ \A i \in 1..k : now - window[i] >= Window
  /\ k < Len(window) => now - window[k + 1] < Window

Counted == SubSeq(window, Slid + 1, Len(window))
\* Faulty: looks at the latest permit.
NextFreeOfLast == Counted[Len(Counted)] + Window

\* When the earliest permit slides out.
NextFree == Head(Counted) + Window

Pending(set, time) == {d \in set : time < d.deadline}

-----------------------------------------------------------------------------
\* The caller reads the channel's limit once, when it calls.
Call(r, timeout) ==
  /\ caller[r].pc = "out"
  /\ limit > 0
  /\ caller' = [caller EXCEPT ![r] =
       [pc |-> "waiting", limit |-> limit, deadline |-> now + timeout, wake |-> now]]
  /\ UNCHANGED <<now, limit, window, given>>

Look(r) ==
  /\ caller[r].pc = "waiting"
  /\ caller[r].wake <= now
\* Faulty: one permit too many.
GrantOneOver(r) ==
  /\ Look(r)
  /\ Len(Counted) <= caller[r].limit
  /\ window' = Append(Counted, now)
  /\ granted' = Append(granted, now) /\ allowed' = caller[r].limit
  /\ caller' = [caller EXCEPT ![r] = NotCalling]
  /\ UNCHANGED <<now, limit, denied>>

Grant(r) ==
  /\ Look(r)
  /\ Len(Counted) < caller[r].limit
  /\ window' = Append(Counted, now)
  /\ granted' = Append(granted, now) /\ allowed' = caller[r].limit
  /\ caller' = [caller EXCEPT ![r] = NotCalling]
  /\ UNCHANGED <<now, limit, denied>>

\* No permit will be free before the deadline.
TurnDown(r) ==
  /\ Look(r)
  /\ Len(Counted) >= caller[r].limit
  /\ NextFree >= caller[r].deadline
  /\ window' = Counted
  /\ caller' = [caller EXCEPT ![r] = NotCalling]
  /\ denied' = Pending(denied \cup {[deadline |-> caller[r].deadline,
                                    limit |-> caller[r].limit]}, now)
  /\ UNCHANGED <<now, limit, granted, allowed>>

Sleep(r) ==
  /\ Look(r)
  /\ Len(Counted) >= caller[r].limit
  /\ NextFree < caller[r].deadline
  /\ window' = Counted
  /\ caller' = [caller EXCEPT ![r].wake =
       IF NextFree - now < Poll THEN NextFree ELSE now + Poll]
  /\ UNCHANGED <<now, limit, given>>

\* The request is cancelled while it sleeps.
Cancel(r) ==
  /\ caller[r].pc = "waiting"
  /\ caller' = [caller EXCEPT ![r] = NotCalling]
  /\ UNCHANGED <<now, limit, window, given>>

Reconfigure(n) ==
  /\ limit' = n
  /\ UNCHANGED <<now, window, caller, given>>

\* The channel is deleted: its window goes, whoever is waiting stays.
RemoveKey ==
  /\ window' = <<>>
  /\ granted' = <<>> /\ allowed' = 0
  /\ denied' = {}
  /\ UNCHANGED <<now, limit, caller>>

Tick ==
  /\ now < MaxTime
  /\ now' = now + 1
  /\ denied' = Pending(denied, now')
  /\ UNCHANGED <<limit, window, caller, granted, allowed>>

-----------------------------------------------------------------------------
LimiterInit ==
  /\ now = 0
  /\ limit \in Limits
  /\ window = <<>>
  /\ caller = [r \in Callers |-> NotCalling]
  /\ granted = <<>> /\ allowed = 0
  /\ denied = {}

Answer(r) == Grant(r) \/ TurnDown(r) \/ Sleep(r)

LimiterNext ==
  \/ Tick
  \/ \E r \in Callers :
       \/ Answer(r) \/ Cancel(r)
       \/ \E timeout \in Timeouts : Call(r, timeout)
  \/ \E n \in Limits : Reconfigure(n)
  \/ RemoveKey

LimiterSpec == LimiterInit /\ [][LimiterNext]_limiterVars

-----------------------------------------------------------------------------
(* Properties *)

\* However callers race, poll, give up and see different limits, no more requests
\* are let through in any window that ends with a permit than that permit's
\* caller was allowed (rate_limiter.py, module comment).
NoBurst ==
  LET j == Len(granted) IN
  j > allowed => granted[j] - granted[j - allowed] >= Window

\* A caller was turned down only if, had it waited, it would not have got a permit
\* in time: whatever came after, the window stays full until its deadline
\* (rate_limiter.py, acquire).
NotDeniedInVain ==
  \A d \in denied : Len(Counted) >= d.limit
=============================================================================
