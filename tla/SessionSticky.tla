--------------------------- MODULE SessionSticky ---------------------------
(***************************************************************************)
(* The session cache (proxy/outcomes.py) behind the sticky strategy of the *)
(* balancer: an insertion-ordered map from session fingerprints to a       *)
(* channel and the time of its last use; a use moves the entry to the end. *)
(* It forgets by expiry (lazily, and a batch at a time on each write), by  *)
(* capacity (from the front), by channel and on reconfiguration.           *)
(*                                                                         *)
(* Operators on the cache; LoadBalancer is who uses them.                  *)
(***************************************************************************)
EXTENDS Integers, Sequences

CONSTANTS
  TrimBatch,     \* expired entries one write may drop (100)
  MaxTime        \* bound on the clock

ASSUME SessionStickyAssumption == TrimBatch \in Nat \ {0} /\ MaxTime \in Nat

VARIABLES
  now,           \* the wall clock
  cache,         \* _session_sticky: entries, least recently used first
  limits,        \* _session_sticky_ttl and _session_sticky_max_entries
  uses           \* history: what a plain LRU cache without expiry would hold

stickyVars == <<now, cache, limits, uses>>

EntriesOf(s)     == {s[i] : i \in DOMAIN s}
KeysOf(s)        == {s[i].key : i \in DOMAIN s}
EntryOf(s, k)    == s[CHOOSE i \in DOMAIN s : s[i].key = k]

\* The entries of s that are in the set, in their order.
Keep(s, set) ==
  LET kept[i \in 0..Len(s)] ==
        IF i = 0 THEN <<>>
        ELSE IF s[i] \in set THEN Append(kept[i - 1], s[i]) ELSE kept[i - 1]
  IN kept[Len(s)]

Without(s, k)    == Keep(s, {e \in EntriesOf(s) : e.key # k})
LastOf(s, n)     == IF Len(s) <= n THEN s ELSE SubSeq(s, Len(s) - n + 1, Len(s))
Use(s, k, c)     == Append(Without(s, k), [key |-> k, ch |-> c, at |-> now])
ForgetIn(s, c)   == Keep(s, {e \in EntriesOf(s) : e.ch # c})

Expired(e, ttl)  == now - e.at >= ttl

Bound(k) == k \in KeysOf(cache) /\ ~Expired(EntryOf(cache, k), limits.ttl)

\* Drop the first TrimBatch expired entries, then the oldest beyond capacity.
Trimmed(s, lim) ==
  LET stale == Keep(s, {e \in EntriesOf(s) : Expired(e, lim.ttl)})
      batch == KeysOf(SubSeq(stale, 1, IF Len(stale) < TrimBatch THEN Len(stale)
                                                                 ELSE TrimBatch))
  IN LastOf(Keep(s, {e \in EntriesOf(s) : e.key \notin batch}), lim.capacity)

\* Faulty: a lookup does not count as a use.
AfterGetUntouched(k) == IF Bound(k) THEN cache ELSE Without(cache, k)

\* session_sticky_get: an expired entry is dropped, a live one is touched.
AfterGet(k) ==
  IF Bound(k) THEN Use(cache, k, EntryOf(cache, k).ch) ELSE Without(cache, k)

\* session_sticky_get for session k, and remember_session_sticky if the choice
\* is another than the one remembered.
Remember(k, c) ==
  /\ cache' = IF Bound(k) /\ EntryOf(cache, k).ch = c
              THEN AfterGet(k)
              ELSE Trimmed(Use(AfterGet(k), k, c), limits)
  /\ uses' = LastOf(Use(uses, k, c), limits.capacity)
  /\ UNCHANGED <<now, limits>>

\* Another strategy or lifetime empties the cache; another capacity trims it.
Configure(lim, clear) ==
  /\ limits' = lim
  /\ cache' = IF clear THEN <<>> ELSE Trimmed(cache, lim)
  /\ uses' = IF clear THEN <<>> ELSE LastOf(uses, lim.capacity)
  /\ UNCHANGED now

Forget(c) ==
  /\ cache' = ForgetIn(cache, c)
  /\ uses' = ForgetIn(uses, c)
  /\ UNCHANGED <<now, limits>>

ClockTicks ==
  /\ now < MaxTime
  /\ now' = now + 1
  /\ UNCHANGED <<cache, limits, uses>>
=============================================================================
