----------------------------- MODULE QuotaStore -----------------------------
(***************************************************************************)
(* The durable store of quota windows (quota_limits/store.py): a map from  *)
(* a channel to the time its upstream said the quota resets, written       *)
(* through to data/channel_quota_limits.json as a whole on every change.   *)
(*                                                                         *)
(* The file is replaced atomically, so it holds one whole map at all times *)
(* -- but the write can fail (`saved` is FALSE) after the map in memory    *)
(* has already changed.  A reset time of 0 stands for an absent entry.     *)
(***************************************************************************)
EXTENDS Integers

CONSTANTS
  Channels       \* channel ids

VARIABLES
  now,           \* the wall clock
  limits,        \* _limits: the map in memory
  disk,          \* the map in the file
  stale          \* history: the last write failed, the file is behind

store == <<limits, disk, stale>>

\* The window an entry stands for: an entry whose time has come is no window.
Window(reset) == IF reset > now THEN reset ELSE 0

Save(map, saved) ==
  /\ limits' = map
  /\ disk' = IF saved THEN map ELSE disk
  /\ stale' = ~saved
\* Faulty: a longer window already there is kept.
MarkBlockedUnlessLonger(c, reset, saved) ==
  IF limits[c] >= reset THEN UNCHANGED store
                        ELSE Save([limits EXCEPT ![c] = reset], saved)

\* Faulty: only the map in memory changes.
MarkBlockedUnsaved(c, reset, saved) ==
  /\ limits' = [limits EXCEPT ![c] = reset]
  /\ UNCHANGED <<disk, stale>>

MarkBlocked(c, reset, saved) == Save([limits EXCEPT ![c] = reset], saved)

Unblock(c, saved) == Save([limits EXCEPT ![c] = 0], saved)

\* Asking for a window drops an expired entry from memory, not from the file.
HasActiveWindow(c) ==
  /\ limits' = [limits EXCEPT ![c] = Window(@)]
  /\ UNCHANGED <<disk, stale>>

\* What load keeps of the file, and what cleanup then keeps of that.
Loaded == [c \in Channels |-> Window(disk[c])]
Active(map, existing) ==
  [c \in Channels |-> IF c \in existing THEN Window(map[c]) ELSE 0]

\* load followed by cleanup, as at startup.  Cleanup rewrites the file only when
\* it drops something; if that write fails the process does not come up at all.
LoadAndCleanup(existing) ==
  LET kept == Active(Loaded, existing) IN
  /\ limits' = kept
  /\ disk' = IF kept = Loaded THEN disk ELSE kept
  /\ stale' = FALSE

StoreInit ==
  /\ limits = [c \in Channels |-> 0]
  /\ disk = [c \in Channels |-> 0]
  /\ stale = FALSE
=============================================================================
