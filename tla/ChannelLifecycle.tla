-------------------------- MODULE ChannelLifecycle --------------------------
(***************************************************************************)
(* Requests, channel administration and restarts around the outcome ledger *)
(* and the quota store.                                                    *)
(*                                                                         *)
(* A request works on the catalog snapshot it took when it arrived         *)
(* (routers/proxy_base.py) and on one channel at a time; what it learns is *)
(* recorded when the attempt ends, by which time other requests may have   *)
(* recorded other things and the channel may have been reconfigured or     *)
(* deleted.  A catalog change is committed first and takes effect on the   *)
(* running state some awaits later (channel_catalog.py), while requests    *)
(* keep running; one change is under way at a time (the catalog's lock).   *)
(* The process may restart at any moment.                                  *)
(***************************************************************************)
EXTENDS Integers, Sequences

CONSTANTS
  Models, Channels, Groups, NoChannel,       \* see Outcomes
  MaxFailCount, Cooldown, Resets, MaxTime, MaxEpisode,
  Requests,      \* concurrent requests
  Idle           \* "no attempt running", "no change under way"

VARIABLES
  now, health, blocked, preferred, episode,  \* the ledger, see Outcomes
  limits, disk, stale,                       \* the quota store, see QuotaStore
  status,        \* catalog: "enabled", "disabled" or "deleted", per channel
  change,        \* the committed change whose effects are still to come
  untried,       \* per request: the channels of its snapshot not yet tried
  attempt        \* per request: the pair it is trying

Ledger == INSTANCE Outcomes
Quota  == INSTANCE QuotaStore

ASSUME LifecycleAssumption == Ledger!OutcomesAssumption /\ Idle \notin Ledger!Pairs

catalog == <<status, change>>
running == <<untried, attempt>>
ledger  == <<health, blocked, preferred, episode>>
store   == <<limits, disk, stale>>
vars    == <<now, ledger, store, catalog, running>>

Existing == {c \in Channels : status[c] # "deleted"}

-----------------------------------------------------------------------------
(* Requests *)

Arrive(r) ==
  /\ attempt[r] = Idle
  /\ untried' = [untried EXCEPT ![r] = {c \in Channels : status[c] = "enabled"}]
  /\ UNCHANGED <<now, ledger, store, catalog, attempt>>

\* The admission check and the choice of the channel happen without an await.
StartAttempt(r, p) ==
  /\ attempt[r] = Idle
  /\ p[2] \in untried[r]
  /\ Ledger!Admits(p, TRUE)
  /\ Ledger!CheckAdmission(p, TRUE)
  /\ attempt' = [attempt EXCEPT ![r] = p]
  /\ UNCHANGED <<store, catalog, untried>>

\* A hard binding of a model group sends the request to its channel unchecked.
StartPinned(r, p) ==
  /\ attempt[r] = Idle
  /\ p[2] \in untried[r]
  /\ attempt' = [attempt EXCEPT ![r] = p]
  /\ UNCHANGED <<now, ledger, store, catalog, untried>>

\* The admission check that turns a channel down may still change the ledger.
TurnedDown(r, p) ==
  /\ attempt[r] = Idle
  /\ p[2] \in untried[r]
  /\ ~Ledger!Admits(p, TRUE)
  /\ Ledger!CheckAdmission(p, TRUE)
  /\ UNCHANGED <<store, catalog, running>>

Done(r) ==
  /\ attempt' = [attempt EXCEPT ![r] = Idle]
  /\ untried' = [untried EXCEPT ![r] = {}]

Succeed(r) ==
  /\ attempt[r] # Idle
  /\ Ledger!RecordSuccess(attempt[r])
  /\ Done(r)
  /\ UNCHANGED <<store, catalog>>

\* A failure sends the request to another channel of its snapshot.
Fail(r, kind) ==
  /\ attempt[r] # Idle
  /\ Ledger!RecordFailure(attempt[r], kind)
  /\ attempt' = [attempt EXCEPT ![r] = Idle]
  /\ untried' = [untried EXCEPT ![r] = @ \ {attempt[r][2]}]
  /\ UNCHANGED <<store, catalog>>

\* A 429 that announces a quota window blocks the channel, in memory and on disk,
\* and ends the request: the caller swallows an error of the write.
HitQuota(r, reset, saved) ==
  /\ attempt[r] # Idle
  /\ LET c == attempt[r][2] IN
       /\ Ledger!RecordQuotaWindow(c, reset)
       /\ Quota!MarkBlocked(c, reset, saved)
  /\ Done(r)
  /\ UNCHANGED catalog

Cancel(r) ==
  /\ attempt[r] # Idle
  /\ Ledger!RecordCancelled
  /\ Done(r)
  /\ UNCHANGED <<store, catalog>>

\* A model group remembers the channel that served its request.
Remember(r, g) ==
  /\ attempt[r] # Idle
  /\ attempt[r][1] \in Models
  /\ Ledger!RememberPreferred(g, attempt[r][1], attempt[r][2])
  /\ UNCHANGED <<store, catalog, running>>

\* Reading the store's own view, as its callers may.
ReadStore(c) ==
  /\ Quota!HasActiveWindow(c)
  /\ UNCHANGED <<now, ledger, catalog, running>>

-----------------------------------------------------------------------------
(* Administration *)

Commit(c, kind) ==
  /\ change = Idle
  /\ status[c] # "deleted"
  /\ status' = [status EXCEPT ![c] =
       CASE kind = "deleted" -> "deleted"
         [] kind = "toggled" -> IF @ = "enabled" THEN "disabled" ELSE "enabled"
         [] kind = "updated" -> @]
  /\ change' = <<c, kind>>
  /\ UNCHANGED <<now, ledger, store, running>>

\* RuntimeCatalogEffects: a deleted channel leaves the ledger and the quota store.
ApplyDeletion(saved) ==
  /\ change # Idle /\ change[2] = "deleted"
  /\ Ledger!RemoveChannel(change[1])
  /\ Quota!Unblock(change[1], saved)
  /\ change' = Idle
  /\ UNCHANGED <<status, running>>

\* Any other change re-opens the channel's permanently degraded pairs to probing.
ApplySave ==
  /\ change # Idle /\ change[2] # "deleted"
  /\ Ledger!ClearPermanent(change[1])
  /\ change' = Idle
  /\ UNCHANGED <<store, status, running>>

-----------------------------------------------------------------------------
(* Restarts and time *)

\* A stop and a start of the process: requests and pending effects are gone; the
\* ledger reloads the open windows of the file before the store's cleanup drops
\* those of channels no longer in the catalog (main.py, lifespan).
Restart ==
  /\ Ledger!Reload(disk)
  /\ Quota!LoadAndCleanup(Existing)
  /\ change' = Idle
  /\ attempt' = [r \in Requests |-> Idle]
  /\ untried' = [r \in Requests |-> {}]
  /\ UNCHANGED status

Tick == Ledger!Tick /\ UNCHANGED <<store, catalog, running>>

-----------------------------------------------------------------------------
Init ==
  /\ Ledger!Init
  /\ Quota!StoreInit
  /\ status = [c \in Channels |-> "enabled"]
  /\ change = Idle
  /\ untried = [r \in Requests |-> {}]
  /\ attempt = [r \in Requests |-> Idle]

Next ==
  \/ Tick
  \/ Restart
  \/ \E r \in Requests :
       \/ Arrive(r)
       \/ \E p \in Ledger!Pairs : StartAttempt(r, p) \/ StartPinned(r, p)
                                 \/ TurnedDown(r, p)
       \/ Succeed(r)
       \/ \E kind \in Ledger!FailureKinds : Fail(r, kind)
       \/ \E reset \in Resets, saved \in BOOLEAN : HitQuota(r, reset, saved)
       \/ Cancel(r)
       \/ \E g \in Groups : Remember(r, g)
  \/ \E c \in Channels :
       \/ ReadStore(c)
       \/ \E kind \in {"toggled", "updated", "deleted"} : Commit(c, kind)
  \/ \E saved \in BOOLEAN : ApplyDeletion(saved)
  \/ ApplySave

Spec == Init /\ [][Next]_vars

-----------------------------------------------------------------------------
(* Properties *)

\* The ledger's view of quota windows, which routing reads, the store's map and
\* the file never drift apart for a channel that exists: they name the same open
\* windows whatever requests, deletions, lazy expiry and failed writes do, the
\* file excepted while its last write failed (outcomes.py: "no double-write
\* drift"; quota_limits/store.py: changes are written through).
WindowsAgree ==
  \A c \in Existing :
    /\ Quota!Window(blocked[c]) = Quota!Window(limits[c])
    /\ ~stale => Quota!Window(disk[c]) = Quota!Window(limits[c])

\* A restart inside an open window keeps it, so the proxy does not start over
\* retrying in vain, and makes up none (quota_limits/store.py, module comment).
RestartKeepsWindows ==
  [][Restart /\ ~stale =>
       \A c \in Existing : Quota!Window(blocked[c])' = Quota!Window(blocked[c])]_vars
=============================================================================
