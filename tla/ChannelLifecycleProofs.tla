----------------------- MODULE ChannelLifecycleProofs -----------------------
(***************************************************************************)
(* The three copies of a quota window -- the ledger's, the store's and the *)
(* file's -- agree for every channel that exists, for any number of        *)
(* channels and concurrent requests, and outlive a restart.                *)
(***************************************************************************)
EXTENDS ChannelLifecycle, TLAPS

Resetting == [Channels -> Nat]

Typed ==
  /\ now \in Nat
  /\ blocked \in Resetting /\ limits \in Resetting /\ disk \in Resetting
  /\ stale \in BOOLEAN
  /\ attempt \in [Requests -> Ledger!Pairs \cup {Idle}]
  /\ status \in [Channels -> {"enabled", "disabled", "deleted"}]
  /\ change \in {Idle} \cup Channels \X {"toggled", "updated", "deleted"}

\* The channel of a deletion under way is no longer in the catalog.
DeletedIsGone ==
  change # Idle /\ change[2] = "deleted" => change[1] \notin Existing

IInv == Typed /\ DeletedIsGone /\ WindowsAgree

-----------------------------------------------------------------------------
LEMMA ResetsAreTimes == Resets \subseteq Nat
  BY LifecycleAssumption DEF Ledger!OutcomesAssumption

LEMMA ChannelOfPair ==
  ASSUME NEW p \in Ledger!Pairs
  PROVE  p[2] \in Channels
  BY DEF Ledger!Pairs

LEMMA ChannelTried ==
  ASSUME Typed, NEW r \in Requests, attempt[r] # Idle
  PROVE  attempt[r] \in Ledger!Pairs /\ attempt[r][2] \in Channels
  BY ChannelOfPair DEF Typed

\* What leaves the three copies and the catalog alone.
LEMMA Elsewhere ==
  ASSUME IInv, UNCHANGED <<now, blocked, store, catalog>>,
         attempt' \in [Requests -> Ledger!Pairs \cup {Idle}]
  PROVE  IInv'
  BY DEF IInv, Typed, DeletedIsGone, WindowsAgree, Existing, store, catalog,
         Quota!Window, Resetting, Ledger!Pairs

\* An admission check drops a window only when it is over.
LEMMA AdmissionKeeps ==
  ASSUME IInv, NEW p \in Ledger!Pairs, Ledger!CheckAdmission(p, TRUE),
         UNCHANGED <<store, catalog>>, attempt' \in [Requests -> Ledger!Pairs \cup {Idle}]
  PROVE  IInv'
<1> DEFINE c == p[2]
<1>1. c \in Channels
  BY ChannelOfPair
<1>2. now' = now /\ blocked' = [blocked EXCEPT ![c] = IF Ledger!IsBlocked(c) THEN @ ELSE 0]
  BY DEF Ledger!CheckAdmission
<1>3. blocked' \in Resetting
  BY <1>1, <1>2 DEF IInv, Typed, Resetting
<1>4. \A d \in Channels : Quota!Window(blocked[d])' = Quota!Window(blocked[d])
  BY <1>1, <1>2 DEF IInv, Typed, Resetting, Quota!Window, Ledger!IsBlocked
<1>5. WindowsAgree'
  BY <1>2, <1>4 DEF IInv, WindowsAgree, Existing, store, catalog, Quota!Window
<1> QED
  BY <1>2, <1>3, <1>5 DEF IInv, Typed, DeletedIsGone, Existing, store, catalog, Ledger!Pairs

\* A window is entered in all three copies, the file's unless the write fails.
LEMMA QuotaKeeps ==
  ASSUME IInv, NEW r \in Requests, NEW reset \in Resets, NEW saved \in BOOLEAN,
         HitQuota(r, reset, saved)
  PROVE  IInv'
<1> DEFINE c == attempt[r][2]
<1>1. c \in Channels /\ reset \in Nat /\ Typed /\ WindowsAgree
  BY ChannelTried, ResetsAreTimes DEF HitQuota, IInv
<1>2. /\ now' = now /\ blocked' = [blocked EXCEPT ![c] = reset]
      /\ limits' = [limits EXCEPT ![c] = reset]
      /\ disk' = IF saved THEN limits' ELSE disk
      /\ stale' = ~saved
      /\ attempt' = [attempt EXCEPT ![r] = Idle] /\ UNCHANGED <<status, change>>
  BY DEF HitQuota, Ledger!RecordQuotaWindow, Quota!MarkBlocked, Quota!Save, Done, catalog
<1> HIDE DEF c
<1>3. Typed'
  BY <1>1, <1>2 DEF Typed, Resetting, Ledger!Pairs
<1>4. \A d \in Channels :
        IF d = c THEN blocked'[d] = reset /\ limits'[d] = reset
                 ELSE blocked'[d] = blocked[d] /\ limits'[d] = limits[d]
  BY <1>1, <1>2 DEF Typed, Resetting
<1>5. ASSUME NEW d \in Existing
      PROVE  /\ Quota!Window(blocked[d])' = Quota!Window(limits[d])'
             /\ ~stale' => Quota!Window(disk[d])' = Quota!Window(limits[d])'
  <2>1. Quota!Window(blocked[d]) = Quota!Window(limits[d])
    BY <1>1 DEF WindowsAgree
  <2>2. Quota!Window(blocked[d])' = Quota!Window(limits[d])'
    BY <1>1, <1>2, <1>4, <2>1 DEF Existing, Quota!Window
  <2> QED
    BY <1>2, <2>2
<1>6. WindowsAgree'
  BY <1>2, <1>5 DEF WindowsAgree, Existing
<1> QED
  BY <1>2, <1>3, <1>6 DEF IInv, DeletedIsGone, Existing

\* A deletion takes all three copies away; the channel no longer exists.
LEMMA DeletionKeeps ==
  ASSUME IInv, NEW saved \in BOOLEAN, ApplyDeletion(saved)
  PROVE  IInv'
<1> DEFINE c == change[1]
<1>1. c \in Channels /\ c \notin Existing /\ Typed /\ WindowsAgree
  BY DEF ApplyDeletion, IInv, Typed, DeletedIsGone
<1>2. /\ now' = now /\ blocked' = [blocked EXCEPT ![c] = 0]
      /\ limits' = [limits EXCEPT ![c] = 0]
      /\ disk' = IF saved THEN limits' ELSE disk
      /\ stale' = ~saved
      /\ change' = Idle /\ UNCHANGED <<status, attempt>>
  BY DEF ApplyDeletion, Ledger!RemoveChannel, Quota!Unblock, Quota!Save, running
<1> HIDE DEF c
<1>3. Typed'
  BY <1>1, <1>2 DEF Typed, Resetting, Ledger!Pairs
<1>4. \A d \in Existing : blocked'[d] = blocked[d] /\ limits'[d] = limits[d]
  BY <1>1, <1>2 DEF Typed, Resetting, Existing
<1>5. WindowsAgree'
  BY <1>1, <1>2, <1>4, ZenonT(40) DEF WindowsAgree, Existing, Quota!Window
<1> QED
  BY <1>2, <1>3, <1>5 DEF IInv, DeletedIsGone

\* The ledger and the store read the same file; what the store's cleanup drops
\* belongs to channels that are gone.
LEMMA RestartKeeps ==
  ASSUME IInv, Restart
  PROVE  /\ IInv'
         /\ ~stale => \A c \in Existing :
                        Quota!Window(blocked[c])' = Quota!Window(blocked[c])
<1>1. Typed /\ WindowsAgree
  BY DEF IInv
<1>2. /\ now' = now
      /\ blocked' = [c \in Channels |-> IF disk[c] > now THEN disk[c] ELSE 0]
      /\ limits' = [c \in Channels |-> IF c \in Existing THEN Quota!Window(Quota!Window(disk[c])) ELSE 0]
      /\ stale' = FALSE
      /\ change' = Idle /\ attempt' = [r \in Requests |-> Idle] /\ UNCHANGED status
  BY DEF Restart, Ledger!Reload, Quota!LoadAndCleanup, Quota!Active, Quota!Loaded
<1>3. \/ disk' = limits'
      \/ disk' = disk /\ limits' = [c \in Channels |-> Quota!Window(disk[c])]
  BY DEF Restart, Quota!LoadAndCleanup, Quota!Loaded
<1>4. blocked' \in Resetting /\ limits' \in Resetting /\ disk' \in Resetting
  BY <1>1, <1>2, <1>3 DEF Typed, Resetting, Quota!Window
<1>5. \A c \in Existing : blocked'[c] = Quota!Window(disk[c]) /\ limits'[c] = Quota!Window(disk[c])
  BY <1>1, <1>2 DEF Typed, Resetting, Existing, Quota!Window
<1>6. \A c \in Existing : Quota!Window(disk[c])' = Quota!Window(limits[c])'
  BY <1>1, <1>2, <1>3, <1>5 DEF Typed, Resetting, Existing, Quota!Window
<1>7. WindowsAgree'
  BY <1>2, <1>5, <1>6 DEF WindowsAgree, Existing, Quota!Window
<1>8. ~stale => \A c \in Existing : Quota!Window(blocked[c])' = Quota!Window(blocked[c])
  BY <1>1, <1>2, <1>5 DEF WindowsAgree, Typed, Resetting, Existing, Quota!Window
<1> QED
  BY <1>1, <1>2, <1>4, <1>7, <1>8 DEF IInv, Typed, DeletedIsGone, Ledger!Pairs

-----------------------------------------------------------------------------
LEMMA Initially == Init => IInv
<1> SUFFICES ASSUME Init PROVE IInv
  OBVIOUS
<1>1. Typed
  BY DEF Init, Ledger!Init, Quota!StoreInit, Typed, Resetting, Ledger!Pairs
<1> QED
  BY <1>1 DEF Init, Ledger!Init, Quota!StoreInit, IInv, DeletedIsGone, WindowsAgree, Existing, Quota!Window

LEMMA Step == IInv /\ [Next]_vars => IInv'
<1> SUFFICES ASSUME IInv, [Next]_vars PROVE IInv'
  OBVIOUS
<1>1. Typed /\ attempt \in [Requests -> Ledger!Pairs \cup {Idle}]
      /\ \A r \in Requests : [attempt EXCEPT ![r] = Idle] \in [Requests -> Ledger!Pairs \cup {Idle}]
  BY DEF IInv, Typed
<1>2. CASE UNCHANGED vars
  BY <1>1, <1>2, Elsewhere DEF vars, ledger, running
<1>3. CASE Tick
  <2>1. now' = now + 1 /\ UNCHANGED <<blocked, store, catalog, attempt>>
    BY <1>3 DEF Tick, Ledger!Tick, Ledger!ledger, running
  <2>2. WindowsAgree'
    BY <1>1, <2>1 DEF IInv, WindowsAgree, Typed, Resetting, Existing, Quota!Window, store, catalog
  <2> QED
    BY <1>1, <2>1, <2>2 DEF IInv, Typed, DeletedIsGone, Existing, store, catalog, Ledger!Pairs
<1>4. CASE Restart
  BY <1>4, RestartKeeps
<1>5. ASSUME NEW r \in Requests, Arrive(r) PROVE IInv'
  BY <1>1, <1>5, Elsewhere DEF Arrive, ledger
<1>6. ASSUME NEW r \in Requests, NEW p \in Ledger!Pairs, StartAttempt(r, p) PROVE IInv'
  BY <1>1, <1>6, AdmissionKeeps DEF StartAttempt
<1>7. ASSUME NEW r \in Requests, NEW p \in Ledger!Pairs, StartPinned(r, p) PROVE IInv'
  BY <1>1, <1>7, Elsewhere DEF StartPinned, ledger
<1>8. ASSUME NEW r \in Requests, NEW p \in Ledger!Pairs, TurnedDown(r, p) PROVE IInv'
  BY <1>1, <1>8, AdmissionKeeps DEF TurnedDown, running
<1>9. ASSUME NEW r \in Requests, Succeed(r) PROVE IInv'
  BY <1>1, <1>9, Elsewhere DEF Succeed, Done, Ledger!RecordSuccess
<1>10. ASSUME NEW r \in Requests, NEW kind \in Ledger!FailureKinds, Fail(r, kind) PROVE IInv'
  BY <1>1, <1>10, Elsewhere DEF Fail, Ledger!RecordFailure
<1>11. ASSUME NEW r \in Requests, NEW reset \in Resets, NEW saved \in BOOLEAN,
              HitQuota(r, reset, saved)
       PROVE  IInv'
  BY <1>11, QuotaKeeps
<1>12. ASSUME NEW r \in Requests, Cancel(r) PROVE IInv'
  BY <1>1, <1>12, Elsewhere DEF Cancel, Done, Ledger!RecordCancelled, Ledger!vars, Ledger!ledger
<1>13. ASSUME NEW r \in Requests, NEW g \in Groups, Remember(r, g) PROVE IInv'
  BY <1>1, <1>13, Elsewhere DEF Remember, Ledger!RememberPreferred, running
<1>14. ASSUME NEW c \in Channels, ReadStore(c) PROVE IInv'
  <2>1. /\ limits' = [limits EXCEPT ![c] = Quota!Window(@)]
        /\ UNCHANGED <<now, blocked, disk, stale, catalog, attempt>>
    BY <1>14 DEF ReadStore, Quota!HasActiveWindow, ledger, running
  <2>2. limits' \in Resetting
    BY <1>1, <2>1 DEF Typed, Resetting, Quota!Window
  <2>3. \A d \in Channels : Quota!Window(limits[d])' = Quota!Window(limits[d])
    BY <1>1, <2>1 DEF Typed, Resetting, Quota!Window
  <2>4. WindowsAgree'
    BY <2>1, <2>3 DEF IInv, WindowsAgree, Existing, catalog, Quota!Window
  <2> QED
    BY <1>1, <2>1, <2>2, <2>4 DEF IInv, Typed, DeletedIsGone, Existing, catalog, Ledger!Pairs
<1>15. ASSUME NEW c \in Channels, NEW kind \in {"toggled", "updated", "deleted"}, Commit(c, kind)
       PROVE  IInv'
  <2>1. /\ change' = <<c, kind>> /\ UNCHANGED <<now, blocked, limits, disk, stale, attempt>>
        /\ status[c] # "deleted"
        /\ status' = [status EXCEPT ![c] =
             CASE kind = "deleted" -> "deleted"
               [] kind = "toggled" -> IF @ = "enabled" THEN "disabled" ELSE "enabled"
               [] kind = "updated" -> @]
    BY <1>15 DEF Commit, ledger, store, running
  <2>2. /\ status' \in [Channels -> {"enabled", "disabled", "deleted"}]
        /\ kind = "deleted" => status'[c] = "deleted"
        /\ \A d \in Channels : status[d] = "deleted" => status'[d] = "deleted"
    BY <1>1, <2>1 DEF Typed
  <2>3. Existing' \subseteq Existing
    BY <2>2 DEF Existing
  <2>5. DeletedIsGone'
    BY <2>1, <2>2 DEF DeletedIsGone, Existing
  <2>4. WindowsAgree'
    BY <2>1, <2>3 DEF IInv, WindowsAgree, Quota!Window
  <2> QED
    BY <1>1, <2>1, <2>2, <2>4, <2>5 DEF IInv, Typed, Ledger!Pairs
<1>16. ASSUME NEW saved \in BOOLEAN, ApplyDeletion(saved) PROVE IInv'
  BY <1>16, DeletionKeeps, SMTT(30)
<1>17. CASE ApplySave
  <2>1. change' = Idle /\ UNCHANGED <<now, blocked, limits, disk, stale, status, attempt>>
    BY <1>17 DEF ApplySave, Ledger!ClearPermanent, store, running
  <2> QED
    BY <1>1, <2>1 DEF IInv, Typed, DeletedIsGone, WindowsAgree, Existing, Quota!Window, Ledger!Pairs
<1> QED
  BY <1>2, <1>3, <1>4, <1>5, <1>6, <1>7, <1>8, <1>9, <1>10, <1>11, <1>12, <1>13, <1>14, <1>15,
     <1>16, <1>17 DEF Next

\* The ledger, the store and the file name the same open windows for every channel
\* that exists (outcomes.py, quota_limits/store.py), for any number of channels and
\* requests.
THEOREM CopiesAgree == Spec => []WindowsAgree
<1>1. IInv => WindowsAgree
  BY DEF IInv
<1> QED
  BY <1>1, Initially, Step, PTL DEF Spec

\* A restart keeps the windows of the channels that exist, unless the last write of
\* the file failed (quota_limits/store.py).
THEOREM WindowsSurvive == Spec => RestartKeepsWindows
<1> DEFINE Kept == Restart /\ ~stale =>
                     \A c \in Existing : Quota!Window(blocked[c])' = Quota!Window(blocked[c])
<1>1. IInv /\ [Next]_vars => [Kept]_vars
  BY RestartKeeps
<1> QED
  BY <1>1, Initially, Step, PTL DEF Spec, RestartKeepsWindows
=============================================================================
