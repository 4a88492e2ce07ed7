---------------------------- MODULE AppSettings ----------------------------
(***************************************************************************)
(* The settings (config.py): in memory, in their file, and as the parts of *)
(* the program have them in force.  A change is in memory while its file   *)
(* is written, and is taken back if that fails.                            *)
(***************************************************************************)
EXTENDS Naturals

CONSTANTS
  Updates,       \* calls of update_settings
  Timeouts,      \* values of request_timeout
  Limits,        \* values of the load balancer's settings
  DefaultLimit,
  Same,          \* an update leaves this setting as it is
  Changes,       \* what an update may change
  Stored         \* what the file may hold at first

ASSUME SettingsAssumption ==
  /\ Timeouts \subseteq Nat /\ DefaultLimit \in Limits /\ Same \notin Timeouts \cup Limits
  /\ Changes \subseteq [timeout: Timeouts \cup {Same}, limit: Limits \cup {Same}]
  /\ Stored \subseteq [timeout: Timeouts, limit: Limits]

VARIABLES
  settings,      \* _settings
  disk,          \* settings.json
  REQUEST_TIMEOUT,
  in_force,      \* the limit the outcomes and the load balancer work with
  update         \* per update how far it is, what it changes and what was before

settingsVars == <<settings, disk, REQUEST_TIMEOUT, in_force, update>>

Merged(old, change) ==
  [timeout |-> IF change.timeout = Same THEN old.timeout ELSE change.timeout,
   limit   |-> IF change.limit = Same THEN old.limit ELSE change.limit]

UpdateAt(u, stage) == update[u].at = stage
Moves(u, stage)    == update' = [update EXCEPT ![u].at = stage]
NotBegun == [at |-> "idle", change |-> Same, before |-> Same]
Ends(u)  == update' = [update EXCEPT ![u] = [NotBegun EXCEPT !.at = "done"]]

\* The lock is kept to the end of the write.
BeginUpdate(u, change) ==
  /\ UpdateAt(u, "idle") /\ \A v \in Updates : ~UpdateAt(v, "writing")
  /\ settings' = Merged(settings, change)
  /\ update' = [update EXCEPT ![u] = [at |-> "writing", change |-> change, before |-> settings]]
  /\ UNCHANGED <<disk, REQUEST_TIMEOUT, in_force>>

\* What is in force follows before the lock is seen free.
UpdateSaved(u) ==
  /\ UpdateAt(u, "writing")
  /\ disk' = settings
  /\ REQUEST_TIMEOUT' = settings.timeout
  /\ in_force' = settings.limit
  /\ UNCHANGED settings

\* Faulty: the change stays in memory.
UpdateNotSavedKept(u) ==
  /\ UpdateAt(u, "writing") /\ Ends(u)
  /\ UNCHANGED <<settings, disk, REQUEST_TIMEOUT, in_force>>

UpdateNotSaved(u) ==
  /\ UpdateAt(u, "writing") /\ Ends(u)
  /\ settings' = update[u].before
  /\ UNCHANGED <<disk, REQUEST_TIMEOUT, in_force>>

\* _init_settings_sync, and what is migrated from an old catalog.
ReadSettings(legacy, none) ==
  /\ settings' = IF legacy # none /\ disk.limit = DefaultLimit
                 THEN [disk EXCEPT !.limit = legacy] ELSE disk
  /\ REQUEST_TIMEOUT' = disk.timeout
  /\ UNCHANGED <<disk, in_force, update>>

SaveSettings ==
  /\ disk' = settings /\ in_force' = settings.limit
  /\ UNCHANGED <<settings, REQUEST_TIMEOUT, update>>

SettingsInit ==
  /\ disk \in Stored
  /\ settings = disk /\ REQUEST_TIMEOUT = disk.timeout /\ in_force = disk.limit
  /\ update = [u \in Updates |-> NotBegun]
=============================================================================
