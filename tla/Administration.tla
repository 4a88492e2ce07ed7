--------------------------- MODULE Administration ---------------------------
(***************************************************************************)
(* An administrator changes the catalog and the settings while requests go *)
(* on: every change is written, taken into memory and then put into effect *)
(* in the pool of clients, whose lock it may have to wait for.  Files are  *)
(* edited by hand, cannot be written, and the process dies and starts      *)
(* again.                                                                  *)
(***************************************************************************)
EXTENDS ChannelCatalog, AppSettings, ClientPool

CONSTANTS
  Catalog,       \* the catalog operation, as it waits for the pool
  Requests,      \* whole requests, each sent once
  Files,         \* what the catalog file is edited to, or found to be
  MaxEvents      \* bound on the operations, edits and crashes

\* Those who may stand in line for the pool's lock are different tasks.
ASSUME AdministrationAssumption ==
  /\ Urls \subseteq Endpoints /\ MaxEvents \in Nat
  /\ Files \subseteq Contents \cup {Missing, Corrupt} /\ Legacies \subseteq Limits
  /\ Requests \cap Updates = {} /\ Catalog \notin Requests \cup Updates
  /\ \A who \in Requests \cup Updates \cup {Catalog} : who \notin Tasks

VARIABLES
  up,            \* "down", "saving" (between the two files of a start), "up"
  request,       \* per request how far it is, its endpoint, timeout and client
  events         \* how many operations, edits and crashes there have been

vars == <<catalog, settingsVars, poolVars, up, request, events>>

Up == up = "up" /\ UNCHANGED up
Asks ==
  {[kind |-> "snapshot", id |-> None, key |-> None]}
    \cup [kind: {"toggle", "delete"}, id: Ids, key: {None}]
    \cup UNION {[kind: {"add", "update"}, id: {id}, key: Keys(id)] : id \in Ids}
Event == events < MaxEvents /\ events' = events + 1

Ready == [at |-> "ready", url |-> None, timeout |-> 0, client |-> 0, waited |-> 0]

-----------------------------------------------------------------------------
(* The catalog *)

Operate ==
  /\ Up /\ Event
  /\ \E ask \in Asks : Hit(ask) \/ Miss(ask)
  /\ UNCHANGED <<settingsVars, poolVars, request>>

FileWork ==
  /\ Up /\ (ReadCorrupt \/ ReadFile \/ Migrate \/ Remember \/ Write \/ WriteFails)
  /\ UNCHANGED <<settingsVars, poolVars, request, events>>

\* RuntimeCatalogEffects: a channel that was there before has a client to remove.
Affects == op.ask.id \in Channels /\ op.was # Absent

CommitChange ==
  /\ Up /\ Commit
  /\ \/ ~Affects /\ op' = NoOp /\ UNCHANGED poolVars
     \/ Affects /\ op' = NoOp /\ ~Contended /\ TakeOut(Catalog, {op.was.key})
     \/ /\ Affects /\ op' = [op EXCEPT !.at = "effects"] /\ Waits(Catalog)
        /\ UNCHANGED <<pool, unused, clients, retiring, holder>>
  /\ UNCHANGED <<settingsVars, request, events>>

apply_channel_change ==
  /\ Up /\ op.at = "effects" /\ op' = NoOp
  /\ TakeOut(Catalog, {op.was.key})
  /\ UNCHANGED <<file, signature, cache, truth, raced, settingsVars, request, events>>

EditFile ==
  /\ Event /\ \E content \in Files \ {file} : Edit(content)
  /\ UNCHANGED <<settingsVars, poolVars, up, request>>

-----------------------------------------------------------------------------
(* The settings *)

Update ==
  /\ Up /\ Event /\ \E u \in Updates, change \in Changes : BeginUpdate(u, change)
  /\ UNCHANGED <<catalog, poolVars, request>>

\* Faulty: a client just given out is kept.
invalidate_all_clients_used(u) == TakeOut(u, {v \in Endpoints : unused[v] > 0})

invalidate_all_clients(u) == TakeOut(u, Endpoints)

\* A change of the timeout goes on to the pool, any other is done.
Saved(u) ==
  /\ Up /\ UpdateSaved(u)
  /\ LET goes_on == update[u].change.timeout # Same IN
     \/ ~goes_on /\ Ends(u) /\ UNCHANGED poolVars
     \/ goes_on /\ Ends(u) /\ ~Contended /\ invalidate_all_clients(u)
     \/ /\ goes_on /\ Moves(u, "invalidating") /\ Waits(u)
        /\ UNCHANGED <<pool, unused, clients, retiring, holder>>
  /\ UNCHANGED <<catalog, request, events>>

NotSaved(u) ==
  /\ Up /\ UpdateNotSaved(u)
  /\ UNCHANGED <<catalog, poolVars, request, events>>

Invalidate(u) ==
  /\ Up /\ UpdateAt(u, "invalidating") /\ Ends(u)
  /\ invalidate_all_clients(u)
  /\ UNCHANGED <<catalog, settings, disk, REQUEST_TIMEOUT, in_force, request, events>>

-----------------------------------------------------------------------------
(* Requests and the pool *)

\* A request sees the snapshot in memory if it is the file's; else an operation
\* loads one first.
Choose(r) ==
  /\ Up /\ request[r].at = "ready"
  /\ op = NoOp /\ cache # None /\ cache.signature = Sig
  /\ \E c \in Channels :
       LET e == cache.content.entries[c] IN
       /\ e # Absent /\ e.on
       /\ request' = [request EXCEPT ![r].at = "chosen", ![r].url = e.key]
  /\ UNCHANGED <<catalog, settingsVars, poolVars, events>>

\* The timeout is read before the wait for the lock.
AskClient(r) ==
  /\ Up /\ request[r].at = "chosen" /\ Waits(r)
  /\ request' = [request EXCEPT ![r].at = "queued", ![r].timeout = REQUEST_TIMEOUT]
  /\ UNCHANGED <<catalog, settingsVars, pool, unused, clients, retiring, holder, events>>

GetClient(r) ==
  /\ Up
  /\ \/ /\ request[r].at = "queued"
        /\ get_or_create_client(r, request[r].url, request[r].timeout)
     \/ /\ request[r].at = "chosen" /\ ~Contended
        /\ get_or_create_client(r, request[r].url, REQUEST_TIMEOUT)
  /\ request' = [request EXCEPT ![r].at = "using", ![r].client = pool'[request[r].url],
                                ![r].timeout = 0]
  /\ UNCHANGED <<catalog, settingsVars, events>>

Answered(r) ==
  /\ Up /\ request[r].at = "using"
  /\ request' = [request EXCEPT ![r] = [Ready EXCEPT !.at = "over"]]
  /\ UNCHANGED <<catalog, settingsVars, poolVars, events>>

CleanUp ==
  /\ Up /\ cleanup_stale_clients
  /\ UNCHANGED <<catalog, settingsVars, request, events>>

Retire(task) ==
  /\ Up /\ (Sleep(task, REQUEST_TIMEOUT) \/ Wake(task) \/ Close(task) \/ Closed(task))
  /\ UNCHANGED <<catalog, settingsVars, request, events>>

\* A request waits for the first byte of its answer at most its client's timeout.
Tick ==
  /\ Up /\ Age
  /\ \A r \in Requests :
       request[r].at = "using" => request[r].waited < clients[request[r].client].timeout
  /\ request' = [r \in Requests |->
       IF request[r].at = "using" THEN [request[r] EXCEPT !.waited = @ + 1] ELSE request[r]]
  /\ UNCHANGED <<catalog, settingsVars, events>>

-----------------------------------------------------------------------------
(* Start and crash *)

\* init_settings: what the old catalog held goes from one file to memory ...
Start ==
  /\ up = "down" /\ up' = "saving"
  /\ ReadSettings(IF file \in {Missing, Corrupt} THEN None ELSE file.legacy, None)
  /\ take_legacy_lb_config
  /\ UNCHANGED <<poolVars, request, events>>

\* ... and from there to the other.
Started ==
  /\ up = "saving" /\ up' = "up"
  /\ SaveSettings
  /\ UNCHANGED <<catalog, poolVars, request, events>>

Crash ==
  /\ up # "down" /\ up' = "down" /\ Event
  /\ cache' = None /\ op' = NoOp /\ raced' = FALSE
  /\ update' = [u \in Updates |->
       IF UpdateAt(u, "idle") THEN NotBegun ELSE [NotBegun EXCEPT !.at = "done"]]
  /\ request' = [r \in Requests |-> IF request[r].at = "ready" THEN Ready ELSE [Ready EXCEPT !.at = "over"]]
  /\ PoolDies
  /\ UNCHANGED <<file, signature, truth, settings, disk, REQUEST_TIMEOUT, in_force>>

Init ==
  /\ file \in Files /\ CatalogInit
  /\ SettingsInit
  /\ PoolInit
  /\ up = "down" /\ events = 0
  /\ request = [r \in Requests |-> Ready]

Next ==
  \/ Operate \/ FileWork \/ CommitChange \/ apply_channel_change \/ EditFile
  \/ Update \/ \E u \in Updates : Saved(u) \/ NotSaved(u) \/ Invalidate(u)
  \/ \E r \in Requests : Choose(r) \/ AskClient(r) \/ GetClient(r) \/ Answered(r)
  \/ CleanUp \/ \E task \in retiring : Retire(task)
  \/ Tick \/ Start \/ Started \/ Crash

Spec == Init /\ [][Next]_vars

-----------------------------------------------------------------------------
(* Properties *)

\* The catalog file says what the committed operations and the edits by hand make
\* of it, one after the other, unparseable entries and a corrupt file included:
\* whatever fails to be written and whenever the process dies, none is lost but
\* an edit that fell into the window of an operation under way, which `truth`
\* forgets with the operation's write (channel_catalog.py, _load_locked,
\* _commit_locked).
CommittedStays == Said(Read) = truth

\* A snapshot that passes for the file's is the file's, but for such an edit
\* (channel_catalog.py, _load_locked).
SnapshotIsFile ==
  cache # None /\ cache.signature = Sig /\ ~raced => cache.content = Read

\* The settings in memory, in the file and in force are the same but while a
\* change is written, whichever writes fail (config.py, update_settings).
SettingsAgree ==
  up = "up" /\ (\A u \in Updates : ~UpdateAt(u, "writing"))
    => settings = disk /\ REQUEST_TIMEOUT = disk.timeout /\ in_force = disk.limit

\* Once a change of the timeout has gone through, every pooled client has it,
\* though a request may have read the old one before it waited for the pool
\* (client.py, get_or_create_client; config.py, update_settings).
PoolHasTheTimeout ==
  up = "up" /\ (\A u \in Updates : ~UpdateAt(u, "invalidating"))
    => \A u \in Cached(pool) : clients[pool[u]].timeout = REQUEST_TIMEOUT

\* No client is closed under a request that may still wait for its answer, unless
\* the timeout had been lowered when it was retired
\* (client.py, _retired_client_close_delay_seconds).
NotClosedInUse ==
  \A r \in Requests :
    LET client == clients[request[r].client] IN
    request[r].at = "using" /\ request[r].waited < client.timeout
      => client.open \/ client.hasty
=============================================================================
