----------------------------- MODULE WriteBehind -----------------------------
(***************************************************************************)
(* The write-behind queue of request statistics and request logs           *)
(* (db_write_behind.py over the INSERTs of stats.py and request_logs.py).  *)
(*                                                                         *)
(* Requests put records into a bounded queue; workers take them and have a *)
(* thread write each to SQLite, within a time limit.  What does not fit or *)
(* is not written in time is spilled to an overflow file, which the next   *)
(* start replays.  A thread cannot be stopped: when its waiter gives up it *)
(* runs on, and may still write.                                           *)
(*                                                                         *)
(* A request's row carries its reference and a second one is ignored       *)
(* (UNIQUE index).  A context-shaping record is added to counters instead: *)
(* it has no reference, only, once it has been through the overflow file,  *)
(* a write id whose receipt keeps it from being added again.               *)
(* File and replay are sets: the order of lines plays no part.             *)
(***************************************************************************)
EXTENDS Integers, Sequences, FiniteSets

CONSTANTS
  Records,       \* records, each enqueued at most once
  Requests,      \* those of requests; the others are of context shaping
  Workers,       \* worker tasks
  Capacity,      \* queue bound (maxsize)
  Idle,          \* "nothing being written"
  MaxCrashes,    \* bound on crashes
  MaxStops       \* bound on orderly stops

ASSUME WriteBehindAssumption ==
  /\ Requests \subseteq Records
  /\ Capacity \in Nat \ {0}
  /\ Idle \notin Records
  /\ MaxCrashes \in Nat /\ MaxStops \in Nat

VARIABLES
  phase,         \* "running", "draining" (stop under way) or "down"
  coming,        \* records not yet enqueued
  queue,         \* the asyncio queue
  unfinished,    \* its count of records taken or waiting, not yet task_done
  writing,       \* per worker: the record it has a thread write
  threads,       \* abandoned writes still running: <<record, has a write id>>
  file,          \* the overflow file: records with a line in it
  replay,        \* lines read by a running replay, not yet dealt with
  failed,        \* lines the running replay will put back
  replayer,      \* the replay task: "due" (created), "on" or "off"
  plain,         \* times written without a write id, per record
  keyed,         \* times written with one, per record
  dropped,       \* history: records whose spill failed (logged)
  forgone,       \* history: records being held by a process or worker that went away
  overrun,       \* history: records whose write outlived its waiter
  crashes, stops

table   == <<plain, keyed>>
reading == <<replay, failed, replayer>>
counts  == <<crashes, stops>>
vars == <<phase, coming, queue, unfinished, writing, threads, file, reading,
          table, dropped, forgone, overrun, counts>>

-----------------------------------------------------------------------------
(* The file and the table *)

\* Appending a line may fail; the error is logged and the record is gone.
Spill(r, appended) ==
  /\ file' = IF appended THEN file \cup {r} ELSE file
  /\ dropped' = IF appended THEN dropped ELSE dropped \cup {r}

Stored == {r \in Records : plain[r] + keyed[r] > 0}

\* Faulty: a request already in the table gets a second row.
InsertPlainAgain(r) == plain' = [plain EXCEPT ![r] = @ + 1] /\ UNCHANGED keyed

InsertPlain(r) ==
  /\ plain' = IF r \in Requests \cap Stored THEN plain ELSE [plain EXCEPT ![r] = @ + 1]
  /\ UNCHANGED keyed

InsertKeyed(r) ==
  /\ keyed' = IF r \in Requests \cap Stored \/ keyed[r] > 0
              THEN keyed ELSE [keyed EXCEPT ![r] = @ + 1]
  /\ UNCHANGED plain

-----------------------------------------------------------------------------
(* Requests and workers *)
Enqueue(r, appended) ==
  /\ phase = "running"
  /\ r \in coming
  /\ coming' = coming \ {r}
  /\ IF Len(queue) < Capacity
     THEN /\ queue' = Append(queue, r)
          /\ unfinished' = unfinished + 1
          /\ UNCHANGED <<file, dropped>>
     ELSE Spill(r, appended) /\ UNCHANGED <<queue, unfinished>>
  /\ UNCHANGED <<phase, writing, threads, reading, table, forgone, overrun, counts>>

Take(w) ==
  /\ phase = "running"
  /\ writing[w] = Idle
  /\ queue # <<>>
  /\ writing' = [writing EXCEPT ![w] = Head(queue)]
  /\ queue' = Tail(queue)
  /\ UNCHANGED <<phase, coming, unfinished, threads, file, reading, table,
                 dropped, forgone, overrun, counts>>

TaskDone == unfinished' = unfinished - 1

Commit(w) ==
  /\ writing[w] # Idle
  /\ InsertPlain(writing[w])
  /\ writing' = [writing EXCEPT ![w] = Idle]
  /\ TaskDone
  /\ UNCHANGED <<phase, coming, queue, threads, file, reading,
                 dropped, forgone, overrun, counts>>

\* Give the write up to an error (`begun` = FALSE, it will not happen) or to the
\* time limit, when a thread that has begun goes on without its waiter.
Abandon(r, begun, key) ==
  /\ threads' = IF begun THEN threads \cup {<<r, key>>} ELSE threads
  /\ overrun' = IF begun THEN overrun \cup {r} ELSE overrun

\* Faulty: what was not written in time is not spilled.
GiveUpSilently(w, begun, appended) ==
  /\ writing[w] # Idle
  /\ Abandon(writing[w], begun, FALSE)
  /\ writing' = [writing EXCEPT ![w] = Idle]
  /\ TaskDone
  /\ UNCHANGED <<phase, coming, queue, file, reading, table, dropped, forgone, counts>>

GiveUp(w, begun, appended) ==
  /\ writing[w] # Idle
  /\ Abandon(writing[w], begun, FALSE)
  /\ Spill(writing[w], appended)
  /\ writing' = [writing EXCEPT ![w] = Idle]
  /\ TaskDone
  /\ UNCHANGED <<phase, coming, queue, reading, table, forgone, counts>>

ThreadEnds(t, written) ==
  /\ t \in threads
  /\ threads' = threads \ {t}
  /\ IF ~written THEN UNCHANGED table
     ELSE IF t[2] THEN InsertKeyed(t[1]) ELSE InsertPlain(t[1])
  /\ UNCHANGED <<phase, coming, queue, unfinished, writing, file, reading,
                 dropped, forgone, overrun, counts>>

-----------------------------------------------------------------------------
(* Replay *)

\* The file is read and emptied in one go, under the file's lock.
BeginReplay ==
  /\ replayer = "due"
  /\ replayer' = "on"
  /\ replay' = file
  /\ file' = {}
  /\ UNCHANGED <<phase, coming, queue, unfinished, writing, threads, failed, table,
                 dropped, forgone, overrun, counts>>

ReplayWrites(r) ==
  /\ replayer = "on"
  /\ r \in replay
  /\ InsertKeyed(r)
  /\ replay' = replay \ {r}
  /\ UNCHANGED <<phase, coming, queue, unfinished, writing, threads, file, failed, replayer,
                 dropped, forgone, overrun, counts>>

ReplayGivesUp(r, begun) ==
  /\ replayer = "on"
  /\ r \in replay
  /\ Abandon(r, begun, TRUE)
  /\ replay' = replay \ {r}
  /\ failed' = failed \cup {r}
  /\ UNCHANGED <<phase, coming, queue, unfinished, writing, file, replayer, table,
                 dropped, forgone, counts>>

\* What could not be written is put back, if that works; if not, the log still
\* says that the records remain on disk.
EndReplay(appended) ==
  /\ replayer = "on"
  /\ replay = {}
  /\ replayer' = "off"
  /\ failed' = {}
  /\ file' = IF appended THEN file \cup failed ELSE file
  /\ dropped' = IF appended THEN dropped ELSE dropped \cup failed
  /\ UNCHANGED <<phase, coming, queue, unfinished, writing, threads, replay, table,
                 forgone, overrun, counts>>

-----------------------------------------------------------------------------
(* Stopping, crashing and starting *)

InFlight == {writing[w] : w \in Workers} \ {Idle}

\* Faulty: a cancelled worker does not account for the record it was writing.
StopWorkersUncounted(begun) ==
  /\ phase = "running" /\ stops < MaxStops
  /\ begun \subseteq InFlight
  /\ phase' = "draining"
  /\ stops' = stops + 1
  /\ writing' = [w \in Workers |-> Idle]
  /\ threads' = threads \cup {<<r, FALSE>> : r \in begun}
  /\ overrun' = overrun \cup begun
  /\ forgone' = forgone \cup InFlight
  /\ UNCHANGED <<coming, queue, unfinished, file, reading, table, dropped, crashes>>

\* Workers are cancelled wherever they are: what they were writing is not spilled.
\* `begun` are the writes whose thread runs on.
StopWorkers(begun) ==
  /\ phase = "running" /\ stops < MaxStops
  /\ begun \subseteq InFlight
  /\ phase' = "draining"
  /\ stops' = stops + 1
  /\ writing' = [w \in Workers |-> Idle]
  /\ unfinished' = unfinished - Cardinality(InFlight)
  /\ threads' = threads \cup {<<r, FALSE>> : r \in begun}
  /\ overrun' = overrun \cup begun
  /\ forgone' = forgone \cup InFlight
  /\ UNCHANGED <<coming, queue, file, reading, table, dropped, crashes>>

\* drain waits for the replay, then writes out the queue itself.
DrainCommits ==
  /\ phase = "draining" /\ replayer = "off" /\ queue # <<>>
  /\ InsertPlain(Head(queue))
  /\ queue' = Tail(queue)
  /\ TaskDone
  /\ UNCHANGED <<phase, coming, writing, threads, file, reading, dropped, forgone, overrun, counts>>

DrainGivesUp(begun, appended) ==
  /\ phase = "draining" /\ replayer = "off" /\ queue # <<>>
  /\ Abandon(Head(queue), begun, FALSE)
  /\ Spill(Head(queue), appended)
  /\ queue' = Tail(queue)
  /\ TaskDone
  /\ UNCHANGED <<phase, coming, writing, reading, table, forgone, counts>>

\* queue.join() returns when every record taken has been accounted for.
Stopped ==
  /\ phase = "draining" /\ replayer = "off" /\ queue = <<>>
  /\ unfinished = 0
  /\ phase' = "down"
  /\ UNCHANGED <<coming, queue, unfinished, writing, threads, file, reading, table,
                 dropped, forgone, overrun, counts>>

Abandoned == {t[1] : t \in threads}

InMemory == {queue[i] : i \in DOMAIN queue} \cup InFlight \cup replay \cup failed

Crash ==
  /\ crashes < MaxCrashes
  /\ crashes' = crashes + 1
  /\ phase' = "down"
  /\ queue' = <<>> /\ unfinished' = 0
  /\ writing' = [w \in Workers |-> Idle]
  /\ threads' = {}
  /\ replay' = {} /\ failed' = {} /\ replayer' = "off"
  /\ forgone' = forgone \cup InMemory \cup Abandoned
  /\ UNCHANGED <<coming, file, table, dropped, overrun, stops>>

Start ==
  /\ phase = "down"
  /\ phase' = "running"
  /\ replayer' = "due"
  /\ UNCHANGED <<coming, queue, unfinished, writing, threads, file, replay, failed, table,
                 dropped, forgone, overrun, counts>>

-----------------------------------------------------------------------------
Init ==
  /\ phase = "down"
  /\ coming = Records
  /\ queue = <<>> /\ unfinished = 0
  /\ writing = [w \in Workers |-> Idle]
  /\ threads = {}
  /\ file = {}
  /\ replay = {} /\ failed = {} /\ replayer = "off"
  /\ plain = [r \in Records |-> 0] /\ keyed = [r \in Records |-> 0]
  /\ dropped = {} /\ forgone = {} /\ overrun = {}
  /\ crashes = 0 /\ stops = 0

\* What happens without the outside world: every write ends within its limit.
Work ==
  \/ \E w \in Workers :
       \/ Take(w) \/ Commit(w)
       \/ \E begun, appended \in BOOLEAN : GiveUp(w, begun, appended)
  \/ BeginReplay
  \/ \E r \in Records :
       \/ ReplayWrites(r)
       \/ \E begun \in BOOLEAN : ReplayGivesUp(r, begun)
  \/ \E appended \in BOOLEAN : EndReplay(appended)
  \/ DrainCommits
  \/ \E begun, appended \in BOOLEAN : DrainGivesUp(begun, appended)
  \/ Stopped

Next ==
  \/ Work
  \/ \E r \in Records, appended \in BOOLEAN : Enqueue(r, appended)
  \/ \E t \in threads, written \in BOOLEAN : ThreadEnds(t, written)
  \/ \E begun \in SUBSET Records : StopWorkers(begun)
  \/ Crash
  \/ Start

\* The event loop keeps its tasks running.
Spec == Init /\ [][Next]_vars /\ WF_vars(Work)

-----------------------------------------------------------------------------
(* Properties *)

\* Every record that came in is in the table, in the overflow file or still being
\* handled, however full queue, timeouts, failures, replay and restarts combine:
\* it vanishes only with the memory of a process that went away -- or of a worker
\* cancelled while writing it -- or with a spill that failed (db_write_behind.py).
\* A thread that runs on without its waiter is not relied on.
NoRecordVanishes ==
  Records \ coming \subseteq
    Stored \cup file \cup InMemory \cup dropped \cup forgone

\* A request is counted once, however often its record is written: by a worker,
\* by a thread nobody waits for any more, by a replay interrupted and begun again.
\* A context-shaping record is added twice only if a write of it outlived its
\* time limit (db_write_behind.py, the UNIQUE indexes and the receipts of stats.py).
CountedOnce ==
  /\ \A r \in Requests : plain[r] + keyed[r] <= 1
  /\ \A r \in Records :
       plain[r] <= 1 /\ keyed[r] <= 1 /\ (plain[r] + keyed[r] > 1 => r \in overrun)

\* An orderly stop ends: the drain never waits for a record nobody will account
\* for (db_write_behind.py, drain and queue.join).
StopEnds == phase = "draining" ~> phase = "down"
=============================================================================
