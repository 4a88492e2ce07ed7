----------------------------- MODULE RequestLogs -----------------------------
(***************************************************************************)
(* The request log (request_logs.py): one SQLite file per month, made by   *)
(* whichever write needs it first, filled by writer threads, trimmed once  *)
(* a day by age, and removed month by month by an administrator            *)
(* (storage_stats.py).                                                     *)
(*                                                                         *)
(* A month's file exists before its table does, and opening a file that    *)
(* has been removed makes it again, without a table.  Whoever finds such a *)
(* bare file fails: a write is spilled until the next start replays it,    *)
(* the cleanup stops where it is, and a process that starts in the month   *)
(* has no request log at all.                                              *)
(*                                                                         *)
(* Of the queue before the writers (WriteBehind) only what matters here is *)
(* kept: what waits, and what was spilled.  Times are whole days.          *)
(***************************************************************************)
EXTENDS Integers, Sequences, FiniteSets, SequencesExt

CONSTANTS
  LogEntries,    \* the records of requests, numbered as they come
  Writers,       \* writer threads
  FinalDay,      \* bound on days
  DaysPerMonth,
  Policies,      \* [rows, raw]: days rows and raw fields are kept, 0 for ever
  PageSizes,     \* entries of a page of the list
  MaxAccidents,  \* bound on crashes and removals by hand together
  MaxCleanups    \* bound on cleanups

ASSUME RequestLogsAssumption ==
  /\ LogEntries \subseteq Nat \ {0} /\ FinalDay \in Nat \ {0} /\ DaysPerMonth \in Nat \ {0}
  /\ PageSizes \subseteq Nat \ {0}
  /\ Policies \subseteq [rows : Nat, raw : Nat]
  /\ MaxAccidents \in Nat /\ MaxCleanups \in Nat

VARIABLES
  date, policy,
  born,        \* the day of each record's request, 0 before it
  up,          \* the process runs
  backend,     \* it has a request log
  waiting,     \* records on their way to a writer
  writer,      \* per writer: [step, rec, gone], `gone`: its file was removed under it
  spilled,     \* the overflow file
  month,       \* per month: its file is "none", "bare" (without a table) or "ready"
  rows,        \* records with a row
  raw,         \* those whose raw fields are still there
  cleanup,     \* the cleanup under way: [step, left, day, rows, raw, seen]
  swept,       \* history: the day and `seen` of the last complete cleanup
  fate,        \* history: why a record is in no place any more
  unlucky,     \* history: records that failed while their month was being made
  disturbed,   \* history: months removed, or being made when the process died
  accidents, cleanups

calendar == <<date, policy, born>>
process  == <<up, backend>>
files    == <<month, rows, raw>>
history  == <<swept, fate, unlucky, disturbed>>
bounds   == <<accidents, cleanups>>
logVars == <<calendar, process, waiting, writer, spilled, files, cleanup, history, bounds>>

MonthOf(d) == (d - 1) \div DaysPerMonth + 1
Months == 1..MonthOf(FinalDay)
MonthEnd(m) == m * DaysPerMonth + 1      \* the first day after it

Free == [step |-> "idle", rec |-> 0, gone |-> FALSE]
NoCleanup == [step |-> "idle", left |-> {}, day |-> 0, rows |-> 0, raw |-> 0, seen |-> {}]

InMonth(m) == {r \in rows : MonthOf(born[r]) = m}
MonthOfWriter(w) == MonthOf(born[writer[w].rec])
At(w, step) == writer[w].step = step
Making(m) == \E w \in Writers : At(w, "table") /\ MonthOfWriter(w) = m /\ ~writer[w].gone

Fated(records, end) == [r \in LogEntries |-> IF r \in records THEN end ELSE fate[r]]

-----------------------------------------------------------------------------
(* Writing *)

\* Without a request log the record is discarded at once.
Log(r) ==
  /\ up /\ born[r] = 0
  /\ \A q \in LogEntries : q < r => born[q] > 0
  /\ born' = [born EXCEPT ![r] = date]
  /\ IF backend THEN waiting' = waiting \cup {r} /\ UNCHANGED fate
     ELSE fate' = Fated({r}, "discarded") /\ UNCHANGED waiting
  /\ UNCHANGED <<date, policy, process, writer, spilled, files, cleanup, swept, unlucky,
                 disturbed, bounds>>

\* So is one that waits, or is replayed.
PickUp(w, r) ==
  /\ up /\ At(w, "idle") /\ r \in waiting
  /\ waiting' = waiting \ {r}
  /\ IF backend
     THEN writer' = [writer EXCEPT ![w] = [step |-> "ensure", rec |-> r, gone |-> FALSE]] /\ UNCHANGED fate
     ELSE fate' = Fated({r}, "discarded") /\ UNCHANGED writer
  /\ UNCHANGED <<calendar, process, spilled, files, cleanup, swept, unlucky, disturbed, bounds>>

GoTo(w, step) == writer' = [writer EXCEPT ![w] = [step |-> step, rec |-> @.rec, gone |-> FALSE]]

Fail(w) ==
  /\ writer' = [writer EXCEPT ![w] = Free]
  /\ spilled' = spilled \cup {writer[w].rec}
  /\ unlucky' = IF Making(MonthOfWriter(w)) THEN unlucky \cup {writer[w].rec} ELSE unlucky

\* Faulty: a missing file is left to the connection to make.
EnsureLater(w) ==
  /\ At(w, "ensure")
  /\ IF month[MonthOfWriter(w)] = "bare" THEN Fail(w) ELSE GoTo(w, "connect") /\ UNCHANGED <<spilled, unlucky>>
  /\ UNCHANGED <<calendar, process, waiting, month, rows, raw, cleanup, swept, fate, disturbed, bounds>>

\* The file is made, for its table to follow; an existing one is migrated,
\* which fails without the table.
Ensure(w) ==
  /\ At(w, "ensure")
  /\ LET m == MonthOfWriter(w) IN
     CASE month[m] = "none"  -> /\ month' = [month EXCEPT ![m] = "bare"]
                                /\ GoTo(w, "table") /\ UNCHANGED <<spilled, unlucky>>
       [] month[m] = "ready" -> GoTo(w, "connect") /\ UNCHANGED <<month, spilled, unlucky>>
       [] month[m] = "bare"  -> Fail(w) /\ UNCHANGED month
  /\ UNCHANGED <<calendar, process, waiting, rows, raw, cleanup, swept, fate, disturbed, bounds>>

\* In a file that has been removed the table is made in vain.
MakeTable(w) ==
  /\ At(w, "table")
  /\ month' = IF writer[w].gone THEN month ELSE [month EXCEPT ![MonthOfWriter(w)] = "ready"]
  /\ GoTo(w, "connect")
  /\ UNCHANGED <<calendar, process, waiting, spilled, rows, raw, cleanup, history, bounds>>

Opened(m) == [month EXCEPT ![m] = IF @ = "none" THEN "bare" ELSE @]

Connect(w) ==
  /\ At(w, "connect")
  /\ month' = Opened(MonthOfWriter(w))
  /\ GoTo(w, "insert")
  /\ UNCHANGED <<calendar, process, waiting, spilled, rows, raw, cleanup, history, bounds>>

\* A row in a file that has been removed is lost without an error.
Insert(w) ==
  /\ At(w, "insert")
  /\ LET r == writer[w].rec IN
     IF writer[w].gone
     THEN /\ fate' = Fated({r}, "removed")
          /\ writer' = [writer EXCEPT ![w] = Free]
          /\ UNCHANGED <<rows, raw, spilled, unlucky>>
     ELSE IF month[MonthOfWriter(w)] = "ready"
     THEN /\ rows' = rows \cup {r} /\ raw' = raw \cup {r}
          /\ writer' = [writer EXCEPT ![w] = Free]
          /\ UNCHANGED <<spilled, fate, unlucky>>
     ELSE Fail(w) /\ UNCHANGED <<rows, raw, fate>>
  /\ UNCHANGED <<calendar, process, waiting, month, cleanup, swept, disturbed, bounds>>

-----------------------------------------------------------------------------
(* Removing *)

\* Whoever has the file open goes on with what is no longer there.
RemoveFile(m) ==
  /\ month' = [month EXCEPT ![m] = "none"]
  /\ rows' = rows \ InMonth(m) /\ raw' = raw \ InMonth(m)
  /\ writer' = [w \in Writers |->
       IF writer[w].step \in {"table", "insert"} /\ MonthOfWriter(w) = m
       THEN [writer[w] EXCEPT !.gone = TRUE] ELSE writer[w]]
  /\ disturbed' = disturbed \cup {m}

cleanup_month(m) ==
  /\ up /\ accidents < MaxAccidents
  /\ month[m] # "none"
  /\ accidents' = accidents + 1
  /\ RemoveFile(m)
  /\ fate' = Fated(InMonth(m), "removed")
  /\ UNCHANGED <<calendar, process, waiting, spilled, cleanup, swept, unlucky, cleanups>>

\* Faulty: raw fields are not trimmed if rows are kept for ever.
RawCutoffUnlessForever == IF policy.raw > 0 /\ policy.raw < policy.rows THEN date - policy.raw ELSE 0

\* The day before which rows, and raw fields, are to go; 0 for none.
RowCutoff == IF policy.rows > 0 THEN date - policy.rows ELSE 0
RawCutoff == IF policy.raw > 0 /\ (policy.rows = 0 \/ policy.raw < policy.rows)
             THEN date - policy.raw ELSE 0

BeginCleanup ==
  /\ up /\ backend
  /\ cleanup.step = "idle"
  /\ cleanups < MaxCleanups
  /\ cleanups' = cleanups + 1
  /\ cleanup' = [step |-> "look", left |-> {m \in Months : month[m] # "none"},
                 day |-> date, rows |-> RowCutoff, raw |-> RawCutoff, seen |-> rows]
  /\ UNCHANGED <<calendar, process, waiting, writer, spilled, files, history, accidents>>

Oldest(m) == m \in cleanup.left /\ \A n \in cleanup.left : m <= n
Expired(records, cutoff) == {r \in records : born[r] < cutoff}

\* Faulty: a month is taken for over from its last day on.
OverTooSoon(m) == MonthEnd(m) - 1 <= cleanup.rows

Over(m) == MonthEnd(m) <= cleanup.rows

RemoveOver(m) ==
  /\ cleanup.step = "look" /\ Oldest(m)
  /\ month[m] # "none" /\ Over(m)
  /\ RemoveFile(m)
  /\ fate' = Fated(Expired(InMonth(m), cleanup.rows), "expired")
  /\ cleanup' = [cleanup EXCEPT !.left = @ \ {m}]
  /\ UNCHANGED <<calendar, process, waiting, spilled, swept, unlucky, bounds>>

LookAt(m) ==
  /\ cleanup.step = "look" /\ Oldest(m)
  /\ month[m] = "none" \/ ~Over(m)
  /\ cleanup' = IF month[m] = "none" THEN [cleanup EXCEPT !.left = @ \ {m}]
                ELSE [cleanup EXCEPT !.step = "trim"]
  /\ UNCHANGED <<calendar, process, waiting, writer, spilled, files, history, bounds>>

\* Without its table a month ends the whole cleanup.
TrimMonth(m) ==
  /\ cleanup.step = "trim" /\ Oldest(m)
  /\ month' = Opened(m)
  /\ IF month[m] = "ready" \/ (cleanup.rows = 0 /\ cleanup.raw = 0)
     THEN LET old == Expired(InMonth(m), cleanup.rows) IN
          /\ rows' = rows \ old
          /\ raw' = raw \ (old \cup Expired(InMonth(m), cleanup.raw))
          /\ fate' = Fated(old, "expired")
          /\ cleanup' = [cleanup EXCEPT !.step = "look", !.left = @ \ {m}]
     ELSE cleanup' = NoCleanup /\ UNCHANGED <<rows, raw, fate>>
  /\ UNCHANGED <<calendar, process, waiting, writer, spilled, swept, unlucky, disturbed, bounds>>

EndCleanup ==
  /\ cleanup.step = "look" /\ cleanup.left = {}
  /\ swept' = [day |-> cleanup.day, seen |-> cleanup.seen]
  /\ cleanup' = NoCleanup
  /\ UNCHANGED <<calendar, process, waiting, writer, spilled, files, fate, unlucky, disturbed, bounds>>

-----------------------------------------------------------------------------
(* The process and its log *)

\* The log is there if the month's file is sound or can be made.
SoundAfterInit(m) == month[m] # "bare"
Made(m) == [month EXCEPT ![m] = IF @ = "none" THEN "ready" ELSE @]

\* The replay follows at once, with or without a log.
StartProcess ==
  /\ ~up
  /\ up' = TRUE
  /\ backend' = SoundAfterInit(MonthOf(date))
  /\ month' = Made(MonthOf(date))
  /\ waiting' = spilled /\ spilled' = {}
  /\ UNCHANGED <<calendar, writer, rows, raw, cleanup, history, bounds>>

\* The process dies between making the file and making its table.
StartDies ==
  /\ ~up /\ accidents < MaxAccidents
  /\ accidents' = accidents + 1
  /\ month[MonthOf(date)] = "none"
  /\ month' = Opened(MonthOf(date))
  /\ disturbed' = disturbed \cup {MonthOf(date)}
  /\ UNCHANGED <<calendar, process, waiting, writer, spilled, rows, raw, cleanup, swept, fate,
                 unlucky, cleanups>>

\* Whenever settings are saved; without success all stays as it is.
reload_backend ==
  /\ up
  /\ backend' = (backend \/ SoundAfterInit(MonthOf(date)))
  /\ month' = Made(MonthOf(date))
  /\ UNCHANGED <<calendar, up, waiting, writer, spilled, rows, raw, cleanup, history, bounds>>

InHand == {writer[w].rec : w \in Writers} \ {0}

ProcessDies ==
  /\ up /\ accidents < MaxAccidents
  /\ accidents' = accidents + 1
  /\ up' = FALSE /\ backend' = FALSE
  /\ waiting' = {} /\ writer' = [w \in Writers |-> Free] /\ cleanup' = NoCleanup
  /\ fate' = Fated(waiting \cup InHand, "forgone")
  /\ disturbed' = disturbed \cup {m \in Months : Making(m)}
  /\ UNCHANGED <<calendar, spilled, files, swept, unlucky, cleanups>>

DayEnds ==
  /\ date < FinalDay
  /\ date' = date + 1
  /\ UNCHANGED <<policy, born, process, waiting, writer, spilled, files, cleanup, history, bounds>>

-----------------------------------------------------------------------------
(* The list, newest first *)

NewestFirst(set) ==
  LET sorted[s \in SUBSET set] == IF s = {} THEN <<>> ELSE Append(sorted[s \ {Min(s)}], Min(s))
  IN sorted[set]

\* LIMIT n OFFSET skip
Slice(s, skip, n) == SubSeq(s, skip + 1, IF skip + n < Len(s) THEN skip + n ELSE Len(s))

Wanted(acc, size) == IF size > Len(acc.items) THEN size - Len(acc.items) ELSE 0

\* Faulty: what is skipped in one month is not deducted before the next.
CollectedUndeducted(acc, m, size) ==
  LET all == NewestFirst(InMonth(m)) IN
  IF month[m] # "ready" \/ acc.skip >= Len(all) THEN acc
  ELSE [skip |-> 0, items |-> acc.items \o Slice(all, acc.skip, Wanted(acc, size))]

\* A month without a table is passed over.
Collected(acc, m, size) ==
  LET all == NewestFirst(InMonth(m)) IN
  IF month[m] # "ready" THEN acc
  ELSE IF acc.skip >= Len(all) THEN [acc EXCEPT !.skip = @ - Len(all)]
  ELSE [skip |-> 0, items |-> acc.items \o Slice(all, acc.skip, Wanted(acc, size))]

\* Month by month, the newest first.
Page(page, size) ==
  LET got[i \in 0..MonthOf(FinalDay)] ==
        IF i = 0 THEN [skip |-> (page - 1) * size, items |-> <<>>]
        ELSE Collected(got[i - 1], MonthOf(FinalDay) + 1 - i, size)
  IN got[MonthOf(FinalDay)].items

-----------------------------------------------------------------------------
LogInit ==
  /\ date = 1 /\ policy \in Policies
  /\ born = [r \in LogEntries |-> 0]
  /\ up = FALSE /\ backend = FALSE
  /\ waiting = {} /\ writer = [w \in Writers |-> Free] /\ spilled = {}
  /\ month = [m \in Months |-> "none"] /\ rows = {} /\ raw = {}
  /\ cleanup = NoCleanup
  /\ swept = [day |-> 0, seen |-> {}]
  /\ fate = [r \in LogEntries |-> "kept"] /\ unlucky = {} /\ disturbed = {}
  /\ accidents = 0 /\ cleanups = 0

LogNext ==
  \/ \E r \in LogEntries : Log(r)
  \/ \E w \in Writers :
       \/ \E r \in LogEntries : PickUp(w, r)
       \/ Ensure(w) \/ MakeTable(w) \/ Connect(w) \/ Insert(w)
  \/ \E m \in Months : cleanup_month(m) \/ RemoveOver(m) \/ LookAt(m) \/ TrimMonth(m)
  \/ BeginCleanup \/ EndCleanup
  \/ StartProcess \/ StartDies \/ reload_backend \/ ProcessDies
  \/ DayEnds

LogSpec == LogInit /\ [][LogNext]_logVars

-----------------------------------------------------------------------------
(* Properties *)

\* Every record is in the log, spilled or on its way, unless its time was over, it
\* or its month was removed by hand, the process died with it or there was no log
\* (request_logs.py, _write_record_sync and _cleanup_old_records_sync).
NoLogVanishes ==
  \A r \in LogEntries : born[r] > 0 /\ fate[r] = "kept" => r \in rows \cup waiting \cup InHand \cup spilled

\* A cleanup that got to its end left nothing of what it found that was older, that
\* day, than rows or raw fields are kept (request_logs.py, _cleanup_old_records_sync).
RetentionKept ==
  \A r \in swept.seen :
    LET age == swept.day - born[r] IN
    /\ policy.rows > 0 /\ age > policy.rows => r \notin rows
    /\ policy.raw > 0 /\ age > policy.raw => r \notin raw

\* Unless a month's file was removed, or being made when the process died, the
\* process has its log, no month stays bare, and a record is spilled only because
\* its month was being made (request_logs.py, _ensure_month_db).
LogsStaySound ==
  /\ up /\ ~backend => disturbed # {}
  /\ \A m \in Months \ disturbed : month[m] = "bare" => Making(m)
  /\ \A r \in spilled : r \in unlucky \/ MonthOf(born[r]) \in disturbed

\* A page of the list is the same page of the whole log, newest first, whatever
\* months are empty, missing or broken (request_logs.py, _list_requests_sync).
PagesAreSlices ==
  \A size \in PageSizes, page \in 1..Cardinality(rows) + 1 :
    Page(page, size) = Slice(NewestFirst(rows), (page - 1) * size, size)
=============================================================================
