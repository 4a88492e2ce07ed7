------------------------------ MODULE Statistics ------------------------------
(***************************************************************************)
(* The daily statistics (stats.py) over the rows that the write-behind     *)
(* queue brings into the table.                                            *)
(*                                                                         *)
(* A row carries the time of its event, so it may arrive on a later day    *)
(* than the one it counts for.  Aggregates of a day are made only when an  *)
(* administrator asks for it: a refresh fills the past days that have rows *)
(* but no aggregate and makes the last days anew, today included; a range  *)
(* of days can also be aggregated outright.  A report of the last days     *)
(* takes the aggregates but shows today from the rows.  Refreshes and      *)
(* reports consist of several transactions, between which rows arrive,     *)
(* other aggregations run and the day may end.                             *)
(***************************************************************************)
EXTENDS WriteBehind

CONSTANTS
  LastDay,         \* bound on days
  RecentDays,      \* days a refresh makes anew (3 in the code)
  ReportDays,      \* days a report covers
  MaxAsked         \* bound on refreshes, aggregations and reports together

\* The days made anew reach back beyond yesterday, so that the end of a day within
\* a refresh leaves no gap between them and the past days filled.
ASSUME StatisticsAssumption ==
  /\ LastDay \in Nat \ {0} /\ MaxAsked \in Nat
  /\ RecentDays \in Nat /\ RecentDays >= 2
  /\ ReportDays \in Nat \ {0}

Days == 1..LastDay

VARIABLES
  today,
  day,             \* the day of each record's event, 0 before it
  daily,           \* per day: the requests its aggregate counts, {} if there is none
  refresh,         \* the refresh under way: [step, missing, today, seen]
  report,          \* the report under way: [step, shown, due, midnight];
                   \* history: `due` are today's requests when it began
  late,            \* history: requests whose row came after an aggregate of their day
  settled,         \* history: `seen` and `today` of the last complete refresh
  asked

statistics == <<today, day, daily, refresh, report, late, settled, asked>>
allVars == <<vars, statistics>>

NoRefresh == [step |-> "none", missing |-> {}, today |-> 0, seen |-> {}]
NoReport  == [step |-> "none", shown |-> {}, due |-> {}, midnight |-> FALSE]

Rows(d) == {r \in Requests \cap Stored : day[r] = d}

\* The aggregates of a range are deleted and made anew in one transaction.
Aggregated(first, last) ==
  [d \in Days |-> IF d \in first..last THEN Rows(d) ELSE daily[d]]

-----------------------------------------------------------------------------
(* Refreshes *)

\* Past days that have rows but no aggregate.
MissingDays == {d \in Days : d < today /\ Rows(d) # {} /\ daily[d] = {}}

BeginRefresh ==
  /\ phase = "running"
  /\ refresh.step = "none"
  /\ asked < MaxAsked
  /\ asked' = asked + 1
  /\ refresh' = [step |-> "missing", missing |-> MissingDays, today |-> today,
                 seen |-> Requests \cap Stored]
  /\ UNCHANGED <<vars, today, day, daily, report, late, settled>>

\* One transaction per missing day, in order.
FillMissing ==
  /\ refresh.step = "missing"
  /\ \E d \in refresh.missing :
       /\ \A e \in refresh.missing : d <= e
       /\ daily' = Aggregated(d, d)
       /\ refresh' = [refresh EXCEPT !.missing = @ \ {d}]
  /\ UNCHANGED <<vars, today, day, report, late, settled, asked>>

\* "Fill the missing days" alone ends here.
EndOfMissing ==
  /\ refresh.step = "missing" /\ refresh.missing = {}
  /\ refresh' = NoRefresh
  /\ UNCHANGED <<vars, today, day, daily, report, late, settled, asked>>

\* Faulty: the days made anew are one too few.
RefreshRecentShort ==
  /\ refresh.step = "missing" /\ refresh.missing = {}
  /\ daily' = Aggregated(today - RecentDays + 2, today)
  /\ settled' = [seen |-> refresh.seen, today |-> today]
  /\ refresh' = NoRefresh
  /\ UNCHANGED <<vars, today, day, report, late, asked>>

\* The full refresh looks at the calendar again before it makes the last days anew.
RefreshRecent ==
  /\ refresh.step = "missing" /\ refresh.missing = {}
  /\ daily' = Aggregated(today - RecentDays + 1, today)
  /\ settled' = [seen |-> refresh.seen, today |-> today]
  /\ refresh' = NoRefresh
  /\ UNCHANGED <<vars, today, day, report, late, asked>>

\* An administrator names the range.
AggregateRange(first, last) ==
  /\ phase = "running"
  /\ asked < MaxAsked
  /\ asked' = asked + 1
  /\ daily' = Aggregated(first, last)
  /\ UNCHANGED <<vars, today, day, refresh, report, late, settled>>

-----------------------------------------------------------------------------
(* Reports *)

FirstDay == today - ReportDays + 1

FromAggregates == {[day |-> d, rows |-> daily[d]] : d \in {e \in Days : e >= FirstDay /\ daily[e] # {}}}
FromRows(first) == {[day |-> d, rows |-> Rows(d)] : d \in {e \in Days : e >= first /\ Rows(e) # {}}}

BeginReport ==
  /\ phase = "running"
  /\ report.step = "none"
  /\ asked < MaxAsked
  /\ asked' = asked + 1
  /\ report' = [step     |-> IF FromAggregates = {} THEN "rows" ELSE "today",
                shown    |-> FromAggregates,
                due      |-> Rows(today),
                midnight |-> FALSE]
  /\ UNCHANGED <<vars, today, day, daily, refresh, late, settled>>

\* Without a single aggregate the report is made from the rows alone.
ReportRows ==
  /\ report.step = "rows"
  /\ report' = [report EXCEPT !.step = "done", !.shown = FromRows(FirstDay)]
  /\ UNCHANGED <<vars, today, day, daily, refresh, late, settled, asked>>

\* Faulty: today's aggregate is shown beside its rows.
WithTodayToo(shown) == shown \cup FromRows(today)

\* Today's rows take the place of today's aggregate.
WithToday(shown) ==
  IF FromRows(today) = {} THEN shown
  ELSE {s \in shown : s.day # today} \cup FromRows(today)

ReportToday ==
  /\ report.step = "today"
  /\ report' = [report EXCEPT !.step = "done", !.shown = WithToday(@)]
  /\ UNCHANGED <<vars, today, day, daily, refresh, late, settled, asked>>

ReportSent ==
  /\ report.step = "done"
  /\ report' = NoReport
  /\ UNCHANGED <<vars, today, day, daily, refresh, late, settled, asked>>

-----------------------------------------------------------------------------
(* Days, requests and their rows *)

\* At most one falls within a refresh.
Midnight ==
  /\ today < LastDay
  /\ refresh.step = "none" \/ refresh.today = today
  /\ today' = today + 1
  /\ report' = IF report.step \in {"rows", "today"} THEN [report EXCEPT !.midnight = TRUE] ELSE report
  /\ UNCHANGED <<vars, day, daily, refresh, late, settled, asked>>

\* A record has the time of its request; a process that goes away takes its
\* refresh and its report along.
QueueWorks ==
  /\ Next
  /\ day' = [r \in Records |-> IF r \in coming \ coming' THEN today ELSE day[r]]
  /\ late' = late \cup {r \in (Requests \cap Stored') \ Stored : daily[day[r]] # {}}
  /\ refresh' = IF phase' # "running" THEN NoRefresh ELSE refresh
  /\ report' = IF phase' # "running" THEN NoReport ELSE report
  /\ UNCHANGED <<today, daily, settled, asked>>

StatisticsInit ==
  /\ Init
  /\ today = 1
  /\ day = [r \in Records |-> 0]
  /\ daily = [d \in Days |-> {}]
  /\ refresh = NoRefresh /\ report = NoReport
  /\ late = {}
  /\ settled = [seen |-> {}, today |-> 0]
  /\ asked = 0

StatisticsNext ==
  \/ QueueWorks
  \/ BeginRefresh \/ FillMissing \/ EndOfMissing \/ RefreshRecent
  \/ \E first, last \in Days : first <= last /\ AggregateRange(first, last)
  \/ BeginReport \/ ReportRows \/ ReportToday \/ ReportSent
  \/ Midnight

StatisticsSpec == StatisticsInit /\ [][StatisticsNext]_allVars /\ WF_allVars(QueueWorks /\ Work)

-----------------------------------------------------------------------------
(* Properties *)

\* After a complete refresh every request that was in the table when it began is
\* in the aggregate of its day -- save one whose row arrived when its day already
\* had an aggregate and which the refresh found too old to be made anew
\* (stats.py, refresh_stats).
AggregatesAddUp ==
  \A r \in settled.seen :
    \/ r \in daily[day[r]]
    \/ r \in late /\ day[r] <= settled.today - RecentDays

\* A report shows no request twice and leaves none of today's out, whatever has
\* been aggregated before and arrives meanwhile -- unless midnight falls within it
\* (stats.py, get_daily_rollup).
ReportTellsToday ==
  report.step = "done" /\ ~report.midnight =>
    /\ \A s, t \in report.shown : s # t => s.day # t.day /\ s.rows \cap t.rows = {}
    /\ \A r \in report.due : \E s \in report.shown : s.day = day[r] /\ r \in s.rows
=============================================================================
