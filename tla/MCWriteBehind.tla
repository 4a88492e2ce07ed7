---------------------------- MODULE MCWriteBehind ----------------------------
(* Small instances of Statistics over WriteBehind, in two parts: days,        *)
(* refreshes and reports with two requests that arrive in time or late;       *)
(* overflow, timeouts, crashes and stops with a request and a context-shaping *)
(* record.  The queue has room for one record, so that they overflow at once. *)
EXTENDS Statistics, TLC

CONSTANTS r1, r2, s1

DaysPass == crashes' + stops' = 0 /\ s1 \in coming' /\ file' \cup dropped' = {}
ProcessesEnd == asked' = 0 /\ today' = 1 /\ r2 \in coming'

MCSpec ==
  /\ StatisticsInit
  /\ [][StatisticsNext /\ (DaysPass \/ ProcessesEnd)]_allVars
  /\ WF_allVars(QueueWorks /\ Work)
=============================================================================
