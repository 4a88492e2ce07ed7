-------------------------- MODULE WriteBehindProofs --------------------------
(***************************************************************************)
(* No record vanishes unaccounted for and each is counted once, for any    *)
(* number of records, workers, crashes and stops and any capacity; and the *)
(* daily aggregates and reports made of the rows tell the truth, for any   *)
(* number of days, refreshes, aggregations and reports.  The last part is  *)
(* about the request log the queue writes to as well: for any number of    *)
(* writers, cleanups, removals and crashes and any retention, it loses     *)
(* nothing before its time and keeps nothing beyond it, and the pages of   *)
(* its list are the log.                                                   *)
(***************************************************************************)
EXTENDS Statistics, RequestLogs, FiniteSetTheorems, WellFoundedInduction, SequenceTheorems,
        TLAPS

Typed ==
  /\ coming \subseteq Records /\ queue \in Seq(Records)
  /\ writing \in [Workers -> Records \cup {Idle}]
  /\ threads \subseteq Records \X BOOLEAN
  /\ file \subseteq Records /\ replay \subseteq Records /\ failed \subseteq Records
  /\ plain \in [Records -> Nat] /\ keyed \in [Records -> Nat]

\* A replay has something in hand only while it is on, and a start finds none.
ReplayOff ==
  /\ replayer # "on" => replay = {} /\ failed = {}
  /\ phase = "down" => replayer = "off"

Queued == {queue[i] : i \in DOMAIN queue}
Lines  == file \cup replay \cup failed

\* A record is in the queue once, or being written by one worker.
Alone ==
  /\ \A i, j \in DOMAIN queue : queue[i] = queue[j] => i = j
  /\ \A v, w \in Workers : writing[v] = writing[w] /\ writing[v] # Idle => v = w
  /\ Queued \cap InFlight = {}

\* Until it has been dealt with by a worker it is nowhere else.
Untouched(r) ==
  r \notin Lines /\ r \notin Abandoned /\ plain[r] = 0 /\ keyed[r] = 0

Fresh ==
  /\ \A r \in coming : r \notin Queued \cup InFlight /\ Untouched(r)
  /\ \A r \in Queued \cup InFlight : Untouched(r)

\* A thread that runs on may still write, but not a second time; without one, what
\* was written by a worker is not in the overflow file.
Late ==
  /\ Abandoned \subseteq overrun
  /\ \A r \in Records : <<r, FALSE>> \in threads => plain[r] = 0
  /\ \A r \in Records \ overrun : plain[r] = 1 => keyed[r] = 0 /\ r \notin Lines

IInv == Typed /\ ReplayOff /\ Alone /\ Fresh /\ Late /\ NoRecordVanishes /\ CountedOnce

-----------------------------------------------------------------------------
(* The queue, the workers and the threads as sets *)

LEMMA Appended ==
  ASSUME NEW q \in Seq(Records), NEW r \in Records
  PROVE  /\ Append(q, r) \in Seq(Records)
         /\ {Append(q, r)[i] : i \in DOMAIN Append(q, r)} = {q[i] : i \in DOMAIN q} \cup {r}
<1> DEFINE a == Append(q, r)
<1>1. /\ a \in Seq(Records) /\ Len(q) \in Nat /\ DOMAIN q = 1..Len(q)
      /\ DOMAIN a = 1..(Len(q) + 1) /\ a[Len(q) + 1] = r /\ \A i \in 1..Len(q) : a[i] = q[i]
  OBVIOUS
<1> HIDE DEF a
<1>2. \A i \in DOMAIN a : a[i] = r \/ (i \in DOMAIN q /\ a[i] = q[i])
  BY <1>1
<1>3. \A i \in DOMAIN q : i \in DOMAIN a /\ a[i] = q[i]
  BY <1>1
<1>4. Len(q) + 1 \in DOMAIN a /\ a[Len(q) + 1] = r
  BY <1>1
<1>5. {a[i] : i \in DOMAIN a} = {q[i] : i \in DOMAIN q} \cup {r}
  BY <1>2, <1>3, <1>4, SMTT(30)
<1> QED
  BY <1>1, <1>5 DEF a

LEMMA AppendedOnce ==
  ASSUME NEW q \in Seq(Records), NEW r \in Records, r \notin {q[i] : i \in DOMAIN q},
         \A i, j \in DOMAIN q : q[i] = q[j] => i = j
  PROVE  \A i, j \in DOMAIN Append(q, r) : Append(q, r)[i] = Append(q, r)[j] => i = j
  OBVIOUS

LEMMA Taken ==
  ASSUME NEW q \in Seq(Records), q # <<>>
  PROVE  /\ Tail(q) \in Seq(Records) /\ Head(q) \in Records
         /\ {q[i] : i \in DOMAIN q} = {Tail(q)[i] : i \in DOMAIN Tail(q)} \cup {Head(q)}
<1>1. /\ Len(q) \in Nat \ {0} /\ DOMAIN q = 1..Len(q) /\ Head(q) = q[1]
      /\ Tail(q) \in Seq(Records) /\ DOMAIN Tail(q) = 1..(Len(q) - 1)
      /\ \A i \in 1..(Len(q) - 1) : Tail(q)[i] = q[i + 1]
  OBVIOUS
<1> DEFINE t == Tail(q)
<1> HIDE DEF t
<1>2. \A i \in DOMAIN q : q[i] = Head(q) \/ (i - 1 \in DOMAIN t /\ q[i] = t[i - 1])
  BY <1>1 DEF t
<1>3. \A i \in DOMAIN t : i + 1 \in DOMAIN q /\ t[i] = q[i + 1]
  BY <1>1 DEF t
<1>4. 1 \in DOMAIN q /\ q[1] = Head(q) /\ Head(q) \in Records
  BY <1>1
<1>5. {q[i] : i \in DOMAIN q} = {t[i] : i \in DOMAIN t} \cup {Head(q)}
  BY <1>2, <1>3, <1>4, SMTT(30)
<1> QED
  BY <1>1, <1>4, <1>5 DEF t

LEMMA TakenOnce ==
  ASSUME NEW q \in Seq(Records), q # <<>>, \A i, j \in DOMAIN q : q[i] = q[j] => i = j
  PROVE  /\ \A i, j \in DOMAIN Tail(q) : Tail(q)[i] = Tail(q)[j] => i = j
         /\ Head(q) \notin {Tail(q)[i] : i \in DOMAIN Tail(q)}
<1>1. /\ Len(q) \in Nat \ {0} /\ DOMAIN q = 1..Len(q) /\ Head(q) = q[1]
      /\ DOMAIN Tail(q) = 1..(Len(q) - 1)
      /\ \A i \in 1..(Len(q) - 1) : Tail(q)[i] = q[i + 1] /\ i + 1 \in 1..Len(q) /\ i + 1 # 1
  OBVIOUS
<1> QED
  BY <1>1, SMTT(30)

\* A worker is done with its record.
LEMMA WorkerFree ==
  ASSUME Typed, Alone, NEW w \in Workers, writing[w] # Idle, writing' = [writing EXCEPT ![w] = Idle]
  PROVE  /\ writing' \in [Workers -> Records \cup {Idle}]
         /\ writing[w] \in Records /\ writing[w] \in InFlight
         /\ InFlight' = InFlight \ {writing[w]}
         /\ \A u, v \in Workers : writing'[u] = writing'[v] /\ writing'[u] # Idle => u = v
  BY WriteBehindAssumption, SMTT(30) DEF Typed, Alone, InFlight, WriteBehindAssumption

LEMMA WorkerBusy ==
  ASSUME Typed, Alone, NEW w \in Workers, NEW r \in Records, writing[w] = Idle, r \notin InFlight,
         writing' = [writing EXCEPT ![w] = r]
  PROVE  /\ writing' \in [Workers -> Records \cup {Idle}]
         /\ InFlight' = InFlight \cup {r}
         /\ \A u, v \in Workers : writing'[u] = writing'[v] /\ writing'[u] # Idle => u = v
  BY WriteBehindAssumption DEF Typed, Alone, InFlight, WriteBehindAssumption

LEMMA InFlightAreRecords == ASSUME Typed PROVE InFlight \subseteq Records
  BY DEF Typed, InFlight

\* A write is given up, by a worker or the drain, or by the replay.
LEMMA ThreadGoesOn ==
  ASSUME Typed, NEW r \in Records, NEW begun \in BOOLEAN, Abandon(r, begun, FALSE)
  PROVE  /\ threads' \subseteq Records \X BOOLEAN
         /\ Abandoned' = IF begun THEN Abandoned \cup {r} ELSE Abandoned
         /\ overrun' = IF begun THEN overrun \cup {r} ELSE overrun
         /\ \A s \in Records : <<s, FALSE>> \in threads' => <<s, FALSE>> \in threads \/ s = r
<1>1. CASE ~begun
  <2>1. threads' = threads /\ overrun' = overrun
    BY <1>1 DEF Abandon
  <2>2. Abandoned' = Abandoned
    BY <2>1 DEF Abandoned
  <2> QED
    BY <1>1, <2>1, <2>2 DEF Typed
<1>2. CASE begun
  <2>1. threads' = threads \cup {<<r, FALSE>>} /\ overrun' = overrun \cup {r}
    BY <1>2 DEF Abandon
  <2>2. Abandoned' = Abandoned \cup {r}
    <3>1. <<r, FALSE>>[1] = r
      OBVIOUS
    <3> QED
      BY <2>1, <3>1 DEF Abandoned
  <2>3. \A s \in Records : <<s, FALSE>> \in threads' => <<s, FALSE>> \in threads \/ s = r
    BY <2>1
  <2>4. threads' \subseteq Records \X BOOLEAN
    <3>1. <<r, FALSE>> \in Records \X BOOLEAN
      OBVIOUS
    <3>2. threads \subseteq Records \X BOOLEAN
      BY DEF Typed
    <3> QED
      BY <2>1, <3>1, <3>2, Zenon
  <2> QED
    BY <1>2, <2>1, <2>2, <2>3, <2>4
<1> QED
  BY <1>1, <1>2

LEMMA ReplayThreadGoesOn ==
  ASSUME Typed, NEW r \in Records, NEW begun \in BOOLEAN, Abandon(r, begun, TRUE)
  PROVE  /\ threads' \subseteq Records \X BOOLEAN
         /\ Abandoned' = IF begun THEN Abandoned \cup {r} ELSE Abandoned
         /\ overrun' = IF begun THEN overrun \cup {r} ELSE overrun
         /\ \A s \in Records : <<s, FALSE>> \in threads' => <<s, FALSE>> \in threads
<1>1. CASE ~begun
  <2>1. threads' = threads /\ overrun' = overrun
    BY <1>1 DEF Abandon
  <2>2. Abandoned' = Abandoned
    BY <2>1 DEF Abandoned
  <2> QED
    BY <1>1, <2>1, <2>2 DEF Typed
<1>2. CASE begun
  <2>1. threads' = threads \cup {<<r, TRUE>>} /\ overrun' = overrun \cup {r}
    BY <1>2 DEF Abandon
  <2>2. Abandoned' = Abandoned \cup {r}
    <3>1. <<r, TRUE>>[1] = r
      OBVIOUS
    <3> QED
      BY <2>1, <3>1 DEF Abandoned
  <2>3. \A s \in Records : <<s, FALSE>> \in threads' => <<s, FALSE>> \in threads
    BY <2>1
  <2>4. threads' \subseteq Records \X BOOLEAN
    <3>1. <<r, TRUE>> \in Records \X BOOLEAN
      OBVIOUS
    <3>2. threads \subseteq Records \X BOOLEAN
      BY DEF Typed
    <3> QED
      BY <2>1, <3>1, <3>2, Zenon
  <2> QED
    BY <1>2, <2>1, <2>2, <2>3, <2>4
<1> QED
  BY <1>1, <1>2

-----------------------------------------------------------------------------
(* What becomes of a record a worker has, or the drain *)

LEMMA CountedParts ==
  ASSUME Typed
  PROVE  CountedOnce <=>
           \A r \in Records :
             /\ plain[r] <= 1 /\ keyed[r] <= 1
             /\ r \in Requests \/ r \notin overrun => plain[r] + keyed[r] <= 1
<1>1. Requests \subseteq Records
  BY WriteBehindAssumption DEF WriteBehindAssumption
<1>2. \A r \in Records : plain[r] \in Nat /\ keyed[r] \in Nat
  BY DEF Typed
<1> QED
  BY <1>1, <1>2 DEF CountedOnce

LEMMA CountedPartsLater ==
  ASSUME Typed',
         \A r \in Records :
             /\ plain'[r] <= 1 /\ keyed'[r] <= 1
             /\ r \in Requests \/ r \notin overrun' => plain'[r] + keyed'[r] <= 1
  PROVE  CountedOnce'
<1>1. Requests \subseteq Records
  BY WriteBehindAssumption DEF WriteBehindAssumption
<1>2. \A r \in Records : plain'[r] \in Nat /\ keyed'[r] \in Nat
  BY DEF Typed
<1> QED
  BY <1>1, <1>2 DEF CountedOnce

LEMMA Written ==
  ASSUME IInv, NEW r \in Queued \cup InFlight, InsertPlain(r),
         Queued' \cup InFlight' = (Queued \cup InFlight) \ {r},
         UNCHANGED <<coming, threads, file, replay, failed, dropped, forgone, overrun>>
  PROVE  /\ plain' \in [Records -> Nat] /\ keyed' \in [Records -> Nat]
         /\ Fresh' /\ Late' /\ NoRecordVanishes' /\ CountedOnce'
<1>1. /\ Typed /\ Alone /\ Fresh /\ Late /\ NoRecordVanishes /\ CountedOnce
      /\ plain \in [Records -> Nat] /\ keyed \in [Records -> Nat]
  BY DEF IInv, Typed
<1>2. r \in Records /\ Untouched(r)
  BY <1>1, InFlightAreRecords, SMTT(30) DEF Fresh, Queued, Typed
<1>3. plain' = [plain EXCEPT ![r] = 1] /\ keyed' = keyed
  BY <1>1, <1>2 DEF InsertPlain, Stored, Untouched
<1>4. plain' \in [Records -> Nat] /\ plain'[r] = 1 /\ keyed'[r] = 0
      /\ \A s \in Records \ {r} : plain'[s] = plain[s]
  BY <1>1, <1>2, <1>3 DEF Untouched
<1>5. Abandoned' = Abandoned /\ Lines' = Lines /\ r \notin Lines /\ r \notin coming
  BY <1>1, <1>2 DEF Abandoned, Lines, Untouched, Fresh
<1>6. Fresh'
  <2>1. \A s \in Records \ {r} : Untouched(s) => Untouched(s)'
    BY <1>3, <1>4, <1>5, SMTT(30) DEF Untouched
  <2>2. coming \subseteq Records /\ Queued \cup InFlight \subseteq Records
    BY <1>1, InFlightAreRecords DEF Typed, Queued
  <2> QED
    BY <1>1, <1>5, <2>1, <2>2 DEF Fresh
<1>7. Late'
  <2>1. <<r, FALSE>> \notin threads
    <3>1. <<r, FALSE>>[1] = r
      OBVIOUS
    <3> QED
      BY <1>2, <3>1 DEF Untouched, Abandoned
  <2> QED
    BY <1>1, <1>3, <1>4, <1>5, <2>1 DEF Late
<1>8. CountedOnce'
  <2>1. \A s \in Records :
          /\ plain'[s] <= 1 /\ keyed'[s] <= 1
          /\ s \in Requests \/ s \notin overrun' => plain'[s] + keyed'[s] <= 1
    BY <1>1, <1>3, <1>4, CountedParts
  <2>2. \A s \in Records : plain'[s] \in Nat /\ keyed'[s] \in Nat
    BY <1>1, <1>3, <1>4
  <2>3. Requests \subseteq Records
    BY WriteBehindAssumption DEF WriteBehindAssumption
  <2> QED
    BY <2>1, <2>2, <2>3 DEF CountedOnce
<1>9. NoRecordVanishes'
  <2>1. Stored' = Stored \cup {r}
    BY <1>1, <1>2, <1>3, <1>4 DEF Stored
  <2> QED
    BY <1>1, <1>5, <2>1 DEF NoRecordVanishes, InMemory, Queued
<1> QED
  BY <1>1, <1>3, <1>4, <1>6, <1>7, <1>8, <1>9

\* Into the overflow file, whether it fitted no queue, or was not written in time.
LEMMA Spilled ==
  ASSUME IInv, NEW r \in coming \cup Queued \cup InFlight,
         NEW begun \in BOOLEAN, NEW appended \in BOOLEAN,
         Abandon(r, begun, FALSE), Spill(r, appended),
         coming' = coming \ {r}, Queued' \cup InFlight' = (Queued \cup InFlight) \ {r},
         UNCHANGED <<replay, failed, table, forgone>>
  PROVE  /\ threads' \subseteq Records \X BOOLEAN /\ file' \subseteq Records
         /\ Fresh' /\ Late' /\ NoRecordVanishes' /\ CountedOnce'
<1>1. Typed /\ Alone /\ Fresh /\ Late /\ NoRecordVanishes /\ CountedOnce
  BY DEF IInv
<1>2. coming \subseteq Records /\ Queued \cup InFlight \subseteq Records
  BY <1>1, InFlightAreRecords, SMTT(30) DEF Queued, Typed
<1>3. r \in Records /\ Untouched(r)
  BY <1>1, <1>2 DEF Fresh
<1>4. /\ file' = IF appended THEN file \cup {r} ELSE file
      /\ dropped' = IF appended THEN dropped ELSE dropped \cup {r}
      /\ plain' = plain /\ keyed' = keyed
  BY DEF Spill, table
<1>5. /\ threads' \subseteq Records \X BOOLEAN
      /\ Abandoned' = IF begun THEN Abandoned \cup {r} ELSE Abandoned
      /\ overrun' = IF begun THEN overrun \cup {r} ELSE overrun
      /\ \A s \in Records : <<s, FALSE>> \in threads' => <<s, FALSE>> \in threads \/ s = r
  BY <1>1, <1>3, ThreadGoesOn
<1>6. Lines' \subseteq Lines \cup {r} /\ Lines \subseteq Lines' /\ file' \subseteq Records
  BY <1>1, <1>3, <1>4 DEF Lines, Typed
<1>7. Fresh'
  <2>1. \A s \in Records \ {r} : Untouched(s) => Untouched(s)'
    BY <1>4, <1>5, <1>6 DEF Untouched
  <2> QED
    BY <1>1, <1>2, <2>1 DEF Fresh
<1>8. Late'
  <2>1. Abandoned' \subseteq overrun'
    BY <1>1, <1>5 DEF Late
  <2>2. \A s \in Records : <<s, FALSE>> \in threads' => plain'[s] = 0
    BY <1>1, <1>3, <1>4, <1>5 DEF Late, Untouched
  <2>3. \A s \in Records \ overrun' : plain'[s] = 1 => keyed'[s] = 0 /\ s \notin Lines'
    BY <1>1, <1>3, <1>4, <1>5, <1>6 DEF Late, Untouched
  <2> QED
    BY <2>1, <2>2, <2>3 DEF Late
<1>9. CountedOnce'
  <2>1. overrun \subseteq overrun'
    BY <1>5
  <2> QED
    BY <1>1, <1>4, <2>1 DEF CountedOnce
<1>10. NoRecordVanishes'
  <2>1. Stored' = Stored
    BY <1>4 DEF Stored
  <2>2. Abandoned \subseteq Abandoned'
    BY <1>5
  <2> QED
    BY <1>1, <1>4, <2>1, <2>2 DEF NoRecordVanishes, InMemory, Queued
<1> QED
  BY <1>5, <1>6, <1>7, <1>8, <1>9, <1>10

-----------------------------------------------------------------------------
(* The actions *)

LEMMA EnqueueStep ==
  ASSUME IInv, NEW r \in Records, NEW appended \in BOOLEAN, Enqueue(r, appended)
  PROVE  IInv'
<1>1. /\ Typed /\ ReplayOff /\ Alone /\ Fresh /\ Late /\ NoRecordVanishes /\ CountedOnce
      /\ r \in coming /\ coming' = coming \ {r}
      /\ UNCHANGED <<phase, writing, threads, replay, failed, replayer, plain, keyed, forgone, overrun>>
  BY DEF IInv, Enqueue, reading, table
<1>2. CASE Len(queue) < Capacity
  <2>1. queue' = Append(queue, r) /\ UNCHANGED <<file, dropped>>
    BY <1>2 DEF Enqueue
  <2>2. queue \in Seq(Records) /\ r \notin Queued \cup InFlight /\ Untouched(r)
    BY <1>1 DEF Typed, Fresh
  <2>3. queue' \in Seq(Records) /\ Queued' = Queued \cup {r} /\ InFlight' = InFlight
    BY <1>1, <2>1, <2>2, Appended DEF Queued, InFlight
  <2>4. \A i, j \in DOMAIN queue' : queue'[i] = queue'[j] => i = j
    BY <1>1, <2>1, <2>2, AppendedOnce DEF Alone, Queued
  <2>5. Typed'
    BY <1>1, <2>1, <2>3 DEF Typed
  <2>6. Alone'
    BY <1>1, <2>2, <2>3, <2>4 DEF Alone
  <2>7. Abandoned' = Abandoned /\ Lines' = Lines /\ Stored' = Stored
    BY <1>1, <2>1 DEF Abandoned, Lines, Stored
  <2>8. Fresh'
    BY <1>1, <2>2, <2>3, <2>7, SMTT(30) DEF Fresh, Untouched
  <2>9. Late' /\ CountedOnce' /\ ReplayOff'
    BY <1>1, <2>7 DEF Late, CountedOnce, ReplayOff
  <2>10. NoRecordVanishes'
    BY <1>1, <2>1, <2>3, <2>7 DEF NoRecordVanishes, InMemory, Queued
  <2> QED
    BY <2>5, <2>6, <2>8, <2>9, <2>10 DEF IInv
<1>3. CASE ~(Len(queue) < Capacity)
  <2>1. Spill(r, appended) /\ queue' = queue
    BY <1>3 DEF Enqueue
  <2>2. r \notin Queued \cup InFlight
    BY <1>1 DEF Fresh
  <2>3. Queued' = Queued /\ InFlight' = InFlight
    BY <1>1, <2>1 DEF Queued, InFlight
  <2>4. Abandon(r, FALSE, FALSE)
    BY <1>1 DEF Abandon
  <2>5. Queued' \cup InFlight' = (Queued \cup InFlight) \ {r}
    BY <2>2, <2>3
  <2>6. UNCHANGED <<replay, failed, table, forgone>>
    BY <1>1 DEF table
  <2>7. /\ threads' \subseteq Records \X BOOLEAN /\ file' \subseteq Records
        /\ Fresh' /\ Late' /\ NoRecordVanishes' /\ CountedOnce'
    BY <1>1, <2>1, <2>4, <2>5, <2>6, Spilled
  <2>8. Typed' /\ ReplayOff'
    BY <1>1, <2>1, <2>7 DEF Typed, ReplayOff
  <2>9. Alone'
    BY <1>1, <2>1, <2>3 DEF Alone
  <2> QED
    BY <2>7, <2>8, <2>9 DEF IInv
<1> QED
  BY <1>2, <1>3

LEMMA TakeStep ==
  ASSUME IInv, NEW w \in Workers, Take(w)
  PROVE  IInv'
<1> DEFINE r == Head(queue)
<1>1. /\ Typed /\ ReplayOff /\ Alone /\ Fresh /\ Late /\ NoRecordVanishes /\ CountedOnce
      /\ writing[w] = Idle /\ queue # <<>> /\ queue \in Seq(Records)
      /\ writing' = [writing EXCEPT ![w] = r] /\ queue' = Tail(queue)
      /\ UNCHANGED <<phase, coming, threads, file, replay, failed, replayer, plain, keyed,
                     dropped, forgone, overrun>>
  BY DEF IInv, Take, reading, table, Typed
<1>2. queue' \in Seq(Records) /\ r \in Records /\ Queued = Queued' \cup {r}
  BY <1>1, Taken DEF Queued
<1>3. /\ \A i, j \in DOMAIN queue' : queue'[i] = queue'[j] => i = j
      /\ r \notin Queued'
  BY <1>1, TakenOnce, SMTT(30) DEF Alone, Queued
<1> HIDE DEF r
<1>4. r \notin InFlight
  BY <1>1, <1>2 DEF Alone
<1>5. /\ writing' \in [Workers -> Records \cup {Idle}] /\ InFlight' = InFlight \cup {r}
      /\ \A u, v \in Workers : writing'[u] = writing'[v] /\ writing'[u] # Idle => u = v
  BY <1>1, <1>2, <1>4, WorkerBusy
<1>6. Typed' /\ ReplayOff'
  BY <1>1, <1>2, <1>5 DEF Typed, ReplayOff
<1>7. Alone'
  BY <1>1, <1>2, <1>3, <1>5 DEF Alone
<1>8. Abandoned' = Abandoned /\ Lines' = Lines /\ Stored' = Stored
      /\ Queued' \cup InFlight' = Queued \cup InFlight
  BY <1>1, <1>2, <1>5 DEF Abandoned, Lines, Stored
<1>9. Fresh' /\ Late' /\ CountedOnce'
  BY <1>1, <1>8 DEF Fresh, Untouched, Late, CountedOnce
<1>10. NoRecordVanishes'
  BY <1>1, <1>8 DEF NoRecordVanishes, InMemory, Queued
<1> QED
  BY <1>6, <1>7, <1>9, <1>10 DEF IInv

\* A worker's record is out of its hands, and every other one where it was.
LEMMA OutOfHands ==
  ASSUME Typed, Alone, NEW w \in Workers, writing[w] # Idle,
         writing' = [writing EXCEPT ![w] = Idle], queue' = queue
  PROVE  /\ writing[w] \in Queued \cup InFlight /\ Queued' = Queued
         /\ Queued' \cup InFlight' = (Queued \cup InFlight) \ {writing[w]}
         /\ writing' \in [Workers -> Records \cup {Idle}]
         /\ Alone'
<1>1. /\ writing' \in [Workers -> Records \cup {Idle}]
      /\ writing[w] \in Records /\ writing[w] \in InFlight
      /\ InFlight' = InFlight \ {writing[w]}
      /\ \A u, v \in Workers : writing'[u] = writing'[v] /\ writing'[u] # Idle => u = v
  BY WorkerFree
<1>2. Queued' = Queued
  BY DEF Queued
<1>3. Queued' \cup InFlight' = (Queued \cup InFlight) \ {writing[w]}
  BY <1>1, <1>2 DEF Alone
<1>4. Alone'
  BY <1>1, <1>2 DEF Alone
<1> QED
  BY <1>1, <1>2, <1>3, <1>4

LEMMA CommitStep ==
  ASSUME IInv, NEW w \in Workers, Commit(w)
  PROVE  IInv'
<1> DEFINE r == writing[w]
<1>1. /\ Typed /\ ReplayOff /\ Alone /\ r # Idle /\ InsertPlain(r)
      /\ writing' = [writing EXCEPT ![w] = Idle]
      /\ UNCHANGED <<phase, coming, queue, threads, file, replay, failed, replayer,
                     dropped, forgone, overrun>>
  BY DEF IInv, Commit, reading
<1>2. /\ r \in Queued \cup InFlight
      /\ Queued' \cup InFlight' = (Queued \cup InFlight) \ {r}
      /\ writing' \in [Workers -> Records \cup {Idle}]
      /\ Alone'
  BY <1>1, OutOfHands
<1> HIDE DEF r
<1>3. /\ plain' \in [Records -> Nat] /\ keyed' \in [Records -> Nat]
      /\ Fresh' /\ Late' /\ NoRecordVanishes' /\ CountedOnce'
  BY <1>1, <1>2, Written
<1>4. Typed' /\ ReplayOff'
  BY <1>1, <1>2, <1>3 DEF Typed, ReplayOff
<1> QED
  BY <1>2, <1>3, <1>4 DEF IInv

LEMMA GiveUpStep ==
  ASSUME IInv, NEW w \in Workers, NEW begun \in BOOLEAN, NEW appended \in BOOLEAN,
         GiveUp(w, begun, appended)
  PROVE  IInv'
<1> DEFINE r == writing[w]
<1>1. /\ Typed /\ ReplayOff /\ Alone /\ Fresh /\ r # Idle
      /\ Abandon(r, begun, FALSE) /\ Spill(r, appended)
      /\ writing' = [writing EXCEPT ![w] = Idle]
      /\ UNCHANGED <<phase, coming, queue, replay, failed, replayer, plain, keyed, forgone>>
      /\ UNCHANGED <<replay, failed, table, forgone>>
  BY DEF IInv, GiveUp, reading, table
<1>2. /\ r \in Queued \cup InFlight
      /\ Queued' \cup InFlight' = (Queued \cup InFlight) \ {r}
      /\ writing' \in [Workers -> Records \cup {Idle}]
      /\ Alone'
  BY <1>1, OutOfHands
<1> HIDE DEF r
<1>3. coming' = coming \ {r}
  BY <1>1, <1>2 DEF Fresh
<1>4. /\ threads' \subseteq Records \X BOOLEAN /\ file' \subseteq Records
      /\ Fresh' /\ Late' /\ NoRecordVanishes' /\ CountedOnce'
  BY <1>1, <1>2, <1>3, Spilled
<1>5. Typed' /\ ReplayOff'
  BY <1>1, <1>2, <1>4 DEF Typed, ReplayOff
<1> QED
  BY <1>2, <1>4, <1>5 DEF IInv

\* The head of the queue leaves it.
LEMMA OutOfQueue ==
  ASSUME Typed, Alone, queue # <<>>, queue' = Tail(queue), writing' = writing
  PROVE  /\ Head(queue) \in Queued \cup InFlight
         /\ Queued' \cup InFlight' = (Queued \cup InFlight) \ {Head(queue)}
         /\ queue' \in Seq(Records)
         /\ Alone'
<1>1. queue \in Seq(Records) /\ \A i, j \in DOMAIN queue : queue[i] = queue[j] => i = j
  BY DEF Typed, Alone
<1>2. queue' \in Seq(Records) /\ Queued = Queued' \cup {Head(queue)}
  BY <1>1, Taken, ZenonT(60) DEF Queued
<1>3. /\ \A i, j \in DOMAIN queue' : queue'[i] = queue'[j] => i = j
      /\ Head(queue) \notin Queued'
  BY <1>1, TakenOnce DEF Queued
<1>4. InFlight' = InFlight
  BY DEF InFlight
<1> QED
  BY <1>2, <1>3, <1>4 DEF Alone

LEMMA DrainCommitsStep ==
  ASSUME IInv, DrainCommits
  PROVE  IInv'
<1> DEFINE r == Head(queue)
<1>1. /\ Typed /\ ReplayOff /\ Alone /\ queue # <<>> /\ InsertPlain(r)
      /\ queue' = Tail(queue) /\ writing' = writing
      /\ UNCHANGED <<phase, coming, threads, file, replay, failed, replayer,
                     dropped, forgone, overrun>>
  BY DEF IInv, DrainCommits, reading
<1>2. /\ r \in Queued \cup InFlight
      /\ Queued' \cup InFlight' = (Queued \cup InFlight) \ {r}
      /\ queue' \in Seq(Records)
      /\ Alone'
  BY <1>1, OutOfQueue
<1> HIDE DEF r
<1>3. /\ plain' \in [Records -> Nat] /\ keyed' \in [Records -> Nat]
      /\ Fresh' /\ Late' /\ NoRecordVanishes' /\ CountedOnce'
  BY <1>1, <1>2, Written
<1>4. Typed' /\ ReplayOff'
  BY <1>1, <1>2, <1>3 DEF Typed, ReplayOff
<1> QED
  BY <1>2, <1>3, <1>4 DEF IInv

LEMMA DrainGivesUpStep ==
  ASSUME IInv, NEW begun \in BOOLEAN, NEW appended \in BOOLEAN, DrainGivesUp(begun, appended)
  PROVE  IInv'
<1> DEFINE r == Head(queue)
<1>1. /\ Typed /\ ReplayOff /\ Alone /\ Fresh /\ queue # <<>>
      /\ Abandon(r, begun, FALSE) /\ Spill(r, appended)
      /\ queue' = Tail(queue) /\ writing' = writing
      /\ UNCHANGED <<phase, coming, replay, failed, replayer, plain, keyed, forgone>>
      /\ UNCHANGED <<replay, failed, table, forgone>>
  BY DEF IInv, DrainGivesUp, reading, table
<1>2. /\ r \in Queued \cup InFlight
      /\ Queued' \cup InFlight' = (Queued \cup InFlight) \ {r}
      /\ queue' \in Seq(Records)
      /\ Alone'
  BY <1>1, OutOfQueue
<1> HIDE DEF r
<1>3. coming' = coming \ {r}
  BY <1>1, <1>2 DEF Fresh
<1>4. /\ threads' \subseteq Records \X BOOLEAN /\ file' \subseteq Records
      /\ Fresh' /\ Late' /\ NoRecordVanishes' /\ CountedOnce'
  BY <1>1, <1>2, <1>3, Spilled
<1>5. Typed' /\ ReplayOff'
  BY <1>1, <1>2, <1>4 DEF Typed, ReplayOff
<1> QED
  BY <1>2, <1>4, <1>5 DEF IInv

\* What a write changes in the table, a record at a time.
LEMMA InsertedKeyed ==
  ASSUME Typed, CountedOnce, NEW r \in Records, InsertKeyed(r)
  PROVE  /\ plain' = plain /\ keyed' \in [Records -> Nat]
         /\ \A s \in Records \ {r} : keyed'[s] = keyed[s]
         /\ Stored' = Stored \cup {r}
         /\ keyed'[r] <= 1 /\ (keyed'[r] = keyed[r] \/ keyed'[r] = 1)
         /\ r \in Requests => plain'[r] + keyed'[r] <= 1
<1>1. /\ plain \in [Records -> Nat] /\ keyed \in [Records -> Nat]
      /\ plain[r] \in Nat /\ keyed[r] \in Nat
      /\ plain[r] <= 1 /\ keyed[r] <= 1 /\ (r \in Requests => plain[r] + keyed[r] <= 1)
  BY CountedParts DEF Typed
<1>2. CASE r \in Requests \cap Stored \/ keyed[r] > 0
  <2>1. plain' = plain /\ keyed' = keyed
    BY <1>2 DEF InsertKeyed
  <2>2. r \in Stored
    BY <1>1, <1>2 DEF Stored
  <2>3. Stored' = Stored
    BY <2>1 DEF Stored
  <2> QED
    BY <1>1, <2>1, <2>2, <2>3
<1>3. CASE ~(r \in Requests \cap Stored \/ keyed[r] > 0)
  <2>1. plain' = plain /\ keyed' = [keyed EXCEPT ![r] = keyed[r] + 1] /\ keyed[r] = 0
    BY <1>1, <1>3 DEF InsertKeyed
  <2>2. r \in Requests => plain[r] = 0
    BY <1>1, <1>3 DEF Stored
  <2>3. keyed' \in [Records -> Nat] /\ keyed'[r] = 1 /\ \A s \in Records \ {r} : keyed'[s] = keyed[s]
    BY <1>1, <2>1
  <2>4. Stored' = Stored \cup {r}
    BY <1>1, <2>1, <2>3 DEF Stored
  <2> QED
    BY <2>1, <2>2, <2>3, <2>4
<1> QED
  BY <1>2, <1>3

LEMMA InsertedPlain ==
  ASSUME Typed, CountedOnce, NEW r \in Records, plain[r] = 0, InsertPlain(r)
  PROVE  /\ keyed' = keyed /\ plain' \in [Records -> Nat]
         /\ \A s \in Records \ {r} : plain'[s] = plain[s]
         /\ Stored' = Stored \cup {r}
         /\ plain'[r] <= 1
         /\ r \in Requests => plain'[r] + keyed'[r] <= 1
<1>1. /\ plain \in [Records -> Nat] /\ keyed \in [Records -> Nat]
      /\ keyed[r] \in Nat
      /\ keyed[r] <= 1
  BY CountedParts DEF Typed
<1>2. CASE r \in Requests \cap Stored
  <2>1. plain' = plain /\ keyed' = keyed
    BY <1>2 DEF InsertPlain
  <2>2. Stored' = Stored
    BY <2>1 DEF Stored
  <2> QED
    BY <1>1, <1>2, <2>1, <2>2
<1>3. CASE r \notin Requests \cap Stored
  <2>1. keyed' = keyed /\ plain' = [plain EXCEPT ![r] = 1]
    BY <1>1, <1>3 DEF InsertPlain
  <2>2. r \in Requests => keyed[r] = 0
    BY <1>1, <1>3 DEF Stored
  <2>3. plain' \in [Records -> Nat] /\ plain'[r] = 1 /\ \A s \in Records \ {r} : plain'[s] = plain[s]
    BY <1>1, <2>1
  <2>4. Stored' = Stored \cup {r}
    BY <1>1, <2>1, <2>3 DEF Stored
  <2> QED
    BY <2>1, <2>2, <2>3, <2>4
<1> QED
  BY <1>2, <1>3

\* Nobody has the records of the replay or of a thread that runs on in hand, so
\* that what becomes of them leaves queue and workers alone.
LEMMA Elsewhere ==
  ASSUME IInv, NEW r \in Lines \cup Abandoned,
         UNCHANGED <<coming, queue, writing>>,
         Lines' \subseteq Lines \cup {r}, Abandoned' \subseteq Abandoned \cup {r},
         \A s \in Records \ {r} : plain'[s] = plain[s] /\ keyed'[s] = keyed[s]
  PROVE  Alone' /\ Fresh' /\ Queued' = Queued /\ InFlight' = InFlight
<1>1. Typed /\ Alone /\ Fresh
  BY DEF IInv
<1>2. Queued' = Queued /\ InFlight' = InFlight
  BY DEF Queued, InFlight
<1>3. Alone'
  BY <1>1, <1>2 DEF Alone
<1>4. r \notin coming /\ r \notin Queued \cup InFlight
  BY <1>1 DEF Fresh, Untouched
<1>5. coming \subseteq Records /\ Queued \cup InFlight \subseteq Records
  BY <1>1, InFlightAreRecords DEF Queued, Typed
<1>6. \A s \in Records \ {r} : Untouched(s) => Untouched(s)'
  BY DEF Untouched
<1>7. Fresh'
  BY <1>1, <1>2, <1>4, <1>5, <1>6 DEF Fresh
<1> QED
  BY <1>2, <1>3, <1>7

\* An abandoned write may still reach the table, or never.
LEMMA ThreadEndsStep ==
  ASSUME IInv, NEW t \in threads, NEW written \in BOOLEAN, ThreadEnds(t, written)
  PROVE  IInv'
<1>1. /\ Typed /\ ReplayOff /\ Alone /\ Fresh /\ Late /\ NoRecordVanishes /\ CountedOnce
      /\ threads' = threads \ {t} /\ threads \subseteq Records \X BOOLEAN
      /\ UNCHANGED <<phase, coming, queue, writing, file, replay, failed, replayer,
                     dropped, forgone, overrun>>
      /\ plain \in [Records -> Nat] /\ keyed \in [Records -> Nat]
  BY DEF IInv, ThreadEnds, reading, Typed
<1> DEFINE r == t[1]
<1>2. r \in Records /\ t = <<r, t[2]>> /\ t[2] \in BOOLEAN
  BY <1>1
<1>3. r \in Abandoned /\ Abandoned' \subseteq Abandoned
  BY <1>1 DEF Abandoned
<1>4. r \in overrun /\ (t[2] = FALSE => plain[r] = 0)
  BY <1>1, <1>2, <1>3, ZenonT(60) DEF Late
<1>5. Lines' = Lines
  BY <1>1 DEF Lines
<1>6. \/ UNCHANGED table
      \/ InsertKeyed(r)
      \/ t[2] = FALSE /\ InsertPlain(r)
  BY <1>2 DEF ThreadEnds
<1> HIDE DEF r
<1>7. /\ plain' \in [Records -> Nat] /\ keyed' \in [Records -> Nat]
      /\ \A s \in Records \ {r} : plain'[s] = plain[s] /\ keyed'[s] = keyed[s]
      /\ Stored \subseteq Stored'
      /\ plain'[r] <= 1 /\ keyed'[r] <= 1 /\ (r \in Requests => plain'[r] + keyed'[r] <= 1)
      /\ t[2] = TRUE => plain'[r] = plain[r]
  <2>1. /\ plain[r] <= 1 /\ keyed[r] <= 1 /\ (r \in Requests => plain[r] + keyed[r] <= 1)
    BY <1>1, <1>2, CountedParts
  <2>2. CASE UNCHANGED table
    BY <1>1, <2>1, <2>2 DEF table, Stored
  <2>3. CASE InsertKeyed(r)
    BY <1>1, <1>2, <2>1, <2>3, InsertedKeyed
  <2>4. CASE t[2] = FALSE /\ InsertPlain(r)
    BY <1>1, <1>2, <1>4, <2>1, <2>4, InsertedPlain
  <2> QED
    BY <1>6, <2>2, <2>3, <2>4
<1>8. Alone' /\ Fresh' /\ Queued' = Queued /\ InFlight' = InFlight
  BY <1>1, <1>3, <1>5, <1>7, Elsewhere
<1>9. Typed' /\ ReplayOff'
  BY <1>1, <1>7 DEF Typed, ReplayOff
<1>10. Late'
  <2>1. \A s \in Records : <<s, FALSE>> \in threads' => plain'[s] = 0
    <3> SUFFICES ASSUME NEW s \in Records, <<s, FALSE>> \in threads' PROVE plain'[s] = 0
      OBVIOUS
    <3>1. <<s, FALSE>> \in threads /\ <<s, FALSE>> # t /\ plain[s] = 0
      BY <1>1 DEF Late
    <3>2. s # r \/ t[2] = TRUE
      BY <1>2, <3>1
    <3> QED
      BY <1>7, <3>1, <3>2
  <2>2. \A s \in Records \ overrun' : plain'[s] = 1 => keyed'[s] = 0 /\ s \notin Lines'
    BY <1>1, <1>4, <1>5, <1>7 DEF Late
  <2> QED
    BY <1>1, <1>3, <2>1, <2>2 DEF Late
<1>11. CountedOnce'
  <2>1. \A s \in Records :
          /\ plain'[s] <= 1 /\ keyed'[s] <= 1
          /\ s \in Requests \/ s \notin overrun' => plain'[s] + keyed'[s] <= 1
    BY <1>1, <1>4, <1>7, CountedParts
  <2> QED
    BY <1>9, <2>1, CountedPartsLater
<1>12. NoRecordVanishes'
  BY <1>1, <1>7, <1>8 DEF NoRecordVanishes, InMemory, Queued
<1> QED
  BY <1>8, <1>9, <1>10, <1>11, <1>12 DEF IInv

LEMMA BeginReplayStep ==
  ASSUME IInv, BeginReplay
  PROVE  IInv'
<1>1. /\ Typed /\ ReplayOff /\ Alone /\ Fresh /\ Late /\ NoRecordVanishes /\ CountedOnce
      /\ replayer = "due" /\ replayer' = "on" /\ replay' = file /\ file' = {} /\ phase # "down"
      /\ UNCHANGED <<phase, coming, queue, writing, threads, failed, plain, keyed,
                     dropped, forgone, overrun>>
  BY DEF IInv, BeginReplay, table, ReplayOff
<1>2. Lines' = Lines /\ file \subseteq replay'
  BY <1>1 DEF Lines, ReplayOff
<1>3. /\ Queued' = Queued /\ InFlight' = InFlight /\ Abandoned' = Abandoned
      /\ Stored' = Stored
  BY <1>1 DEF Queued, InFlight, Abandoned, Stored
<1>4. Typed' /\ ReplayOff' /\ Alone'
  BY <1>1, <1>3 DEF Typed, ReplayOff, Alone
<1>5. Fresh' /\ Late' /\ CountedOnce'
  BY <1>1, <1>2, <1>3 DEF Fresh, Untouched, Late, CountedOnce
<1>6. NoRecordVanishes'
  BY <1>1, <1>2, <1>3 DEF NoRecordVanishes, InMemory, Queued, ReplayOff
<1> QED
  BY <1>4, <1>5, <1>6 DEF IInv

LEMMA ReplayWritesStep ==
  ASSUME IInv, NEW r \in Records, ReplayWrites(r)
  PROVE  IInv'
<1>1. /\ Typed /\ ReplayOff /\ Alone /\ Fresh /\ Late /\ NoRecordVanishes /\ CountedOnce
      /\ replayer = "on" /\ r \in replay /\ replay' = replay \ {r} /\ InsertKeyed(r)
      /\ UNCHANGED <<phase, coming, queue, writing, threads, file, failed, replayer,
                     dropped, forgone, overrun>>
  BY DEF IInv, ReplayWrites
<1>2. r \in Lines /\ Lines' \subseteq Lines /\ Abandoned' = Abandoned
  BY <1>1 DEF Lines, Abandoned
<1>3. /\ plain' = plain /\ keyed' \in [Records -> Nat]
      /\ \A s \in Records \ {r} : keyed'[s] = keyed[s]
      /\ Stored' = Stored \cup {r}
      /\ keyed'[r] <= 1 /\ (r \in Requests => plain'[r] + keyed'[r] <= 1)
  BY <1>1, InsertedKeyed
<1>4. /\ plain[r] \in Nat /\ plain[r] <= 1
      /\ r \notin overrun => plain[r] = 0
  BY <1>1, <1>2, CountedParts DEF Typed, Late
<1>5. Alone' /\ Fresh' /\ Queued' = Queued /\ InFlight' = InFlight
  BY <1>1, <1>2, <1>3, Elsewhere
<1>6. Typed' /\ ReplayOff'
  BY <1>1, <1>3 DEF Typed, ReplayOff
<1>7. Late'
  BY <1>1, <1>2, <1>3, <1>4 DEF Late
<1>8. CountedOnce'
  <2>1. keyed'[r] \in Nat
    BY <1>3
  <2>2. \A s \in Records :
          /\ plain'[s] <= 1 /\ keyed'[s] <= 1
          /\ s \in Requests \/ s \notin overrun' => plain'[s] + keyed'[s] <= 1
    BY <1>1, <1>3, <1>4, <2>1, CountedParts
  <2> QED
    BY <1>6, <2>2, CountedPartsLater
<1>9. NoRecordVanishes'
  BY <1>1, <1>3, <1>5 DEF NoRecordVanishes, InMemory, Queued
<1> QED
  BY <1>5, <1>6, <1>7, <1>8, <1>9 DEF IInv

LEMMA ReplayGivesUpStep ==
  ASSUME IInv, NEW r \in Records, NEW begun \in BOOLEAN, ReplayGivesUp(r, begun)
  PROVE  IInv'
<1>1. /\ Typed /\ ReplayOff /\ Alone /\ Fresh /\ Late /\ NoRecordVanishes /\ CountedOnce
      /\ replayer = "on" /\ r \in replay /\ replay' = replay \ {r} /\ failed' = failed \cup {r}
      /\ Abandon(r, begun, TRUE)
      /\ UNCHANGED <<phase, coming, queue, writing, file, replayer, plain, keyed,
                     dropped, forgone>>
  BY DEF IInv, ReplayGivesUp, table
<1>2. r \in Lines /\ Lines' = Lines
  BY <1>1 DEF Lines
<1>3. /\ threads' \subseteq Records \X BOOLEAN
      /\ Abandoned' = IF begun THEN Abandoned \cup {r} ELSE Abandoned
      /\ overrun' = IF begun THEN overrun \cup {r} ELSE overrun
      /\ \A s \in Records : <<s, FALSE>> \in threads' => <<s, FALSE>> \in threads
  BY <1>1, ReplayThreadGoesOn
<1>4. Alone' /\ Fresh' /\ Queued' = Queued /\ InFlight' = InFlight
  <2>1. Abandoned' \subseteq Abandoned \cup {r}
    BY <1>3
  <2> QED
    BY <1>1, <1>2, <2>1, Elsewhere
<1>5. Typed' /\ ReplayOff'
  BY <1>1, <1>3 DEF Typed, ReplayOff
<1>6. Late'
  <2>1. Abandoned' \subseteq overrun' /\ overrun \subseteq overrun'
    BY <1>1, <1>3 DEF Late
  <2> QED
    BY <1>1, <1>2, <1>3, <2>1 DEF Late
<1>7. CountedOnce'
  <2>1. overrun \subseteq overrun'
    BY <1>3
  <2> QED
    BY <1>1, <2>1 DEF CountedOnce
<1>8. NoRecordVanishes'
  <2>1. Stored' = Stored
    BY <1>1 DEF Stored
  <2> QED
    BY <1>1, <1>4, <2>1 DEF NoRecordVanishes, InMemory, Queued
<1> QED
  BY <1>4, <1>5, <1>6, <1>7, <1>8 DEF IInv

LEMMA EndReplayStep ==
  ASSUME IInv, NEW appended \in BOOLEAN, EndReplay(appended)
  PROVE  IInv'
<1>1. /\ Typed /\ ReplayOff /\ Alone /\ Fresh /\ Late /\ NoRecordVanishes /\ CountedOnce
      /\ replay = {} /\ replayer' = "off" /\ failed' = {}
      /\ file' = (IF appended THEN file \cup failed ELSE file)
      /\ dropped' = (IF appended THEN dropped ELSE dropped \cup failed)
      /\ UNCHANGED <<phase, coming, queue, writing, threads, replay, plain, keyed,
                     forgone, overrun>>
  BY DEF IInv, EndReplay, table
<1>2. Lines' \subseteq Lines /\ file' \cup dropped' = file \cup dropped \cup failed
  BY <1>1 DEF Lines
<1>3. /\ Queued' = Queued /\ InFlight' = InFlight /\ Abandoned' = Abandoned
      /\ Stored' = Stored
  BY <1>1 DEF Queued, InFlight, Abandoned, Stored
<1>4. Typed' /\ ReplayOff' /\ Alone'
  BY <1>1, <1>3 DEF Typed, ReplayOff, Alone
<1>5. Fresh' /\ Late' /\ CountedOnce'
  BY <1>1, <1>2, <1>3 DEF Fresh, Untouched, Late, CountedOnce
<1>6. NoRecordVanishes'
  BY <1>1, <1>2, <1>3 DEF NoRecordVanishes, InMemory, Queued
<1> QED
  BY <1>4, <1>5, <1>6 DEF IInv

LEMMA NobodyWrites ==
  ASSUME Typed, writing' = [w \in Workers |-> Idle]
  PROVE  /\ writing' \in [Workers -> Records \cup {Idle}] /\ InFlight' = {}
         /\ \A w \in Workers : writing'[w] = Idle
  BY DEF InFlight

LEMMA StopWorkersStep ==
  ASSUME IInv, NEW begun \in SUBSET Records, StopWorkers(begun)
  PROVE  IInv'
<1>1. /\ Typed /\ ReplayOff /\ Alone /\ Fresh /\ Late /\ NoRecordVanishes /\ CountedOnce
      /\ begun \subseteq InFlight /\ phase = "running" /\ phase' = "draining"
      /\ writing' = [w \in Workers |-> Idle]
      /\ threads' = threads \cup {<<r, FALSE>> : r \in begun}
      /\ overrun' = overrun \cup begun /\ forgone' = forgone \cup InFlight
      /\ UNCHANGED <<coming, queue, file, replay, failed, replayer, plain, keyed, dropped>>
  BY DEF IInv, StopWorkers, table, reading
<1>2. /\ writing' \in [Workers -> Records \cup {Idle}] /\ InFlight' = {}
      /\ \A w \in Workers : writing'[w] = Idle
  BY <1>1, NobodyWrites
<1>3. Queued' = Queued /\ Lines' = Lines /\ Stored' = Stored
  BY <1>1 DEF Queued, Lines, Stored
<1>4. Abandoned' = Abandoned \cup begun
  <2>1. \A r \in begun : <<r, FALSE>>[1] = r
    OBVIOUS
  <2>2. {t[1] : t \in threads'} \subseteq {t[1] : t \in threads} \cup begun
    BY <1>1, <2>1, ZenonT(60)
  <2>3. {t[1] : t \in threads} \subseteq {t[1] : t \in threads'}
    BY <1>1
  <2>4. \A r \in begun : r \in {t[1] : t \in threads'}
    <3> SUFFICES ASSUME NEW r \in begun PROVE r \in {t[1] : t \in threads'}
      OBVIOUS
    <3> DEFINE t == <<r, FALSE>>
    <3>1. t \in threads' /\ t[1] = r
      BY <1>1
    <3> HIDE DEF t
    <3> QED
      BY <3>1
  <2> QED
    BY <2>2, <2>3, <2>4 DEF Abandoned
<1>5. threads' \subseteq Records \X BOOLEAN
  <2>1. \A r \in begun : <<r, FALSE>> \in Records \X BOOLEAN
    OBVIOUS
  <2> QED
    BY <1>1, <2>1, ZenonT(60) DEF Typed
<1>6. Typed' /\ ReplayOff'
  BY <1>1, <1>2, <1>5 DEF Typed, ReplayOff
<1>7. Alone'
  BY <1>1, <1>2, <1>3 DEF Alone
<1>8. Fresh'
  <2>1. \A s \in coming \cup Queued : s \notin begun
    BY <1>1 DEF Fresh, Alone
  <2> QED
    BY <1>1, <1>2, <1>3, <1>4, <2>1 DEF Fresh, Untouched
<1>9. Late'
  <2>1. \A s \in Records : <<s, FALSE>> \in threads' => <<s, FALSE>> \in threads \/ s \in begun
    BY <1>1
  <2>2. \A s \in begun : plain[s] = 0
    BY <1>1 DEF Fresh, Untouched
  <2> QED
    BY <1>1, <1>3, <1>4, <2>1, <2>2 DEF Late
<1>10. CountedOnce'
  BY <1>1 DEF CountedOnce
<1>11. NoRecordVanishes'
  BY <1>1, <1>2, <1>3 DEF NoRecordVanishes, InMemory, Queued
<1> QED
  BY <1>6, <1>7, <1>8, <1>9, <1>10, <1>11 DEF IInv

LEMMA CrashStep ==
  ASSUME IInv, Crash
  PROVE  IInv'
<1>1. /\ Typed /\ ReplayOff /\ Alone /\ Fresh /\ Late /\ NoRecordVanishes /\ CountedOnce
      /\ queue' = <<>> /\ threads' = {} /\ replay' = {} /\ failed' = {} /\ replayer' = "off"
      /\ writing' = [w \in Workers |-> Idle]
      /\ forgone' = forgone \cup InMemory \cup Abandoned
      /\ UNCHANGED <<coming, file, plain, keyed, dropped, overrun>>
  BY DEF IInv, Crash, table
<1>2. /\ writing' \in [Workers -> Records \cup {Idle}] /\ InFlight' = {}
      /\ \A w \in Workers : writing'[w] = Idle
  BY <1>1, NobodyWrites
<1>3. /\ Queued' = {} /\ Abandoned' = {} /\ Lines' \subseteq Lines /\ Stored' = Stored
      /\ queue' \in Seq(Records) /\ DOMAIN queue' = {}
  BY <1>1 DEF Queued, Abandoned, Lines, Stored
<1>4. Typed' /\ ReplayOff' /\ Alone'
  BY <1>1, <1>2, <1>3 DEF Typed, ReplayOff, Alone
<1>5. Fresh' /\ Late' /\ CountedOnce'
  BY <1>1, <1>2, <1>3 DEF Fresh, Untouched, Late, CountedOnce
<1>6. NoRecordVanishes'
  BY <1>1, <1>3 DEF NoRecordVanishes, InMemory
<1> QED
  BY <1>4, <1>5, <1>6 DEF IInv

\* A process that starts or has stopped moves no record.
LEMMA QuietStep ==
  ASSUME IInv, ReplayOff',
         UNCHANGED <<coming, queue, writing, threads, file, replay, failed, plain, keyed,
                     dropped, forgone, overrun>>
  PROVE  IInv'
<1>1. /\ Queued' = Queued /\ InFlight' = InFlight /\ Abandoned' = Abandoned
      /\ Lines' = Lines /\ Stored' = Stored
  BY DEF Queued, InFlight, Abandoned, Lines, Stored
<1>2. Typed' /\ Alone'
  BY <1>1 DEF IInv, Typed, Alone
<1>3. Fresh' /\ Late' /\ CountedOnce' /\ NoRecordVanishes'
  BY <1>1 DEF IInv, Fresh, Untouched, Late, CountedOnce, NoRecordVanishes, InMemory, Queued
<1> QED
  BY <1>2, <1>3 DEF IInv

-----------------------------------------------------------------------------
(* The theorems *)

LEMMA Initially == Init => IInv
<1> SUFFICES ASSUME Init PROVE IInv
  OBVIOUS
<1>1. /\ InFlight = {} /\ Queued = {} /\ Lines = {} /\ Abandoned = {}
      /\ DOMAIN queue = {} /\ queue \in Seq(Records)
      /\ \A w \in Workers : writing[w] = Idle
  BY DEF Init, InFlight, Queued, Lines, Abandoned
<1>2. Typed /\ ReplayOff /\ Alone
  BY <1>1 DEF Init, Typed, ReplayOff, Alone
<1>3. Fresh /\ Late
  BY <1>1 DEF Init, Fresh, Untouched, Late
<1>4. NoRecordVanishes /\ CountedOnce
  <2>1. \A r \in Records : plain[r] = 0 /\ keyed[r] = 0
    BY DEF Init
  <2>2. Requests \subseteq Records
    BY WriteBehindAssumption DEF WriteBehindAssumption
  <2> QED
    BY <2>1, <2>2 DEF Init, NoRecordVanishes, CountedOnce
<1> QED
  BY <1>2, <1>3, <1>4 DEF IInv

LEMMA Step == IInv /\ [Next]_vars => IInv'
<1> SUFFICES ASSUME IInv, [Next]_vars PROVE IInv'
  OBVIOUS
<1>1. ASSUME NEW w \in Workers, Take(w) PROVE IInv'
  BY <1>1, TakeStep
<1>2. ASSUME NEW w \in Workers, Commit(w) PROVE IInv'
  BY <1>2, CommitStep
<1>3. ASSUME NEW w \in Workers, NEW begun \in BOOLEAN, NEW appended \in BOOLEAN,
             GiveUp(w, begun, appended)
      PROVE IInv'
  BY <1>3, GiveUpStep
<1>4. CASE BeginReplay
  BY <1>4, BeginReplayStep
<1>5. ASSUME NEW r \in Records, ReplayWrites(r) PROVE IInv'
  BY <1>5, ReplayWritesStep
<1>6. ASSUME NEW r \in Records, NEW begun \in BOOLEAN, ReplayGivesUp(r, begun) PROVE IInv'
  BY <1>6, ReplayGivesUpStep
<1>7. ASSUME NEW appended \in BOOLEAN, EndReplay(appended) PROVE IInv'
  BY <1>7, EndReplayStep
<1>8. CASE DrainCommits
  BY <1>8, DrainCommitsStep
<1>9. ASSUME NEW begun \in BOOLEAN, NEW appended \in BOOLEAN, DrainGivesUp(begun, appended)
      PROVE IInv'
  BY <1>9, DrainGivesUpStep
<1>10. CASE Stopped
  <2>1. ReplayOff'
    BY <1>10 DEF Stopped, ReplayOff, IInv, reading
  <2> QED
    BY <1>10, <2>1, QuietStep DEF Stopped, reading, table
<1>11. ASSUME NEW r \in Records, NEW appended \in BOOLEAN, Enqueue(r, appended) PROVE IInv'
  BY <1>11, EnqueueStep
<1>12. ASSUME NEW t \in threads, NEW written \in BOOLEAN, ThreadEnds(t, written) PROVE IInv'
  BY <1>12, ThreadEndsStep
<1>13. ASSUME NEW begun \in SUBSET Records, StopWorkers(begun) PROVE IInv'
  BY <1>13, StopWorkersStep
<1>14. CASE Crash
  BY <1>14, CrashStep
<1>15. CASE Start
  <2>1. ReplayOff'
    BY <1>15 DEF Start, ReplayOff, IInv
  <2> QED
    BY <1>15, <2>1, QuietStep DEF Start, table
<1>16. CASE UNCHANGED vars
  <2>1. ReplayOff'
    BY <1>16 DEF vars, reading, ReplayOff, IInv
  <2> QED
    BY <1>16, <2>1, QuietStep DEF vars, reading, table
<1>17. CASE Work
  BY <1>1, <1>2, <1>3, <1>4, <1>5, <1>6, <1>7, <1>8, <1>9, <1>10, <1>17 DEF Work
<1> QED
  BY <1>11, <1>12, <1>13, <1>14, <1>15, <1>16, <1>17 DEF Next

LEMMA Invariance == Spec => []IInv
  BY Initially, Step, PTL DEF Spec

\* Whatever the number of records and workers, the capacity, the crashes and the
\* stops: no record leaves queue, workers, file and table together unaccounted for
\* (db_write_behind.py).
THEOREM NothingVanishes == Spec => []NoRecordVanishes
<1>1. IInv => NoRecordVanishes
  BY DEF IInv
<1> QED
  BY <1>1, Invariance, PTL

\* A worker, a thread nobody waits for and a replay never count the same request
\* twice, nor the same context-shaping record unless a write outlived its limit
\* (db_write_behind.py; stats.py, the UNIQUE index and the receipts).
THEOREM CountedAtMostOnce == Spec => []CountedOnce
<1>1. IInv => CountedOnce
  BY DEF IInv
<1> QED
  BY <1>1, Invariance, PTL

-----------------------------------------------------------------------------
(* Statistics over the queue: what a row's arrival leaves as it was *)

Kept == Requests \cap Stored

DaysTyped ==
  /\ today \in Days
  /\ day \in [Records -> 0..LastDay]
  /\ daily \in [Days -> SUBSET Requests]
  /\ \A r \in Records \ coming : day[r] \in 1..today

\* An aggregate counts rows of its day only; a row it does not count came later.
Sums ==
  /\ \A d \in Days : daily[d] \subseteq Rows(d)
  /\ \A r \in Kept : r \in daily[day[r]] \/ daily[day[r]] = {} \/ r \in late

\* The past days of the rows a refresh found have an aggregate or will be given one.
RefreshSound ==
  /\ refresh.missing \subseteq Days
  /\ refresh.step = "missing" =>
       /\ refresh.today \in Days /\ refresh.today <= today /\ today <= refresh.today + 1
       /\ \A r \in refresh.seen :
            /\ r \in Kept /\ day[r] <= refresh.today
            /\ day[r] < refresh.today => daily[day[r]] # {} \/ day[r] \in refresh.missing

SettledSound == settled.seen \subseteq Kept /\ AggregatesAddUp

ReportSound ==
  /\ \A s \in report.shown : s.day \in Days /\ s.rows \subseteq Rows(s.day)
  /\ \A s, t \in report.shown : s.day = t.day => s = t
  /\ report.due \subseteq Kept
  /\ report.step \in {"rows", "today"} /\ ~report.midnight => report.due \subseteq Rows(today)
  /\ report.step = "done" /\ ~report.midnight =>
       \A r \in report.due : \E s \in report.shown : s.day = day[r] /\ r \in s.rows

SInv == IInv /\ DaysTyped /\ Sums /\ RefreshSound /\ SettledSound /\ ReportSound

\* A step of the queue writes into the table or takes a record in, never both.
LEMMA TableGrows ==
  ASSUME IInv, [Next]_vars
  PROVE  Stored \subseteq Stored' /\ coming' \subseteq coming
         /\ (Stored' = Stored \/ coming' = coming)
<1>1. \A r \in Records : plain[r] \in Nat /\ keyed[r] \in Nat
  BY DEF IInv, Typed
<1>2. ASSUME NEW r, InsertPlain(r) PROVE Stored \subseteq Stored'
  BY <1>1, <1>2 DEF InsertPlain, Stored, IInv, Typed
<1>3. ASSUME NEW r, InsertKeyed(r) PROVE Stored \subseteq Stored'
  BY <1>1, <1>3 DEF InsertKeyed, Stored, IInv, Typed
<1>4. ASSUME UNCHANGED table PROVE Stored' = Stored
  BY <1>4 DEF table, Stored
<1>5. ASSUME NEW w \in Workers, Take(w) PROVE Stored' = Stored /\ coming' = coming
  BY <1>4, <1>5 DEF Take
<1>6. ASSUME NEW w \in Workers, Commit(w) PROVE Stored \subseteq Stored' /\ coming' = coming
  BY <1>2, <1>6 DEF Commit
<1>7. ASSUME NEW w \in Workers, NEW begun \in BOOLEAN, NEW appended \in BOOLEAN,
             GiveUp(w, begun, appended)
      PROVE Stored' = Stored /\ coming' = coming
  BY <1>4, <1>7 DEF GiveUp
<1>8. CASE BeginReplay
  BY <1>4, <1>8 DEF BeginReplay
<1>9. ASSUME NEW r \in Records, ReplayWrites(r) PROVE Stored \subseteq Stored' /\ coming' = coming
  BY <1>3, <1>9 DEF ReplayWrites
<1>10. ASSUME NEW r \in Records, NEW begun \in BOOLEAN, ReplayGivesUp(r, begun)
       PROVE Stored' = Stored /\ coming' = coming
  BY <1>4, <1>10 DEF ReplayGivesUp
<1>11. ASSUME NEW appended \in BOOLEAN, EndReplay(appended) PROVE Stored' = Stored /\ coming' = coming
  BY <1>4, <1>11 DEF EndReplay
<1>12. CASE DrainCommits
  BY <1>2, <1>12 DEF DrainCommits
<1>13. ASSUME NEW begun \in BOOLEAN, NEW appended \in BOOLEAN, DrainGivesUp(begun, appended)
       PROVE Stored' = Stored /\ coming' = coming
  BY <1>4, <1>13 DEF DrainGivesUp
<1>14. CASE Stopped
  BY <1>4, <1>14 DEF Stopped
<1>15. ASSUME NEW r \in Records, NEW appended \in BOOLEAN, Enqueue(r, appended)
       PROVE Stored' = Stored /\ coming' \subseteq coming
  BY <1>4, <1>15 DEF Enqueue
<1>16. ASSUME NEW t \in threads, NEW written \in BOOLEAN, ThreadEnds(t, written)
       PROVE Stored \subseteq Stored' /\ coming' = coming
  BY <1>2, <1>3, <1>4, <1>16 DEF ThreadEnds
<1>17. ASSUME NEW begun \in SUBSET Records, StopWorkers(begun) PROVE Stored' = Stored /\ coming' = coming
  BY <1>4, <1>17 DEF StopWorkers
<1>18. CASE Crash
  BY <1>4, <1>18 DEF Crash
<1>19. CASE Start
  BY <1>4, <1>19 DEF Start
<1>20. CASE UNCHANGED vars
  BY <1>4, <1>20 DEF vars
<1>21. CASE Work
  BY <1>5, <1>6, <1>7, <1>8, <1>9, <1>10, <1>11, <1>12, <1>13, <1>14, <1>21 DEF Work
<1> QED
  BY <1>15, <1>16, <1>17, <1>18, <1>19, <1>20, <1>21 DEF Next

\* A record not yet taken in has no row.
LEMMA NoRowBefore == ASSUME IInv PROVE Stored \cap coming = {}
  BY DEF IInv, Fresh, Untouched, Stored

\* Every row has a day, not after today, and is among the rows of that day only.
LEMMA RowsOfADay ==
  ASSUME IInv, DaysTyped
  PROVE  /\ Kept \subseteq Records /\ Kept \cap coming = {}
         /\ \A r \in Kept : day[r] \in Days /\ day[r] <= today /\ r \in Rows(day[r])
         /\ \A d : \A r \in Rows(d) : r \in Kept /\ day[r] = d
         /\ \A d \in Days : d > today => Rows(d) = {}
<1>1. Kept \subseteq Records /\ Kept \cap coming = {}
  BY NoRowBefore DEF Kept, Stored
<1>2. \A r \in Kept : day[r] \in Days /\ day[r] <= today
  BY <1>1, StatisticsAssumption DEF DaysTyped, Days, StatisticsAssumption
<1>3. \A d : \A r \in Rows(d) : r \in Kept /\ day[r] = d
  BY DEF Rows, Kept
<1>4. \A d \in Days : d > today => Rows(d) = {}
  BY <1>2, <1>3 DEF Days, DaysTyped
<1>5. \A r \in Kept : r \in Rows(day[r])
  BY DEF Rows, Kept
<1> QED
  BY <1>1, <1>2, <1>3, <1>4, <1>5

-----------------------------------------------------------------------------
(* Refreshes and aggregations *)

\* Aggregates made anew lose nothing they counted before.
LEMMA AggregatedAnew ==
  ASSUME IInv, DaysTyped, Sums, NEW first \in Int, NEW last \in Int,
         daily' = Aggregated(first, last)
  PROVE  /\ daily' \in [Days -> SUBSET Requests]
         /\ \A d \in Days : daily[d] \subseteq daily'[d] /\ daily'[d] \subseteq Rows(d)
         /\ \A d \in Days : first <= d /\ d <= last => daily'[d] = Rows(d)
         /\ \A r \in Kept : r \in daily'[day[r]] \/ daily'[day[r]] = {} \/ r \in late
<1>1. \A d \in Days : daily'[d] = IF first <= d /\ d <= last THEN Rows(d) ELSE daily[d]
  BY DEF Aggregated, Days
<1>2. \A d \in Days : Rows(d) \subseteq Requests /\ daily[d] \subseteq Rows(d)
  BY DEF Rows, Sums
<1>3. daily' \in [Days -> SUBSET Requests]
  BY <1>2 DEF Aggregated, DaysTyped
<1>4. \A r \in Kept : day[r] \in Days /\ r \in Rows(day[r])
  BY RowsOfADay
<1> QED
  BY <1>1, <1>2, <1>3, <1>4 DEF Sums

\* What refreshes, aggregations and reports leave alone.
LEMMA RowsStay ==
  ASSUME UNCHANGED <<vars, today, day>>
  PROVE  /\ Stored' = Stored /\ Kept' = Kept /\ (IInv => IInv')
         /\ \A d : Rows(d)' = Rows(d)
<1>1. Stored' = Stored
  BY DEF vars, table, Stored
<1>2. IInv => IInv'
  BY Step
<1> QED
  BY <1>1, <1>2 DEF Kept, Rows

\* Any aggregation keeps what a refresh and a report under way rely on.
LEMMA AggregationKeeps ==
  ASSUME SInv, NEW first \in Int, NEW last \in Int, daily' = Aggregated(first, last),
         UNCHANGED <<vars, today, day, report, late>>
  PROVE  /\ IInv' /\ DaysTyped' /\ Sums' /\ ReportSound'
         /\ settled' = settled => SettledSound'
         /\ refresh' = refresh => RefreshSound'
<1>1. IInv /\ DaysTyped /\ Sums /\ RefreshSound /\ SettledSound /\ ReportSound
  BY DEF SInv
<1>2. Kept' = Kept /\ IInv' /\ \A d : Rows(d)' = Rows(d)
  BY <1>1, RowsStay
<1>3. /\ daily' \in [Days -> SUBSET Requests]
      /\ \A d \in Days : daily[d] \subseteq daily'[d] /\ daily'[d] \subseteq Rows(d)
      /\ \A r \in Kept : r \in daily'[day[r]] \/ daily'[day[r]] = {} \/ r \in late
  BY <1>1, AggregatedAnew
<1>4. \A r \in Kept : day[r] \in Days
  BY <1>1, RowsOfADay
<1>5. DaysTyped'
  BY <1>1, <1>3 DEF DaysTyped, vars
<1>6. Sums'
  BY <1>2, <1>3 DEF Sums
<1>7. ReportSound'
  BY <1>1, <1>2 DEF ReportSound
<1>8. ASSUME settled' = settled PROVE SettledSound'
  BY <1>1, <1>2, <1>3, <1>4, <1>8 DEF SettledSound, AggregatesAddUp
<1>9. ASSUME refresh' = refresh PROVE RefreshSound'
  BY <1>1, <1>2, <1>3, <1>4, <1>9 DEF RefreshSound
<1> QED
  BY <1>2, <1>5, <1>6, <1>7, <1>8, <1>9

LEMMA BeginRefreshStep ==
  ASSUME SInv, BeginRefresh
  PROVE  SInv'
<1>1. /\ IInv /\ DaysTyped /\ Sums /\ RefreshSound /\ SettledSound /\ ReportSound
      /\ refresh' = [step |-> "missing", missing |-> MissingDays, today |-> today, seen |-> Kept]
      /\ UNCHANGED <<vars, today, day, daily, report, late, settled>>
  BY DEF SInv, BeginRefresh, Kept
<1>2. Kept' = Kept /\ IInv' /\ \A d : Rows(d)' = Rows(d)
  BY <1>1, RowsStay
<1>3. DaysTyped' /\ Sums' /\ SettledSound' /\ ReportSound'
  BY <1>1, <1>2 DEF DaysTyped, Sums, SettledSound, AggregatesAddUp, ReportSound, vars
<1>4. RefreshSound'
  <2>1. \A r \in Kept : day[r] \in Days /\ day[r] <= today /\ r \in Rows(day[r])
    BY <1>1, RowsOfADay
  <2>2. \A r \in Kept : day[r] < today => daily[day[r]] # {} \/ day[r] \in MissingDays
    BY <2>1 DEF MissingDays
  <2>3. MissingDays \subseteq Days /\ today \in Days /\ today <= today /\ today <= today + 1
    BY <1>1 DEF MissingDays, DaysTyped, Days
  <2> QED
    BY <1>1, <1>2, <2>1, <2>2, <2>3 DEF RefreshSound
<1> QED
  BY <1>2, <1>3, <1>4 DEF SInv

LEMMA FillMissingStep ==
  ASSUME SInv, FillMissing
  PROVE  SInv'
<1>1. /\ IInv /\ DaysTyped /\ Sums /\ RefreshSound /\ SettledSound /\ ReportSound
      /\ refresh.step = "missing"
      /\ UNCHANGED <<vars, today, day, report, late, settled>>
  BY DEF SInv, FillMissing
<1>2. PICK d \in refresh.missing :
        daily' = Aggregated(d, d) /\ refresh' = [refresh EXCEPT !.missing = @ \ {d}]
  BY DEF FillMissing
<1>3. d \in Days /\ d \in Int
  BY <1>1, <1>2 DEF RefreshSound, Days
<1>4. IInv' /\ DaysTyped' /\ Sums' /\ SettledSound' /\ ReportSound'
  BY <1>1, <1>2, <1>3, AggregationKeeps
<1>5. /\ \A e \in Days : daily[e] \subseteq daily'[e]
      /\ daily'[d] = Rows(d)
  BY <1>1, <1>2, <1>3, AggregatedAnew
<1>6. Kept' = Kept /\ \A r \in Kept : day[r] \in Days /\ r \in Rows(day[r])
  BY <1>1, RowsStay, RowsOfADay
<1>7. RefreshSound'
  <2>1. ASSUME refresh'.step = "missing"
        PROVE  /\ refresh'.today = refresh.today /\ refresh'.seen = refresh.seen
    BY <1>2, <2>1
  <2>2. refresh'.missing \subseteq Days
    BY <1>1, <1>2 DEF RefreshSound
  <2>3. ASSUME refresh'.step = "missing", NEW r \in refresh.seen, day[r] < refresh.today
        PROVE  daily'[day[r]] # {} \/ day[r] \in refresh'.missing
    <3>1. r \in Kept /\ (daily[day[r]] # {} \/ day[r] \in refresh.missing)
      BY <1>1, <2>3 DEF RefreshSound
    <3>2. CASE day[r] = d
      BY <1>5, <1>6, <3>1, <3>2
    <3>3. CASE day[r] # d
      <4>1. refresh'.missing = refresh.missing \ {d}
        BY <1>1, <1>2, <2>3
      <4> QED
        BY <1>5, <1>6, <3>1, <3>3, <4>1
    <3> QED
      BY <3>2, <3>3
  <2> QED
    BY <1>1, <1>6, <2>1, <2>2, <2>3 DEF RefreshSound
<1> QED
  BY <1>4, <1>7 DEF SInv

\* What has an aggregate is in it, or came too late; what has none is made anew.
LEMMA RefreshRecentStep ==
  ASSUME SInv, RefreshRecent
  PROVE  SInv'
<1>1. /\ IInv /\ DaysTyped /\ Sums /\ RefreshSound /\ SettledSound /\ ReportSound
      /\ refresh.step = "missing" /\ refresh.missing = {}
      /\ daily' = Aggregated(today - RecentDays + 1, today)
      /\ settled' = [seen |-> refresh.seen, today |-> today] /\ refresh' = NoRefresh
      /\ UNCHANGED <<vars, today, day, report, late>>
  BY DEF SInv, RefreshRecent
<1>2. today \in Int /\ RecentDays \in Int /\ RecentDays >= 2
  BY <1>1, StatisticsAssumption DEF DaysTyped, Days, StatisticsAssumption
<1>3. IInv' /\ DaysTyped' /\ Sums' /\ ReportSound'
  BY <1>1, <1>2, AggregationKeeps
<1>4. Kept' = Kept /\ \A r \in Kept : day[r] \in Days /\ day[r] <= today /\ r \in Rows(day[r])
  BY <1>1, RowsStay, RowsOfADay
<1>5. /\ \A d \in Days : daily[d] \subseteq daily'[d]
      /\ \A d \in Days : today - RecentDays + 1 <= d /\ d <= today => daily'[d] = Rows(d)
  BY <1>1, <1>2, AggregatedAnew
<1>6. ASSUME NEW r \in refresh.seen
      PROVE  r \in Kept /\ (r \in daily'[day[r]] \/ (r \in late /\ day[r] <= today - RecentDays))
  <2>1. /\ r \in Kept /\ day[r] \in Days /\ day[r] \in Int /\ day[r] <= today
        /\ refresh.today \in Int /\ today <= refresh.today + 1
        /\ day[r] < refresh.today => daily[day[r]] # {}
    BY <1>1, <1>4 DEF RefreshSound, Days
  <2>2. CASE today - RecentDays + 1 <= day[r]
    <3>1. daily'[day[r]] = Rows(day[r])
      BY <1>5, <2>1, <2>2
    <3>2. r \in Rows(day[r])
      BY <1>4, <2>1
    <3> QED
      BY <2>1, <3>1, <3>2
  <2>3. CASE ~(today - RecentDays + 1 <= day[r])
    <3>1. day[r] <= today - RecentDays /\ day[r] < refresh.today
      BY <1>2, <2>1, <2>3
    <3>2. r \in daily[day[r]] \/ r \in late
      BY <1>1, <2>1, <3>1 DEF Sums
    <3> QED
      BY <1>5, <2>1, <3>1, <3>2
  <2> QED
    BY <2>2, <2>3
<1>7. SettledSound'
  BY <1>1, <1>4, <1>6 DEF SettledSound, AggregatesAddUp
<1>8. RefreshSound'
  BY <1>1 DEF RefreshSound, NoRefresh
<1> QED
  BY <1>3, <1>7, <1>8 DEF SInv

-----------------------------------------------------------------------------
(* Reports *)

\* Entries made of aggregates, or of the rows, are one a day and show rows of it.
LEMMA Entries ==
  ASSUME IInv, DaysTyped, Sums
  PROVE  /\ \A s \in FromAggregates : s.day \in Days /\ s.rows \subseteq Rows(s.day)
         /\ \A s, t \in FromAggregates : s.day = t.day => s = t
         /\ \A first : \A s \in FromRows(first) : s.day \in Days /\ s.rows = Rows(s.day)
         /\ \A first : \A s, t \in FromRows(first) : s.day = t.day => s = t
         /\ \A first : \A d \in Days : d >= first /\ Rows(d) # {} =>
              \E s \in FromRows(first) : s.day = d /\ s.rows = Rows(d)
         /\ \A s \in FromRows(today) : s.day = today
<1>1. \A d \in Days : daily[d] \subseteq Rows(d)
  BY DEF Sums
<1>2. \A d \in Days : d > today => Rows(d) = {}
  BY RowsOfADay
<1>3. today \in Int /\ \A d \in Days : d \in Int
  BY DEF DaysTyped, Days
<1>4. \A s \in FromAggregates : s.day \in Days /\ s.rows = daily[s.day] /\ s = [day |-> s.day, rows |-> s.rows]
  BY DEF FromAggregates
<1>5. \A first : \A s \in FromRows(first) :
        s.day \in Days /\ s.rows = Rows(s.day) /\ s = [day |-> s.day, rows |-> s.rows]
        /\ s.day >= first /\ s.rows # {}
  BY DEF FromRows
<1>6. \A s, t \in FromAggregates : s.day = t.day => s = t
  BY <1>4
<1>7. \A first : \A s, t \in FromRows(first) : s.day = t.day => s = t
  BY <1>5
<1>8. ASSUME NEW first, NEW d \in Days, d >= first, Rows(d) # {}
      PROVE  \E s \in FromRows(first) : s.day = d /\ s.rows = Rows(d)
  <2> DEFINE s == [day |-> d, rows |-> Rows(d)]
  <2>1. s \in FromRows(first)
    BY <1>8 DEF FromRows
  <2>2. s.day = d /\ s.rows = Rows(d)
    OBVIOUS
  <2> HIDE DEF s
  <2> QED
    BY <2>1, <2>2
<1>9. \A s \in FromRows(today) : s.day = today
  BY <1>2, <1>3, <1>5
<1> QED
  BY <1>1, <1>4, <1>5, <1>6, <1>7, <1>8, <1>9

\* A report leaves everything else alone.
LEMMA ReportKeeps ==
  ASSUME SInv, UNCHANGED <<vars, today, day, daily, refresh, late, settled>>, ReportSound'
  PROVE  SInv'
<1>1. Kept' = Kept /\ IInv' /\ \A d : Rows(d)' = Rows(d)
  BY RowsStay DEF SInv
<1> QED
  BY <1>1 DEF SInv, DaysTyped, Sums, RefreshSound, SettledSound, AggregatesAddUp, vars

LEMMA BeginReportStep ==
  ASSUME SInv, BeginReport
  PROVE  SInv'
<1>1. /\ IInv /\ DaysTyped /\ Sums
      /\ UNCHANGED <<vars, today, day, daily, refresh, late, settled>>
      /\ report'.step \in {"rows", "today"} /\ report'.shown = FromAggregates
      /\ report'.due = Rows(today)
  BY DEF SInv, BeginReport
<1>2. Kept' = Kept /\ \A d : Rows(d)' = Rows(d)
  BY <1>1, RowsStay
<1>3. ReportSound'
  <2>1. Rows(today) \subseteq Kept
    BY DEF Rows, Kept
  <2> QED
    BY <1>1, <1>2, <2>1, Entries DEF ReportSound
<1> QED
  BY <1>1, <1>3, ReportKeeps

LEMMA ReportRowsStep ==
  ASSUME SInv, ReportRows
  PROVE  SInv'
<1>1. /\ IInv /\ DaysTyped /\ Sums /\ ReportSound /\ report.step = "rows"
      /\ UNCHANGED <<vars, today, day, daily, refresh, late, settled>>
      /\ report' = [report EXCEPT !.step = "done", !.shown = FromRows(FirstDay)]
  BY DEF SInv, ReportRows
<1>2. Kept' = Kept /\ \A d : Rows(d)' = Rows(d)
  BY <1>1, RowsStay
<1>3. /\ \A s \in FromRows(FirstDay) : s.day \in Days /\ s.rows = Rows(s.day)
      /\ \A s, t \in FromRows(FirstDay) : s.day = t.day => s = t
      /\ \A d \in Days : d >= FirstDay /\ Rows(d) # {} =>
           \E s \in FromRows(FirstDay) : s.day = d /\ s.rows = Rows(d)
  BY <1>1, Entries
<1>4. ReportSound'
  <2>1. today \in Days /\ today >= FirstDay
    BY <1>1, StatisticsAssumption DEF DaysTyped, Days, FirstDay, StatisticsAssumption
  <2>2. \A r \in Rows(today) : day[r] = today
    BY DEF Rows
  <2>3. ASSUME ~report'.midnight, NEW r \in report'.due
        PROVE  \E s \in FromRows(FirstDay) : s.day = day[r] /\ r \in s.rows
    <3>1. r \in Rows(today)
      BY <1>1, <2>3 DEF ReportSound
    <3> QED
      BY <1>3, <2>1, <2>2, <3>1
  <2>4. /\ report'.step \notin {"rows", "today"} /\ report'.due \subseteq Kept
        /\ \A s \in report'.shown : s \in FromRows(FirstDay)
        /\ \A s \in FromRows(FirstDay) : s \in report'.shown
    BY <1>1, <1>3 DEF ReportSound
  <2> QED
    BY <1>1, <1>2, <1>3, <2>3, <2>4 DEF ReportSound
<1> QED
  BY <1>1, <1>4, ReportKeeps

LEMMA ReportTodayStep ==
  ASSUME SInv, ReportToday
  PROVE  SInv'
<1>1. /\ IInv /\ DaysTyped /\ Sums /\ ReportSound /\ report.step = "today"
      /\ UNCHANGED <<vars, today, day, daily, refresh, late, settled>>
      /\ report' = [report EXCEPT !.step = "done", !.shown = WithToday(report.shown)]
  BY DEF SInv, ReportToday
<1>2. Kept' = Kept /\ \A d : Rows(d)' = Rows(d)
  BY <1>1, RowsStay
<1>3. /\ \A s \in FromRows(today) : s.day \in Days /\ s.rows = Rows(s.day) /\ s.day = today
      /\ \A s, t \in FromRows(today) : s.day = t.day => s = t
      /\ Rows(today) # {} => \E s \in FromRows(today) : s.day = today /\ s.rows = Rows(today)
  <2>1. today \in Days /\ today >= today
    BY <1>1 DEF DaysTyped, Days
  <2> QED
    BY <1>1, <2>1, Entries
<1>4. /\ \A s \in WithToday(report.shown) : s.day \in Days /\ s.rows \subseteq Rows(s.day)
      /\ \A s, t \in WithToday(report.shown) : s.day = t.day => s = t
  BY <1>1, <1>3 DEF WithToday, ReportSound
<1>5. ASSUME ~report.midnight, NEW r \in report.due
      PROVE  \E s \in WithToday(report.shown) : s.day = day[r] /\ r \in s.rows
  <2>1. r \in Rows(today) /\ day[r] = today
    BY <1>1, <1>5 DEF ReportSound, Rows
  <2> QED
    BY <1>3, <2>1 DEF WithToday
<1>6. ReportSound'
  BY <1>1, <1>2, <1>4, <1>5 DEF ReportSound
<1> QED
  BY <1>1, <1>6, ReportKeeps

-----------------------------------------------------------------------------
(* Days end, requests come, rows arrive *)

LEMMA MidnightStep ==
  ASSUME SInv, Midnight
  PROVE  SInv'
<1>1. /\ IInv /\ DaysTyped /\ Sums /\ RefreshSound /\ SettledSound /\ ReportSound
      /\ today < LastDay /\ today' = today + 1 /\ (refresh.step = "none" \/ refresh.today = today)
      /\ UNCHANGED <<vars, day, daily, refresh, late, settled>>
  BY DEF SInv, Midnight
<1>2. Stored' = Stored /\ IInv'
  BY <1>1, Step DEF vars, table, Stored
<1>3. Kept' = Kept /\ \A d : Rows(d)' = Rows(d)
  BY <1>1, <1>2 DEF Kept, Rows
<1>4. today \in Nat /\ today' \in Days /\ today' >= today /\ coming' = coming
  BY <1>1, StatisticsAssumption DEF DaysTyped, Days, StatisticsAssumption, vars
<1>5. DaysTyped'
  <2>1. \A r \in Records \ coming' : day'[r] \in 1..today'
    BY <1>1, <1>4 DEF DaysTyped
  <2> QED
    BY <1>1, <1>4, <2>1 DEF DaysTyped
<1>6. Sums' /\ SettledSound'
  BY <1>1, <1>3 DEF Sums, SettledSound, AggregatesAddUp
<1>7. RefreshSound'
  <2>1. refresh.step = "missing" =>
          refresh.today \in Days /\ refresh.today <= today' /\ today' <= refresh.today + 1
    BY <1>1, <1>4 DEF RefreshSound
  <2> QED
    BY <1>1, <1>3, <2>1 DEF RefreshSound
<1>8. ReportSound'
  <2>1. CASE report.step \in {"rows", "today"}
    <3>1. report' = [report EXCEPT !.midnight = TRUE]
      BY <2>1 DEF Midnight
    <3>2. report'.step \in {"rows", "today"} => report'.midnight = TRUE \/ report'.due \subseteq Rows(today)'
      BY <3>1, <2>1
    <3> QED
      BY <1>1, <1>3, <2>1, <3>1, <3>2 DEF ReportSound
  <2>2. CASE report.step \notin {"rows", "today"}
    <3>1. report' = report
      BY <2>2 DEF Midnight
    <3> QED
      BY <1>1, <1>3, <2>2, <3>1 DEF ReportSound
  <2> QED
    BY <2>1, <2>2
<1> QED
  BY <1>2, <1>5, <1>6, <1>7, <1>8 DEF SInv

\* A record gets its day when it comes in, and its row, later, no other.
LEMMA QueueKeepsRows ==
  ASSUME SInv, QueueWorks
  PROVE  /\ IInv' /\ DaysTyped'
         /\ Kept \subseteq Kept' /\ \A r \in Kept' : r \notin coming /\ day'[r] = day[r]
         /\ \A d : Rows(d) \subseteq Rows(d)'
<1>1. IInv /\ DaysTyped /\ IInv'
  BY Step DEF SInv, QueueWorks
<1>2. /\ Stored \subseteq Stored' /\ coming' \subseteq coming
      /\ Stored' = Stored \/ coming' = coming
  BY <1>1, TableGrows DEF QueueWorks
<1>3. Stored \cap coming = {} /\ Stored' \cap coming' = {}
  BY <1>1, NoRowBefore DEF IInv, Fresh, Untouched, Stored
<1>4. Kept \subseteq Kept' /\ Kept' \subseteq Records /\ \A r \in Kept' : r \notin coming
  BY <1>2, <1>3 DEF Kept, Stored
<1>5. day' = [r \in Records |-> IF r \in coming \ coming' THEN today ELSE day[r]]
  BY DEF QueueWorks
<1>6. \A r \in Kept' : day'[r] = day[r]
  BY <1>4, <1>5
<1>7. \A d : Rows(d) \subseteq Rows(d)'
  BY <1>4, <1>6 DEF Rows, Kept
<1>8. DaysTyped'
  <2>1. today' = today /\ daily' = daily /\ today \in 0..LastDay /\ today \in 1..today
    BY <1>1 DEF QueueWorks, DaysTyped, Days
  <2> QED
    BY <1>1, <1>5, <2>1 DEF DaysTyped
<1> QED
  BY <1>1, <1>4, <1>6, <1>7, <1>8

LEMMA QueueStep ==
  ASSUME SInv, QueueWorks
  PROVE  SInv'
<1>1. /\ IInv /\ DaysTyped /\ Sums /\ RefreshSound /\ SettledSound /\ ReportSound
      /\ UNCHANGED <<today, daily, settled>>
      /\ late' = late \cup {r \in (Requests \cap Stored') \ Stored : daily[day[r]] # {}}
      /\ refresh' = (IF phase' # "running" THEN NoRefresh ELSE refresh)
      /\ report' = (IF phase' # "running" THEN NoReport ELSE report)
  BY DEF SInv, QueueWorks
<1>2. /\ IInv' /\ DaysTyped'
      /\ Kept \subseteq Kept' /\ \A r \in Kept' : r \notin coming /\ day'[r] = day[r]
      /\ \A d : Rows(d) \subseteq Rows(d)'
  BY QueueKeepsRows
<1>3. Sums'
  <2>1. ASSUME NEW r \in Kept'
        PROVE  r \in daily[day[r]] \/ daily[day[r]] = {} \/ r \in late'
    <3>1. CASE r \in Kept
      BY <1>1, <3>1 DEF Sums
    <3>2. CASE r \notin Kept
      <4>1. r \in (Requests \cap Stored') \ Stored
        BY <2>1, <3>2 DEF Kept
      <4> QED
        BY <1>1, <4>1
    <3> QED
      BY <3>1, <3>2
  <2>2. \A d \in Days : daily[d] \subseteq Rows(d)'
    BY <1>1, <1>2 DEF Sums
  <2> QED
    BY <1>1, <1>2, <2>1, <2>2 DEF Sums
<1>4. RefreshSound'
  <2>1. CASE refresh' = NoRefresh
    BY <2>1 DEF RefreshSound, NoRefresh
  <2>2. CASE refresh' = refresh
    BY <1>1, <1>2, <2>2 DEF RefreshSound
  <2> QED
    BY <1>1, <2>1, <2>2
<1>5. SettledSound'
  <2>1. late \subseteq late'
    BY <1>1
  <2> QED
    BY <1>1, <1>2, <2>1 DEF SettledSound, AggregatesAddUp
<1>6. ReportSound'
  <2>1. CASE report' = NoReport
    BY <2>1 DEF ReportSound, NoReport
  <2>2. CASE report' = report
    BY <1>1, <1>2, <2>2 DEF ReportSound
  <2> QED
    BY <1>1, <2>1, <2>2
<1> QED
  BY <1>2, <1>3, <1>4, <1>5, <1>6 DEF SInv

-----------------------------------------------------------------------------
(* The theorems about the statistics *)

LEMMA StatisticsInitially == StatisticsInit => SInv
<1> SUFFICES ASSUME StatisticsInit PROVE SInv
  OBVIOUS
<1>1. IInv /\ Stored = {} /\ coming = Records
  BY Initially DEF StatisticsInit, Init, Stored
<1>2. Kept = {} /\ \A d : Rows(d) = {}
  BY <1>1 DEF Kept, Rows
<1>3. today \in Days /\ 0 \in 0..LastDay
  BY StatisticsAssumption DEF StatisticsInit, Days, StatisticsAssumption
<1>4. DaysTyped /\ Sums
  BY <1>1, <1>2, <1>3 DEF StatisticsInit, DaysTyped, Sums
<1>5. RefreshSound /\ SettledSound /\ ReportSound
  BY <1>2 DEF StatisticsInit, RefreshSound, NoRefresh, SettledSound, AggregatesAddUp, ReportSound, NoReport
<1> QED
  BY <1>1, <1>4, <1>5 DEF SInv

LEMMA StatisticsStep == SInv /\ [StatisticsNext]_allVars => SInv'
<1> SUFFICES ASSUME SInv, [StatisticsNext]_allVars PROVE SInv'
  OBVIOUS
<1>1. CASE QueueWorks
  BY <1>1, QueueStep
<1>2. CASE BeginRefresh
  BY <1>2, BeginRefreshStep
<1>3. CASE FillMissing
  BY <1>3, FillMissingStep
<1>4. CASE EndOfMissing
  <2>1. /\ UNCHANGED <<vars, today, day, daily, report, late, settled>> /\ refresh' = NoRefresh
        /\ IInv /\ DaysTyped /\ Sums /\ SettledSound /\ ReportSound
    BY <1>4 DEF EndOfMissing, SInv
  <2>2. Kept' = Kept /\ IInv' /\ \A d : Rows(d)' = Rows(d)
    BY <2>1, RowsStay
  <2>3. RefreshSound'
    BY <2>1 DEF RefreshSound, NoRefresh
  <2> QED
    BY <2>1, <2>2, <2>3 DEF SInv, DaysTyped, Sums, SettledSound, AggregatesAddUp, ReportSound, vars
<1>5. CASE RefreshRecent
  BY <1>5, RefreshRecentStep
<1>6. ASSUME NEW first \in Days, NEW last \in Days, AggregateRange(first, last) PROVE SInv'
  <2>1. first \in Int /\ last \in Int
    BY DEF Days
  <2> QED
    BY <1>6, <2>1, AggregationKeeps DEF AggregateRange, SInv
<1>7. CASE BeginReport
  BY <1>7, BeginReportStep
<1>8. CASE ReportRows
  BY <1>8, ReportRowsStep
<1>9. CASE ReportToday
  BY <1>9, ReportTodayStep
<1>10. CASE ReportSent
  <2>1. ReportSound'
    BY <1>10 DEF ReportSent, ReportSound, NoReport
  <2> QED
    BY <1>10, <2>1, ReportKeeps DEF ReportSent
<1>11. CASE Midnight
  BY <1>11, MidnightStep
<1>12. CASE UNCHANGED allVars
  <2>1. /\ UNCHANGED <<vars, today, day, daily, refresh, report, late, settled>>
        /\ ReportSound
    BY <1>12 DEF allVars, statistics, SInv
  <2>2. Kept' = Kept /\ \A d : Rows(d)' = Rows(d)
    BY <2>1, RowsStay
  <2>3. ReportSound'
    BY <2>1, <2>2 DEF ReportSound
  <2> QED
    BY <2>1, <2>3, ReportKeeps
<1> QED
  BY <1>1, <1>2, <1>3, <1>4, <1>5, <1>6, <1>7, <1>8, <1>9, <1>10, <1>11, <1>12 DEF StatisticsNext

LEMMA StatisticsInvariance == StatisticsSpec => []SInv
  BY StatisticsInitially, StatisticsStep, PTL DEF StatisticsSpec

\* The queue under the statistics behaves as the queue alone: what is proved of it
\* holds with days, refreshes and reports going on (stats.py reads the table and
\* writes only its own).
THEOREM StatisticsKeepTheQueue == StatisticsSpec => []NoRecordVanishes /\ []CountedOnce
<1>1. SInv => NoRecordVanishes /\ CountedOnce
  BY DEF SInv, IInv
<1> QED
  BY <1>1, StatisticsInvariance, PTL

\* Whatever arrives late, is aggregated outright or happens at midnight: after a
\* complete refresh every request that was in the table when it began is in the
\* aggregate of its day, or it came after one of a day too old to be made anew
\* (stats.py, refresh_stats and aggregate_missing).
THEOREM RefreshAddsUp == StatisticsSpec => []AggregatesAddUp
<1>1. SInv => AggregatesAddUp
  BY DEF SInv, SettledSound
<1> QED
  BY <1>1, StatisticsInvariance, PTL

\* No report shows a request twice or leaves one of today's out, whatever is
\* aggregated and arrives while it is made, unless midnight falls within it
\* (stats.py, get_daily_rollup).
THEOREM ReportsTellToday == StatisticsSpec => []ReportTellsToday
<1>1. SInv => ReportTellsToday
  <2> SUFFICES ASSUME SInv PROVE ReportTellsToday
    OBVIOUS
  <2>1. ReportSound
    BY DEF SInv
  <2>2. \A s, t \in report.shown : s # t => s.day # t.day /\ s.rows \cap t.rows = {}
    BY <2>1 DEF ReportSound, Rows
  <2> QED
    BY <2>1, <2>2 DEF ReportSound, ReportTellsToday
<1> QED
  BY <1>1, StatisticsInvariance, PTL

-----------------------------------------------------------------------------
(* The request log. *)

WriterStates ==
  {x \in [step : {"idle", "ensure", "table", "connect", "insert"},
          rec : LogEntries \cup {0}, gone : BOOLEAN] :
     /\ x.step = "idle" <=> x.rec = 0
     /\ x.gone => x.step \in {"table", "insert"}}

CleanupStates == [step : {"idle", "look", "trim"}, left : SUBSET Months,
                  day : Nat, rows : Int, raw : Int, seen : SUBSET LogEntries]

LogTyped ==
  /\ date \in Nat /\ 1 <= date /\ date <= FinalDay
  /\ policy \in [rows : Nat, raw : Nat]
  /\ born \in [LogEntries -> Nat] /\ \A r \in LogEntries : born[r] <= date
  /\ month \in [Months -> {"none", "bare", "ready"}]
  /\ writer \in [Writers -> WriterStates]
  /\ cleanup \in CleanupStates
  /\ swept \in [day : Nat, seen : SUBSET LogEntries]
  /\ DOMAIN fate = LogEntries

\* What a process has in memory goes with it.
Gone ==
  /\ backend => up
  /\ ~up => waiting = {} /\ cleanup.step = "idle" /\ \A w \in Writers : At(w, "idle")

Seen == rows \cup cleanup.seen \cup swept.seen

\* A record is in one place at a time, and once it was in the log in no other.
OnePlace ==
  /\ waiting \subseteq LogEntries /\ spilled \subseteq LogEntries /\ rows \subseteq LogEntries
  /\ raw \subseteq rows
  /\ \A v, w \in Writers : writer[v].rec = writer[w].rec /\ writer[v].rec # 0 => v = w
  /\ \A w \in Writers : LET r == writer[w].rec IN r \notin waiting /\ r \notin spilled /\ r \notin Seen
  /\ waiting \cap spilled = {} /\ (waiting \cup spilled) \cap Seen = {}
  /\ \A r \in waiting \cup spilled \cup Seen : born[r] > 0
  /\ \A w \in Writers : writer[w].rec # 0 => born[writer[w].rec] > 0

\* A row has a month with a table, and so has a writer that has seen to its own;
\* but for a removal the file of the month at hand is still there.
MonthsSound ==
  /\ \A r \in rows : month[MonthOf(born[r])] = "ready"
  /\ \A w \in Writers : writer[w].gone => MonthOfWriter(w) \in disturbed
  /\ \A w \in Writers : At(w, "connect") \/ At(w, "insert") =>
       MonthOfWriter(w) \in disturbed \/ month[MonthOfWriter(w)] = "ready"
  /\ cleanup.step = "trim" =>
       \A m \in cleanup.left : Oldest(m) => m \in disturbed \/ month[m] # "none"

RowsBefore(d) == IF policy.rows > 0 THEN d - policy.rows ELSE 0
RawBefore(d) == IF policy.raw > 0 /\ (policy.rows = 0 \/ policy.raw < policy.rows)
                  THEN d - policy.raw ELSE 0

KeptOnly(d, r) ==
  /\ policy.rows > 0 /\ d - born[r] > policy.rows => r \notin rows
  /\ policy.raw > 0 /\ d - born[r] > policy.raw => r \notin raw

\* Of what a cleanup found, what is old is gone from the months behind it.
SweepSound ==
  cleanup.step # "idle" =>
    /\ cleanup.rows = RowsBefore(cleanup.day) /\ cleanup.raw = RawBefore(cleanup.day)
    /\ \A r \in cleanup.seen : MonthOf(born[r]) \in cleanup.left \/ KeptOnly(cleanup.day, r)

LogInv ==
  /\ LogTyped /\ Gone /\ OnePlace /\ NoLogVanishes
  /\ MonthsSound /\ LogsStaySound /\ SweepSound /\ RetentionKept

\* Months follow one another, and a day lies before the end of its own.
LEMMA Quotient ==
  ASSUME NEW a \in Nat, NEW n \in Nat \ {0}
  PROVE  a \div n \in Nat /\ (a \div n) * n <= a /\ a < (a \div n) * n + n
  OBVIOUS

LEMMA QuotientGrows ==
  ASSUME NEW a \in Nat, NEW b \in Nat, a <= b, NEW n \in Nat \ {0}
  PROVE  a \div n <= b \div n
  OBVIOUS

LEMMA MonthIn ==
  ASSUME NEW d \in Nat, 1 <= d, d <= FinalDay
  PROVE  MonthOf(d) \in Months /\ d < MonthEnd(MonthOf(d))
  <1> DEFINE q == (d - 1) \div DaysPerMonth
  <1>1. /\ DaysPerMonth \in Nat \ {0} /\ FinalDay \in Nat /\ d - 1 \in Nat
        /\ FinalDay - 1 \in Nat /\ d - 1 <= FinalDay - 1
    BY RequestLogsAssumption DEF RequestLogsAssumption
  <1>2. /\ q \in Nat /\ d - 1 < q * DaysPerMonth + DaysPerMonth
        /\ q <= (FinalDay - 1) \div DaysPerMonth
    BY <1>1, Quotient, QuotientGrows
  <1>3. (FinalDay - 1) \div DaysPerMonth \in Nat
    BY <1>1, Quotient
  <1>4. MonthOf(d) = q + 1 /\ MonthOf(FinalDay) = (FinalDay - 1) \div DaysPerMonth + 1
    BY DEF MonthOf
  <1> HIDE DEF q
  <1>5. (q + 1) * DaysPerMonth = q * DaysPerMonth + DaysPerMonth
    BY <1>1, <1>2
  <1> QED
    BY <1>1, <1>2, <1>3, <1>4, <1>5 DEF Months, MonthEnd

LEMMA MonthsThere ==
  ASSUME LogTyped, OnePlace
  PROVE  /\ MonthOf(date) \in Months
         /\ \A r \in LogEntries : born[r] > 0 => MonthOf(born[r]) \in Months /\ born[r] < MonthEnd(MonthOf(born[r]))
         /\ \A w \in Writers : writer[w].rec # 0 => writer[w].rec \in LogEntries /\ MonthOfWriter(w) \in Months
  <1>1. FinalDay \in Nat
    BY RequestLogsAssumption DEF RequestLogsAssumption
  <1>2. MonthOf(date) \in Months
    BY MonthIn DEF LogTyped
  <1>3. \A r \in LogEntries : born[r] > 0 => MonthOf(born[r]) \in Months /\ born[r] < MonthEnd(MonthOf(born[r]))
    <2> TAKE r \in LogEntries
    <2> HAVE born[r] > 0
    <2>1. born[r] \in Nat /\ 1 <= born[r] /\ born[r] <= FinalDay
      BY <1>1 DEF LogTyped
    <2> QED
      BY <2>1, MonthIn
  <1>4. \A w \in Writers : writer[w].rec # 0 => writer[w].rec \in LogEntries /\ MonthOfWriter(w) \in Months
    BY <1>3 DEF LogTyped, OnePlace, MonthOfWriter, WriterStates
  <1> QED
    BY <1>2, <1>3, <1>4

\* A record that comes is in no place yet.
LEMMA LogStep == ASSUME LogInv, NEW r \in LogEntries, Log(r) PROVE LogInv'
  <1>0. /\ LogTyped /\ Gone /\ OnePlace /\ NoLogVanishes
        /\ MonthsSound /\ LogsStaySound /\ SweepSound /\ RetentionKept
    BY DEF LogInv
  <1>1. LogTyped'
    BY <1>0 DEF Log, Fated, calendar, files, At, LogTyped
  <1>2. Gone'
    BY <1>0 DEF Log, calendar, process, files, history, At, LogTyped, WriterStates,
       CleanupStates, Gone
  <1>3. OnePlace'
    <2>1. /\ born' = [born EXCEPT ![r] = date] /\ born[r] = 0 /\ date \in Nat /\ date > 0
          /\ DOMAIN born = LogEntries
          /\ waiting' \subseteq waiting \cup {r}
          /\ UNCHANGED <<writer, spilled, rows, raw, month, cleanup, swept, disturbed>>
      BY <1>0 DEF Log, LogTyped, files
    <2>2. /\ r \notin waiting \cup spilled \cup Seen
          /\ \A w \in Writers : writer[w].rec # r
      BY <1>0, <2>1, RequestLogsAssumption DEF OnePlace, RequestLogsAssumption
    <2>3. born'[r] > 0 /\ \A q \in LogEntries : q # r => born'[q] = born[q]
      BY <2>1
    <2>4. \A w \in Writers : writer[w].rec # 0 => born'[writer[w].rec] > 0
      BY <1>0, <2>2, <2>3 DEF OnePlace, LogTyped, WriterStates
    <2>5. /\ waiting' \subseteq LogEntries
          /\ \A q \in waiting' \cup spilled \cup Seen : born'[q] > 0
      BY <1>0, <2>1, <2>2, <2>3 DEF OnePlace, LogTyped, Seen, CleanupStates
    <2>6. /\ \A w \in Writers : writer[w].rec \notin waiting'
          /\ waiting' \cap spilled = {} /\ waiting' \cap Seen = {}
      BY <1>0, <2>1, <2>2 DEF OnePlace
    <2> QED
      BY <1>0, <2>1, <2>4, <2>5, <2>6 DEF OnePlace, Seen
  <1>4. NoLogVanishes'
    BY <1>0 DEF Log, Fated, calendar, files, InHand, At, NoLogVanishes
  <1>5. MonthsSound'
    <2>1. /\ born' = [born EXCEPT ![r] = date] /\ born[r] = 0 /\ date \in Nat /\ date > 0
          /\ DOMAIN born = LogEntries
          /\ waiting' \subseteq waiting \cup {r}
          /\ UNCHANGED <<writer, spilled, rows, raw, month, cleanup, swept, disturbed>>
      BY <1>0 DEF Log, LogTyped, files
    <2>2. /\ r \notin waiting \cup spilled \cup Seen
          /\ \A w \in Writers : writer[w].rec # r
      BY <1>0, <2>1, RequestLogsAssumption DEF OnePlace, RequestLogsAssumption
    <2>3. born'[r] > 0 /\ \A q \in LogEntries : q # r => born'[q] = born[q]
      BY <2>1
    <2>4. /\ \A q \in rows : born'[q] = born[q]
          /\ \A w \in Writers : writer[w].gone \/ At(w, "connect") \/ At(w, "insert") =>
               born'[writer[w].rec] = born[writer[w].rec]
      BY <1>0, <2>2, <2>3 DEF OnePlace, Seen, LogTyped, WriterStates, At
    <2> QED
      BY <1>0, <2>1, <2>4 DEF MonthsSound, MonthOfWriter, At, Oldest
  <1>6. LogsStaySound'
    BY <1>0 DEF Log, calendar, process, files, history, Making, MonthOfWriter, At, LogTyped,
       WriterStates, CleanupStates, Gone, OnePlace, MonthsSound, LogsStaySound
  <1>7. SweepSound'
    BY <1>0 DEF Log, calendar, files, KeptOnly, RowsBefore, RawBefore, At, Seen, OnePlace,
       SweepSound
  <1>8. RetentionKept'
    BY <1>0 DEF Log, calendar, files, At, LogTyped, RetentionKept, KeptOnly, RowsBefore,
       RawBefore
  <1> QED
    BY <1>1, <1>2, <1>3, <1>4, <1>5, <1>6, <1>7, <1>8 DEF LogInv

LEMMA PickUpStep ==
  ASSUME LogInv, NEW w \in Writers, NEW r \in LogEntries, PickUp(w, r)
  PROVE  LogInv'
  <1>0. /\ LogTyped /\ Gone /\ OnePlace /\ NoLogVanishes
        /\ MonthsSound /\ LogsStaySound /\ SweepSound /\ RetentionKept
    BY DEF LogInv
  <1>1. LogTyped'
    <2>1. [step |-> "ensure", rec |-> r, gone |-> FALSE] \in WriterStates
      BY RequestLogsAssumption DEF RequestLogsAssumption, WriterStates
    <2>2. writer' \in [Writers -> WriterStates]
      BY <1>0, <2>1 DEF PickUp, LogTyped
    <2> QED
      BY <1>0, <2>2 DEF PickUp, Fated, calendar, files, LogTyped
  <1>2. Gone'
    BY <1>0 DEF PickUp, calendar, process, files, history, At, LogTyped, WriterStates,
       CleanupStates, Gone
  <1>3. OnePlace'
    BY <1>0 DEF PickUp, calendar, files, Seen, At, LogTyped, OnePlace
  <1>4. NoLogVanishes'
    BY <1>0, MonthsThere DEF PickUp, Fated, calendar, files, InHand, At, LogTyped,
       WriterStates, CleanupStates, OnePlace, NoLogVanishes
  <1>5. MonthsSound'
    BY <1>0 DEF PickUp, calendar, files, MonthOfWriter, At, Oldest, LogTyped, MonthsSound
  <1>6. LogsStaySound'
    BY <1>0, SMTT(30) DEF PickUp, calendar, process, files, history, Making, MonthOfWriter, At,
       LogTyped, WriterStates, CleanupStates, Gone, OnePlace, MonthsSound, LogsStaySound
  <1>7. SweepSound'
    BY <1>0 DEF PickUp, calendar, files, KeptOnly, RowsBefore, RawBefore, At, SweepSound
  <1>8. RetentionKept'
    BY <1>0 DEF PickUp, calendar, files, At, RetentionKept, KeptOnly, RowsBefore, RawBefore
  <1> QED
    BY <1>1, <1>2, <1>3, <1>4, <1>5, <1>6, <1>7, <1>8 DEF LogInv

\* A write fails only where its month is being made, or was disturbed.
LEMMA FailureStep ==
  ASSUME LogInv, NEW w \in Writers, At(w, "ensure") \/ At(w, "insert"),
         Making(MonthOfWriter(w)) \/ MonthOfWriter(w) \in disturbed, Fail(w),
         UNCHANGED <<calendar, process, waiting, files, cleanup, swept, fate, disturbed>>
  PROVE  LogInv'
  <1>0. /\ LogTyped /\ Gone /\ OnePlace /\ NoLogVanishes
        /\ MonthsSound /\ LogsStaySound /\ SweepSound /\ RetentionKept
    BY DEF LogInv
  <1>1. LogTyped'
    BY <1>0 DEF Fail, Free, calendar, files, At, WriterStates, LogTyped
  <1>2. Gone'
    BY <1>0 DEF Fail, Free, calendar, process, files, history, At, LogTyped, WriterStates,
       CleanupStates, Gone
  <1>3. OnePlace'
    <2>1. /\ writer' = [writer EXCEPT ![w] = Free] /\ writer[w].rec # 0
          /\ writer[w].rec \in LogEntries /\ spilled' = spilled \cup {writer[w].rec}
          /\ UNCHANGED <<born, waiting, rows, raw, cleanup, swept>>
      BY <1>0 DEF Fail, calendar, files, history, LogTyped, WriterStates, At
    <2>2. \A v \in Writers : writer'[v].rec = 0 \/ (v # w /\ writer'[v].rec = writer[v].rec)
      BY <1>0, <2>1 DEF LogTyped, Free
    <2>3. \A v \in Writers : writer'[v].rec # writer[w].rec
      BY <1>0, <2>1, <2>2 DEF OnePlace
    <2>4. \A v, u \in Writers : writer'[v].rec = writer'[u].rec /\ writer'[v].rec # 0 => v = u
      BY <1>0, <2>1, <2>2 DEF OnePlace
    <2>5. 0 \notin LogEntries
      BY RequestLogsAssumption DEF RequestLogsAssumption
    <2>6. \A v \in Writers : /\ writer'[v].rec \notin waiting /\ writer'[v].rec \notin Seen
                              /\ writer'[v].rec \notin spilled'
      BY <1>0, <2>1, <2>2, <2>3, <2>5 DEF OnePlace, Seen, LogTyped, CleanupStates
    <2> QED
      BY <1>0, <2>1, <2>2, <2>4, <2>6 DEF OnePlace, Seen
  <1>4. NoLogVanishes'
    BY <1>0, MonthsThere DEF Fail, Free, calendar, files, InHand, At, NoLogVanishes
  <1>5. MonthsSound'
    BY <1>0 DEF Fail, Free, calendar, files, MonthOfWriter, At, Oldest, MonthsSound
  <1>6. LogsStaySound'
    BY <1>0 DEF Fail, Free, calendar, process, files, history, Making, MonthOfWriter, At,
       LogTyped, WriterStates, CleanupStates, Gone, OnePlace, MonthsSound, LogsStaySound
  <1>7. SweepSound'
    BY <1>0 DEF Fail, Free, calendar, files, KeptOnly, RowsBefore, RawBefore, At, SweepSound
  <1>8. RetentionKept'
    BY <1>0 DEF Fail, Free, calendar, files, At, RetentionKept, KeptOnly, RowsBefore,
       RawBefore
  <1> QED
    BY <1>1, <1>2, <1>3, <1>4, <1>5, <1>6, <1>7, <1>8 DEF LogInv

\* The three ways a month's file is found, and what each leaves behind.
LEMMA CreationStep ==
  ASSUME LogInv, NEW w \in Writers, At(w, "ensure"), month[MonthOfWriter(w)] = "none",
         month' = [month EXCEPT ![MonthOfWriter(w)] = "bare"], GoTo(w, "table"),
         UNCHANGED <<calendar, process, waiting, spilled, rows, raw, cleanup, history>>
  PROVE  LogInv'
  <1>0. /\ LogTyped /\ Gone /\ OnePlace /\ NoLogVanishes
        /\ MonthsSound /\ LogsStaySound /\ SweepSound /\ RetentionKept
    BY DEF LogInv
  <1>1. LogTyped'
    BY <1>0 DEF GoTo, calendar, files, history, At, WriterStates, LogTyped
  <1>2. Gone'
    BY <1>0 DEF GoTo, calendar, process, files, history, At, LogTyped, WriterStates,
       CleanupStates, Gone
  <1>3. OnePlace'
    BY <1>0 DEF GoTo, calendar, files, history, Seen, At, OnePlace
  <1>4. NoLogVanishes'
    BY <1>0 DEF GoTo, calendar, files, history, InHand, At, NoLogVanishes
  <1>5. MonthsSound'
    BY <1>0 DEF GoTo, calendar, files, history, MonthOfWriter, At, Oldest, MonthsSound
  <1>6. LogsStaySound'
    BY <1>0 DEF GoTo, calendar, process, files, history, Making, MonthOfWriter, At,
       LogTyped, WriterStates, CleanupStates, Gone, OnePlace, MonthsSound, LogsStaySound
  <1>7. SweepSound'
    BY <1>0 DEF GoTo, calendar, files, KeptOnly, RowsBefore, RawBefore, At, SweepSound
  <1>8. RetentionKept'
    BY <1>0 DEF GoTo, calendar, files, history, At, RetentionKept, KeptOnly, RowsBefore,
       RawBefore
  <1> QED
    BY <1>1, <1>2, <1>3, <1>4, <1>5, <1>6, <1>7, <1>8 DEF LogInv

LEMMA MigrationStep ==
  ASSUME LogInv, NEW w \in Writers, At(w, "ensure"), month[MonthOfWriter(w)] = "ready",
         GoTo(w, "connect"),
         UNCHANGED <<calendar, process, waiting, spilled, files, cleanup, history>>
  PROVE  LogInv'
  <1>0. /\ LogTyped /\ Gone /\ OnePlace /\ NoLogVanishes
        /\ MonthsSound /\ LogsStaySound /\ SweepSound /\ RetentionKept
    BY DEF LogInv
  <1>1. LogTyped'
    BY <1>0 DEF GoTo, calendar, files, history, At, WriterStates, LogTyped
  <1>2. Gone'
    BY <1>0 DEF GoTo, calendar, process, files, history, At, LogTyped, WriterStates,
       CleanupStates, Gone
  <1>3. OnePlace'
    BY <1>0 DEF GoTo, calendar, files, history, Seen, At, OnePlace
  <1>4. NoLogVanishes'
    BY <1>0 DEF GoTo, calendar, files, history, InHand, At, NoLogVanishes
  <1>5. MonthsSound'
    BY <1>0 DEF GoTo, calendar, files, history, MonthOfWriter, At, Oldest, MonthsSound
  <1>6. LogsStaySound'
    BY <1>0 DEF GoTo, calendar, process, files, history, Making, MonthOfWriter, At,
       LogTyped, WriterStates, CleanupStates, Gone, OnePlace, MonthsSound, LogsStaySound
  <1>7. SweepSound'
    BY <1>0 DEF GoTo, calendar, files, KeptOnly, RowsBefore, RawBefore, At, SweepSound
  <1>8. RetentionKept'
    BY <1>0 DEF GoTo, calendar, files, history, At, RetentionKept, KeptOnly, RowsBefore,
       RawBefore
  <1> QED
    BY <1>1, <1>2, <1>3, <1>4, <1>5, <1>6, <1>7, <1>8 DEF LogInv

LEMMA MakeTableStep == ASSUME LogInv, NEW w \in Writers, MakeTable(w) PROVE LogInv'
  <1>0. /\ LogTyped /\ Gone /\ OnePlace /\ NoLogVanishes
        /\ MonthsSound /\ LogsStaySound /\ SweepSound /\ RetentionKept
    BY DEF LogInv
  <1>1. LogTyped'
    BY <1>0 DEF MakeTable, GoTo, calendar, files, history, At, WriterStates, LogTyped
  <1>2. Gone'
    BY <1>0 DEF MakeTable, GoTo, calendar, process, files, history, At, LogTyped,
       WriterStates, CleanupStates, Gone
  <1>3. OnePlace'
    BY <1>0 DEF MakeTable, GoTo, calendar, files, history, Seen, At, OnePlace
  <1>4. NoLogVanishes'
    BY <1>0 DEF MakeTable, GoTo, calendar, files, history, InHand, At, NoLogVanishes
  <1>5. MonthsSound'
    BY <1>0, MonthsThere DEF MakeTable, GoTo, calendar, files, history, MonthOfWriter, At,
       Oldest, LogTyped, WriterStates, MonthsSound
  <1>6. LogsStaySound'
    BY <1>0 DEF MakeTable, GoTo, calendar, process, files, history, Making, MonthOfWriter,
       At, LogTyped, LogsStaySound
  <1>7. SweepSound'
    BY <1>0 DEF MakeTable, GoTo, calendar, files, KeptOnly, RowsBefore, RawBefore, At,
       SweepSound
  <1>8. RetentionKept'
    BY <1>0 DEF MakeTable, GoTo, calendar, files, history, At, RetentionKept, KeptOnly,
       RowsBefore, RawBefore
  <1> QED
    BY <1>1, <1>2, <1>3, <1>4, <1>5, <1>6, <1>7, <1>8 DEF LogInv

LEMMA ConnectStep == ASSUME LogInv, NEW w \in Writers, Connect(w) PROVE LogInv'
  <1>0. /\ LogTyped /\ Gone /\ OnePlace /\ NoLogVanishes
        /\ MonthsSound /\ LogsStaySound /\ SweepSound /\ RetentionKept
    BY DEF LogInv
  <1>1. LogTyped'
    BY <1>0 DEF Connect, GoTo, Opened, calendar, files, history, At, WriterStates, LogTyped
  <1>2. Gone'
    BY <1>0 DEF Connect, GoTo, Opened, calendar, process, files, At, Gone
  <1>3. OnePlace'
    BY <1>0 DEF Connect, GoTo, Opened, calendar, files, history, Seen, At, OnePlace
  <1>4. NoLogVanishes'
    BY <1>0, SMTT(30) DEF Connect, GoTo, Opened, calendar, files, history, InHand, At, NoLogVanishes
  <1>5. MonthsSound'
    BY <1>0, MonthsThere DEF Connect, GoTo, Opened, calendar, files, history, MonthOfWriter,
       At, Oldest, MonthsSound
  <1>6. LogsStaySound'
    BY <1>0 DEF Connect, GoTo, Opened, calendar, process, files, history, Making,
       MonthOfWriter, At, MonthsSound, LogsStaySound
  <1>7. SweepSound'
    BY <1>0 DEF Connect, GoTo, Opened, calendar, files, KeptOnly, RowsBefore, RawBefore, At,
       SweepSound
  <1>8. RetentionKept'
    BY <1>0 DEF Connect, GoTo, Opened, calendar, files, history, At, RetentionKept,
       KeptOnly, RowsBefore, RawBefore
  <1> QED
    BY <1>1, <1>2, <1>3, <1>4, <1>5, <1>6, <1>7, <1>8 DEF LogInv

\* A row goes to a file that has been removed, or to the log.
LEMMA LossStep ==
  ASSUME LogInv, NEW w \in Writers, At(w, "insert"), writer[w].gone,
         fate' = Fated({writer[w].rec}, "removed"), writer' = [writer EXCEPT ![w] = Free],
         UNCHANGED <<calendar, process, waiting, spilled, files, cleanup, swept, unlucky, disturbed>>
  PROVE  LogInv'
  <1>0. /\ LogTyped /\ Gone /\ OnePlace /\ NoLogVanishes
        /\ MonthsSound /\ LogsStaySound /\ SweepSound /\ RetentionKept
    BY DEF LogInv
  <1>1. LogTyped'
    BY <1>0 DEF Fated, Free, calendar, files, At, WriterStates, LogTyped
  <1>2. Gone'
    BY <1>0 DEF Free, calendar, process, files, At, Gone
  <1>3. OnePlace'
    BY <1>0, RequestLogsAssumption DEF Free, calendar, files, Seen, At, LogTyped,
       CleanupStates, OnePlace, RequestLogsAssumption
  <1>4. NoLogVanishes'
    BY <1>0 DEF Fated, Free, calendar, files, InHand, At, NoLogVanishes
  <1>5. MonthsSound'
    BY <1>0 DEF Free, calendar, files, MonthOfWriter, At, Oldest, MonthsSound
  <1>6. LogsStaySound'
    BY <1>0 DEF Free, calendar, files, Making, MonthOfWriter, At, MonthsSound, LogsStaySound
  <1>7. SweepSound'
    BY <1>0 DEF Free, calendar, files, KeptOnly, RowsBefore, RawBefore, At, SweepSound
  <1>8. RetentionKept'
    BY <1>0 DEF Free, calendar, files, At, RetentionKept, KeptOnly, RowsBefore, RawBefore
  <1> QED
    BY <1>1, <1>2, <1>3, <1>4, <1>5, <1>6, <1>7, <1>8 DEF LogInv

LEMMA RowStep ==
  ASSUME LogInv, NEW w \in Writers, At(w, "insert"), ~writer[w].gone,
         month[MonthOfWriter(w)] = "ready", rows' = rows \cup {writer[w].rec},
         raw' = raw \cup {writer[w].rec}, writer' = [writer EXCEPT ![w] = Free],
         UNCHANGED <<calendar, process, waiting, spilled, month, cleanup, history>>
  PROVE  LogInv'
  <1>0. /\ LogTyped /\ Gone /\ OnePlace /\ NoLogVanishes
        /\ MonthsSound /\ LogsStaySound /\ SweepSound /\ RetentionKept
    BY DEF LogInv
  <1>1. LogTyped'
    BY <1>0 DEF Free, calendar, files, history, At, WriterStates, LogTyped
  <1>2. Gone'
    BY <1>0 DEF Free, calendar, process, files, At, Gone
  <1>3. OnePlace'
    <2>1. /\ writer' = [writer EXCEPT ![w] = Free] /\ writer[w].rec # 0
          /\ writer[w].rec \in LogEntries /\ rows' = rows \cup {writer[w].rec} /\ raw' = raw \cup {writer[w].rec}
          /\ UNCHANGED <<born, waiting, spilled, cleanup, swept>>
      BY <1>0 DEF GoTo, calendar, files, history, LogTyped, WriterStates, At
    <2>2. \A v \in Writers : writer'[v].rec = 0 \/ (v # w /\ writer'[v].rec = writer[v].rec)
      BY <1>0, <2>1 DEF LogTyped, Free
    <2>3. \A v \in Writers : writer'[v].rec # writer[w].rec
      BY <1>0, <2>1, <2>2 DEF OnePlace
    <2>4. \A v, u \in Writers : writer'[v].rec = writer'[u].rec /\ writer'[v].rec # 0 => v = u
      BY <1>0, <2>1, <2>2 DEF OnePlace
    <2>5. 0 \notin LogEntries
      BY RequestLogsAssumption DEF RequestLogsAssumption
    <2>6. \A v \in Writers : /\ writer'[v].rec \notin waiting /\ writer'[v].rec \notin Seen'
                              /\ writer'[v].rec \notin spilled
      BY <1>0, <2>1, <2>2, <2>3, <2>5 DEF OnePlace, Seen, LogTyped, CleanupStates
    <2> QED
      BY <1>0, <2>1, <2>2, <2>4, <2>6 DEF OnePlace, Seen
  <1>4. NoLogVanishes'
    BY <1>0, MonthsThere DEF Free, calendar, files, history, InHand, At, NoLogVanishes
  <1>5. MonthsSound'
    BY <1>0 DEF Free, calendar, files, history, MonthOfWriter, At, Oldest, MonthsSound
  <1>6. LogsStaySound'
    BY <1>0 DEF Free, calendar, process, files, history, Making, MonthOfWriter, At,
       LogsStaySound
  <1>7. SweepSound'
    BY <1>0 DEF Free, calendar, files, KeptOnly, RowsBefore, RawBefore, At, Seen, OnePlace,
       SweepSound
  <1>8. RetentionKept'
    BY <1>0 DEF Free, calendar, files, history, At, Seen, OnePlace, RetentionKept, KeptOnly,
       RowsBefore, RawBefore
  <1> QED
    BY <1>1, <1>2, <1>3, <1>4, <1>5, <1>6, <1>7, <1>8 DEF LogInv

\* Removals, by hand or of a month that is over, disturb the month and no other.
LEMMA RemovalStep == ASSUME LogInv, NEW m \in Months, cleanup_month(m) PROVE LogInv'
  <1>0. /\ LogTyped /\ Gone /\ OnePlace /\ NoLogVanishes
        /\ MonthsSound /\ LogsStaySound /\ SweepSound /\ RetentionKept
    BY DEF LogInv
  <1>1. LogTyped'
    <2>1. ASSUME NEW x \in WriterStates, x.step \in {"table", "insert"}
          PROVE  [x EXCEPT !.gone = TRUE] \in WriterStates
      BY <2>1 DEF WriterStates
    <2>2. writer' \in [Writers -> WriterStates]
      BY <1>0, <2>1 DEF cleanup_month, RemoveFile, LogTyped
    <2> QED
      BY <1>0, <2>2 DEF cleanup_month, RemoveFile, Fated, calendar, LogTyped, CleanupStates
  <1>2. Gone'
    BY <1>0 DEF cleanup_month, RemoveFile, calendar, process, files, At, Gone
  <1>3. OnePlace'
    BY <1>0 DEF cleanup_month, RemoveFile, calendar, files, Seen, At, OnePlace
  <1>4. NoLogVanishes'
    BY <1>0 DEF cleanup_month, RemoveFile, Fated, calendar, files, InHand, At, NoLogVanishes
  <1>5. MonthsSound'
    BY <1>0 DEF cleanup_month, RemoveFile, InMonth, calendar, files, MonthOfWriter, At,
       Oldest, MonthsSound
  <1>6. LogsStaySound'
    BY <1>0 DEF cleanup_month, RemoveFile, calendar, files, Making, MonthOfWriter, At,
       LogsStaySound
  <1>7. SweepSound'
    BY <1>0 DEF cleanup_month, RemoveFile, calendar, files, KeptOnly, RowsBefore, RawBefore,
       At, SweepSound
  <1>8. RetentionKept'
    BY <1>0 DEF cleanup_month, RemoveFile, calendar, files, At, RetentionKept, KeptOnly,
       RowsBefore, RawBefore
  <1> QED
    BY <1>1, <1>2, <1>3, <1>4, <1>5, <1>6, <1>7, <1>8 DEF LogInv

LEMMA RemoveOverStep == ASSUME LogInv, NEW m \in Months, RemoveOver(m) PROVE LogInv'
  <1>0. /\ LogTyped /\ Gone /\ OnePlace /\ NoLogVanishes
        /\ MonthsSound /\ LogsStaySound /\ SweepSound /\ RetentionKept
    BY DEF LogInv
  <1>1. LogTyped'
    <2>1. ASSUME NEW x \in WriterStates, x.step \in {"table", "insert"}
          PROVE  [x EXCEPT !.gone = TRUE] \in WriterStates
      BY <2>1 DEF WriterStates
    <2>2. writer' \in [Writers -> WriterStates]
      BY <1>0, <2>1 DEF RemoveOver, RemoveFile, LogTyped
    <2> QED
      BY <1>0, <2>2 DEF RemoveOver, RemoveFile, Fated, calendar, LogTyped, CleanupStates
  <1>2. Gone'
    BY <1>0 DEF RemoveOver, RemoveFile, Over, calendar, process, files, At, Gone
  <1>3. OnePlace'
    BY <1>0 DEF RemoveOver, RemoveFile, Over, calendar, files, Seen, At, OnePlace
  <1>4. NoLogVanishes'
    <2>1. \A r \in InMonth(m) : born[r] < cleanup.rows
      <3> TAKE r \in InMonth(m)
      <3>1. r \in LogEntries /\ born[r] > 0 /\ MonthOf(born[r]) = m
        BY <1>0 DEF InMonth, OnePlace, Seen
      <3>2. born[r] < MonthEnd(m) /\ MonthEnd(m) <= cleanup.rows
        BY <1>0, <3>1, MonthsThere DEF RemoveOver, Over
      <3>3. born[r] \in Int /\ MonthEnd(m) \in Int /\ cleanup.rows \in Int
        BY <1>0, <3>1, RequestLogsAssumption
           DEF LogTyped, CleanupStates, MonthEnd, Months, RequestLogsAssumption
      <3> QED
        BY <3>2, <3>3
    <2>2. Expired(InMonth(m), cleanup.rows) = InMonth(m)
      BY <2>1 DEF Expired
    <2>3. InHand' = InHand
      BY <1>0 DEF RemoveOver, RemoveFile, InHand, LogTyped, WriterStates
    <2> QED
      BY <1>0, <2>2, <2>3 DEF RemoveOver, RemoveFile, Fated, calendar, LogTyped, NoLogVanishes
  <1>5. MonthsSound'
    BY <1>0 DEF RemoveOver, RemoveFile, InMonth, Over, calendar, files, MonthOfWriter, At,
       MonthsSound
  <1>6. LogsStaySound'
    BY <1>0 DEF RemoveOver, RemoveFile, Over, calendar, files, Making, MonthOfWriter, At,
       LogsStaySound
  <1>7. SweepSound'
    BY <1>0 DEF RemoveOver, RemoveFile, InMonth, Over, calendar, files, KeptOnly,
       RowsBefore, RawBefore, At, OnePlace, SweepSound
  <1>8. RetentionKept'
    BY <1>0 DEF RemoveOver, RemoveFile, Over, calendar, files, At, RetentionKept, KeptOnly,
       RowsBefore, RawBefore
  <1> QED
    BY <1>1, <1>2, <1>3, <1>4, <1>5, <1>6, <1>7, <1>8 DEF LogInv

\* A cleanup looks at a month, and trims it or gives up.
LEMMA LookAtStep == ASSUME LogInv, NEW m \in Months, LookAt(m) PROVE LogInv'
  <1>0. /\ LogTyped /\ Gone /\ OnePlace /\ NoLogVanishes
        /\ MonthsSound /\ LogsStaySound /\ SweepSound /\ RetentionKept
    BY DEF LogInv
  <1>1. LogTyped'
    BY <1>0 DEF LookAt, calendar, files, history, At, CleanupStates, LogTyped
  <1>2. Gone'
    BY <1>0 DEF LookAt, calendar, process, files, At, Gone
  <1>3. OnePlace'
    BY <1>0 DEF LookAt, calendar, files, history, Seen, At, OnePlace
  <1>4. NoLogVanishes'
    BY <1>0 DEF LookAt, calendar, files, history, InHand, At, NoLogVanishes
  <1>5. MonthsSound'
    <2>1. cleanup \in CleanupStates /\ Months \subseteq Int
      BY <1>0 DEF LogTyped, Months
    <2>2. CASE month[m] = "none"
      <3>1. cleanup'.step = "look"
        BY <2>1, <2>2 DEF LookAt, CleanupStates
      <3> QED
        BY <1>0, <3>1 DEF LookAt, calendar, files, history, MonthsSound, MonthOfWriter, At
    <2>3. CASE month[m] # "none"
      <3>1. cleanup'.left = cleanup.left
        BY <2>1, <2>3 DEF LookAt, CleanupStates
      <3>2. \A n \in cleanup.left : Oldest(n)' => n = m
        BY <2>1, <3>1 DEF LookAt, Oldest, CleanupStates
      <3> QED
        BY <1>0, <2>3, <3>1, <3>2 DEF LookAt, calendar, files, history, MonthsSound, MonthOfWriter, At
    <2> QED
      BY <2>2, <2>3
  <1>6. LogsStaySound'
    BY <1>0 DEF LookAt, calendar, process, files, history, Making, MonthOfWriter, At,
       LogsStaySound
  <1>7. SweepSound'
    BY <1>0 DEF LookAt, calendar, files, KeptOnly, RowsBefore, RawBefore, At, OnePlace,
       MonthsSound, SweepSound
  <1>8. RetentionKept'
    BY <1>0 DEF LookAt, calendar, files, history, At, RetentionKept, KeptOnly, RowsBefore,
       RawBefore
  <1> QED
    BY <1>1, <1>2, <1>3, <1>4, <1>5, <1>6, <1>7, <1>8 DEF LogInv

LEMMA AbortStep ==
  ASSUME LogInv, NEW m \in Months, cleanup.step = "trim", Oldest(m), month' = Opened(m),
         cleanup' = NoCleanup,
         UNCHANGED <<calendar, process, waiting, writer, spilled, rows, raw, history>>
  PROVE  LogInv'
  <1>0. /\ LogTyped /\ Gone /\ OnePlace /\ NoLogVanishes
        /\ MonthsSound /\ LogsStaySound /\ SweepSound /\ RetentionKept
    BY DEF LogInv
  <1>1. LogTyped'
    BY <1>0 DEF Opened, NoCleanup, calendar, files, history, At, CleanupStates, LogTyped
  <1>2. Gone'
    BY <1>0 DEF Opened, NoCleanup, calendar, process, files, At, Gone
  <1>3. OnePlace'
    BY <1>0 DEF Opened, NoCleanup, calendar, files, history, Seen, At, OnePlace
  <1>4. NoLogVanishes'
    BY <1>0 DEF Opened, NoCleanup, calendar, files, history, InHand, At, NoLogVanishes
  <1>5. MonthsSound'
    BY <1>0 DEF Opened, NoCleanup, calendar, files, history, MonthOfWriter, At, MonthsSound
  <1>6. LogsStaySound'
    <2>1. m \in disturbed \/ month[m] # "none"
      BY <1>0 DEF MonthsSound, Oldest
    <2>2. \A n \in Months \ disturbed : month'[n] = month[n]
      BY <1>0, <2>1 DEF Opened, LogTyped
    <2>3. UNCHANGED <<born, up, backend, writer, spilled, unlucky, disturbed>>
      BY DEF calendar, process, history
    <2> QED
      BY <1>0, <2>2, <2>3 DEF LogsStaySound, Making, MonthOfWriter, At
  <1>7. SweepSound'
    BY <1>0 DEF Opened, NoCleanup, calendar, files, KeptOnly, RowsBefore, RawBefore, At,
       SweepSound
  <1>8. RetentionKept'
    BY <1>0 DEF Opened, NoCleanup, calendar, files, history, At, RetentionKept, KeptOnly,
       RowsBefore, RawBefore
  <1> QED
    BY <1>1, <1>2, <1>3, <1>4, <1>5, <1>6, <1>7, <1>8 DEF LogInv

LEMMA TrimStep ==
  ASSUME LogInv, NEW m \in Months, cleanup.step = "trim", Oldest(m), month' = Opened(m),
         month[m] = "ready" \/ (cleanup.rows = 0 /\ cleanup.raw = 0),
         rows' = rows \ Expired(InMonth(m), cleanup.rows),
         raw' = raw \ (Expired(InMonth(m), cleanup.rows) \cup Expired(InMonth(m), cleanup.raw)),
         fate' = Fated(Expired(InMonth(m), cleanup.rows), "expired"),
         cleanup' = [cleanup EXCEPT !.step = "look", !.left = @ \ {m}],
         UNCHANGED <<calendar, process, waiting, writer, spilled, swept, unlucky, disturbed>>
  PROVE  LogInv'
  <1>0. /\ LogTyped /\ Gone /\ OnePlace /\ NoLogVanishes
        /\ MonthsSound /\ LogsStaySound /\ SweepSound /\ RetentionKept
    BY DEF LogInv
  <1>1. LogTyped'
    BY <1>0 DEF Opened, Fated, calendar, files, At, CleanupStates, LogTyped
  <1>2. Gone'
    BY <1>0 DEF Opened, calendar, process, files, At, Gone
  <1>3. OnePlace'
    BY <1>0 DEF Opened, calendar, files, Seen, At, OnePlace
  <1>4. NoLogVanishes'
    BY <1>0 DEF Opened, Fated, calendar, files, InHand, At, NoLogVanishes
  <1>5. MonthsSound'
    BY <1>0 DEF Opened, calendar, files, MonthOfWriter, At, MonthsSound
  <1>6. LogsStaySound'
    <2>1. m \in disturbed \/ month[m] # "none"
      BY <1>0 DEF MonthsSound, Oldest
    <2>2. \A n \in Months \ disturbed : month'[n] = month[n]
      BY <1>0, <2>1 DEF Opened, LogTyped
    <2>3. UNCHANGED <<born, up, backend, writer, spilled, unlucky, disturbed>>
      BY DEF calendar, process, history
    <2> QED
      BY <1>0, <2>2, <2>3 DEF LogsStaySound, Making, MonthOfWriter, At
  <1>7. SweepSound'
    BY <1>0 DEF Opened, Expired, InMonth, calendar, files, KeptOnly, RowsBefore, RawBefore,
       At, LogTyped, CleanupStates, OnePlace, SweepSound
  <1>8. RetentionKept'
    BY <1>0 DEF Opened, calendar, files, At, RetentionKept, KeptOnly, RowsBefore, RawBefore
  <1> QED
    BY <1>1, <1>2, <1>3, <1>4, <1>5, <1>6, <1>7, <1>8 DEF LogInv

\* What a cleanup finds lies in months it has still to see to; at its end there are none.
LEMMA BeginCleanupStep == ASSUME LogInv, BeginCleanup PROVE LogInv'
  <1>0. /\ LogTyped /\ Gone /\ OnePlace /\ NoLogVanishes
        /\ MonthsSound /\ LogsStaySound /\ SweepSound /\ RetentionKept
    BY DEF LogInv
  <1>1. LogTyped'
    <2>1. RowCutoff \in Int /\ RawCutoff \in Int
      BY <1>0 DEF RowCutoff, RawCutoff, LogTyped
    <2>2. cleanup' \in CleanupStates
      BY <1>0, <2>1 DEF BeginCleanup, CleanupStates, LogTyped, OnePlace
    <2> QED
      BY <1>0, <2>2 DEF BeginCleanup, calendar, files, history, LogTyped
  <1>2. Gone'
    BY <1>0 DEF BeginCleanup, RowCutoff, RawCutoff, calendar, process, files, At, Gone
  <1>3. OnePlace'
    BY <1>0 DEF BeginCleanup, RowCutoff, RawCutoff, calendar, files, history, Seen, At,
       OnePlace
  <1>4. NoLogVanishes'
    BY <1>0 DEF BeginCleanup, RowCutoff, RawCutoff, calendar, files, history, InHand, At,
       NoLogVanishes
  <1>5. MonthsSound'
    BY <1>0 DEF BeginCleanup, RowCutoff, RawCutoff, calendar, files, history, MonthOfWriter,
       At, MonthsSound
  <1>6. LogsStaySound'
    BY <1>0 DEF BeginCleanup, RowCutoff, RawCutoff, calendar, process, files, history,
       Making, MonthOfWriter, At, LogsStaySound
  <1>7. SweepSound'
    BY <1>0, MonthsThere DEF BeginCleanup, RowCutoff, RawCutoff, calendar, files, KeptOnly,
       RowsBefore, RawBefore, At, Seen, OnePlace, MonthsSound, SweepSound
  <1>8. RetentionKept'
    BY <1>0 DEF BeginCleanup, RowCutoff, RawCutoff, calendar, files, history, At,
       RetentionKept, KeptOnly, RowsBefore, RawBefore
  <1> QED
    BY <1>1, <1>2, <1>3, <1>4, <1>5, <1>6, <1>7, <1>8 DEF LogInv

LEMMA EndCleanupStep == ASSUME LogInv, EndCleanup PROVE LogInv'
  <1>0. /\ LogTyped /\ Gone /\ OnePlace /\ NoLogVanishes
        /\ MonthsSound /\ LogsStaySound /\ SweepSound /\ RetentionKept
    BY DEF LogInv
  <1>1. LogTyped'
    BY <1>0 DEF EndCleanup, NoCleanup, calendar, files, At, CleanupStates, LogTyped
  <1>2. Gone'
    BY <1>0 DEF EndCleanup, NoCleanup, calendar, process, files, At, Gone
  <1>3. OnePlace'
    BY <1>0 DEF EndCleanup, NoCleanup, calendar, files, Seen, At, OnePlace
  <1>4. NoLogVanishes'
    BY <1>0 DEF EndCleanup, NoCleanup, calendar, files, InHand, At, NoLogVanishes
  <1>5. MonthsSound'
    BY <1>0 DEF EndCleanup, NoCleanup, calendar, files, MonthOfWriter, At, MonthsSound
  <1>6. LogsStaySound'
    BY <1>0 DEF EndCleanup, NoCleanup, calendar, process, files, Making, MonthOfWriter, At,
       LogsStaySound
  <1>7. SweepSound'
    BY <1>0 DEF EndCleanup, NoCleanup, calendar, files, KeptOnly, RowsBefore, RawBefore, At,
       SweepSound
  <1>8. RetentionKept'
    BY <1>0 DEF EndCleanup, NoCleanup, calendar, files, At, SweepSound, RetentionKept,
       KeptOnly, RowsBefore, RawBefore
  <1> QED
    BY <1>1, <1>2, <1>3, <1>4, <1>5, <1>6, <1>7, <1>8 DEF LogInv

\* A process starts with what was spilled, and dies with what it has in hand.
LEMMA StartProcessStep == ASSUME LogInv, StartProcess PROVE LogInv'
  <1>0. /\ LogTyped /\ Gone /\ OnePlace /\ NoLogVanishes
        /\ MonthsSound /\ LogsStaySound /\ SweepSound /\ RetentionKept
    BY DEF LogInv
  <1>1. LogTyped'
    BY <1>0 DEF StartProcess, SoundAfterInit, Made, calendar, files, history, At, LogTyped
  <1>2. Gone'
    BY <1>0 DEF StartProcess, SoundAfterInit, Made, calendar, process, files, At, Gone
  <1>3. OnePlace'
    BY <1>0 DEF StartProcess, SoundAfterInit, Made, calendar, files, history, Seen, At,
       OnePlace
  <1>4. NoLogVanishes'
    BY <1>0 DEF StartProcess, SoundAfterInit, Made, calendar, files, history, InHand, At,
       Gone, NoLogVanishes
  <1>5. MonthsSound'
    BY <1>0 DEF StartProcess, SoundAfterInit, Made, calendar, files, history, MonthOfWriter,
       At, Oldest, MonthsSound
  <1>6. LogsStaySound'
    BY <1>0, MonthsThere DEF StartProcess, SoundAfterInit, Made, calendar, files, history,
       Making, At, LogTyped, Gone, LogsStaySound
  <1>7. SweepSound'
    BY <1>0 DEF StartProcess, SoundAfterInit, Made, calendar, files, KeptOnly, RowsBefore,
       RawBefore, At, SweepSound
  <1>8. RetentionKept'
    BY <1>0 DEF StartProcess, SoundAfterInit, Made, calendar, files, history, At,
       RetentionKept, KeptOnly, RowsBefore, RawBefore
  <1> QED
    BY <1>1, <1>2, <1>3, <1>4, <1>5, <1>6, <1>7, <1>8 DEF LogInv

LEMMA StartDiesStep == ASSUME LogInv, StartDies PROVE LogInv'
  <1>0. /\ LogTyped /\ Gone /\ OnePlace /\ NoLogVanishes
        /\ MonthsSound /\ LogsStaySound /\ SweepSound /\ RetentionKept
    BY DEF LogInv
  <1>1. LogTyped'
    BY <1>0 DEF StartDies, Opened, calendar, files, At, LogTyped
  <1>2. Gone'
    BY <1>0 DEF StartDies, Opened, calendar, process, files, At, Gone
  <1>3. OnePlace'
    BY <1>0 DEF StartDies, Opened, calendar, files, Seen, At, OnePlace
  <1>4. NoLogVanishes'
    BY <1>0 DEF StartDies, Opened, calendar, files, InHand, At, NoLogVanishes
  <1>5. MonthsSound'
    BY <1>0 DEF StartDies, Opened, calendar, files, MonthOfWriter, At, Oldest, MonthsSound
  <1>6. LogsStaySound'
    BY <1>0 DEF StartDies, Opened, calendar, files, Making, MonthOfWriter, At, LogsStaySound
  <1>7. SweepSound'
    BY <1>0 DEF StartDies, Opened, calendar, files, KeptOnly, RowsBefore, RawBefore, At,
       SweepSound
  <1>8. RetentionKept'
    BY <1>0 DEF StartDies, Opened, calendar, files, At, RetentionKept, KeptOnly, RowsBefore,
       RawBefore
  <1> QED
    BY <1>1, <1>2, <1>3, <1>4, <1>5, <1>6, <1>7, <1>8 DEF LogInv

LEMMA ReloadStep == ASSUME LogInv, reload_backend PROVE LogInv'
  <1>0. /\ LogTyped /\ Gone /\ OnePlace /\ NoLogVanishes
        /\ MonthsSound /\ LogsStaySound /\ SweepSound /\ RetentionKept
    BY DEF LogInv
  <1>1. LogTyped'
    BY <1>0 DEF reload_backend, SoundAfterInit, Made, calendar, files, history, At, LogTyped
  <1>2. Gone'
    BY <1>0 DEF reload_backend, SoundAfterInit, Made, calendar, process, files, At, Gone
  <1>3. OnePlace'
    BY <1>0 DEF reload_backend, SoundAfterInit, Made, calendar, files, history, Seen, At,
       OnePlace
  <1>4. NoLogVanishes'
    BY <1>0 DEF reload_backend, SoundAfterInit, Made, calendar, files, history, InHand, At,
       NoLogVanishes
  <1>5. MonthsSound'
    BY <1>0 DEF reload_backend, SoundAfterInit, Made, calendar, files, history,
       MonthOfWriter, At, Oldest, MonthsSound
  <1>6. LogsStaySound'
    BY <1>0 DEF reload_backend, SoundAfterInit, Made, calendar, files, history, Making,
       MonthOfWriter, At, LogTyped, LogsStaySound
  <1>7. SweepSound'
    BY <1>0 DEF reload_backend, SoundAfterInit, Made, calendar, files, KeptOnly, RowsBefore,
       RawBefore, At, SweepSound
  <1>8. RetentionKept'
    BY <1>0 DEF reload_backend, SoundAfterInit, Made, calendar, files, history, At,
       RetentionKept, KeptOnly, RowsBefore, RawBefore
  <1> QED
    BY <1>1, <1>2, <1>3, <1>4, <1>5, <1>6, <1>7, <1>8 DEF LogInv

LEMMA ProcessDiesStep == ASSUME LogInv, ProcessDies PROVE LogInv'
  <1>0. /\ LogTyped /\ Gone /\ OnePlace /\ NoLogVanishes
        /\ MonthsSound /\ LogsStaySound /\ SweepSound /\ RetentionKept
    BY DEF LogInv
  <1>1. LogTyped'
    BY <1>0 DEF ProcessDies, Fated, Free, NoCleanup, calendar, files, At, WriterStates,
       CleanupStates, LogTyped
  <1>2. Gone'
    BY <1>0 DEF ProcessDies, Free, NoCleanup, calendar, process, files, At, Gone
  <1>3. OnePlace'
    BY <1>0, RequestLogsAssumption, ZenonT(60) DEF ProcessDies, Free, NoCleanup, calendar, files, Seen,
       At, LogTyped, OnePlace, RequestLogsAssumption
  <1>4. NoLogVanishes'
    BY <1>0 DEF ProcessDies, Fated, Free, NoCleanup, calendar, files, InHand, At,
       NoLogVanishes
  <1>5. MonthsSound'
    BY <1>0 DEF ProcessDies, Free, NoCleanup, calendar, files, At, MonthsSound
  <1>6. LogsStaySound'
    BY <1>0 DEF ProcessDies, Free, NoCleanup, calendar, files, At, LogsStaySound
  <1>7. SweepSound'
    BY <1>0 DEF ProcessDies, Free, NoCleanup, calendar, files, KeptOnly, RowsBefore,
       RawBefore, At, SweepSound
  <1>8. RetentionKept'
    BY <1>0 DEF ProcessDies, Free, NoCleanup, calendar, files, At, RetentionKept, KeptOnly,
       RowsBefore, RawBefore
  <1> QED
    BY <1>1, <1>2, <1>3, <1>4, <1>5, <1>6, <1>7, <1>8 DEF LogInv

LEMMA DayEndsStep == ASSUME LogInv, DayEnds PROVE LogInv'
  <1>0. /\ LogTyped /\ Gone /\ OnePlace /\ NoLogVanishes
        /\ MonthsSound /\ LogsStaySound /\ SweepSound /\ RetentionKept
    BY DEF LogInv
  <1>1. LogTyped'
    BY <1>0, RequestLogsAssumption DEF DayEnds, calendar, files, history, At, LogTyped,
       RequestLogsAssumption
  <1>2. Gone'
    BY <1>0 DEF DayEnds, calendar, process, files, At, Gone
  <1>3. OnePlace'
    BY <1>0 DEF DayEnds, calendar, files, history, Seen, At, OnePlace
  <1>4. NoLogVanishes'
    BY <1>0 DEF DayEnds, calendar, files, history, InHand, At, NoLogVanishes
  <1>5. MonthsSound'
    BY <1>0 DEF DayEnds, calendar, files, history, MonthOfWriter, At, Oldest, MonthsSound
  <1>6. LogsStaySound'
    BY <1>0 DEF DayEnds, calendar, process, files, history, Making, MonthOfWriter, At,
       LogsStaySound
  <1>7. SweepSound'
    BY <1>0 DEF DayEnds, calendar, files, KeptOnly, RowsBefore, RawBefore, At, SweepSound
  <1>8. RetentionKept'
    BY <1>0 DEF DayEnds, calendar, files, history, At, RetentionKept, KeptOnly, RowsBefore,
       RawBefore
  <1> QED
    BY <1>1, <1>2, <1>3, <1>4, <1>5, <1>6, <1>7, <1>8 DEF LogInv

LEMMA EnsureStep == ASSUME LogInv, NEW w \in Writers, Ensure(w) PROVE LogInv'
  <1> DEFINE m == MonthOfWriter(w)
  <1>1. LogTyped /\ OnePlace /\ LogsStaySound /\ At(w, "ensure")
    BY DEF LogInv, Ensure
  <1>2. writer[w].rec # 0 /\ m \in Months /\ month[m] \in {"none", "bare", "ready"}
    BY <1>1, MonthsThere DEF LogTyped, WriterStates, At
  <1>3. CASE month[m] = "none"
    BY <1>1, <1>3, CreationStep DEF Ensure, history
  <1>4. CASE month[m] = "ready"
    BY <1>1, <1>4, MigrationStep DEF Ensure, history, files
  <1>5. CASE month[m] = "bare"
    <2>1. Making(m) \/ m \in disturbed
      BY <1>1, <1>2, <1>5 DEF LogsStaySound
    <2> QED
      BY <1>1, <1>5, <2>1, FailureStep DEF Ensure, files
  <1> QED
    BY <1>2, <1>3, <1>4, <1>5

LEMMA InsertStep == ASSUME LogInv, NEW w \in Writers, Insert(w) PROVE LogInv'
  <1> DEFINE m == MonthOfWriter(w)
  <1>1. MonthsSound /\ At(w, "insert")
    BY DEF LogInv, Insert
  <1>2. CASE writer[w].gone
    BY <1>1, <1>2, LossStep DEF Insert, files
  <1>3. CASE ~writer[w].gone /\ month[m] = "ready"
    BY <1>1, <1>3, RowStep DEF Insert, history
  <1>4. CASE ~writer[w].gone /\ month[m] # "ready"
    <2>1. m \in disturbed
      BY <1>1, <1>4 DEF MonthsSound
    <2> QED
      BY <1>1, <1>4, <2>1, FailureStep DEF Insert, files
  <1> QED
    BY <1>2, <1>3, <1>4

LEMMA TrimMonthStep == ASSUME LogInv, NEW m \in Months, TrimMonth(m) PROVE LogInv'
  <1>1. CASE month[m] = "ready" \/ (cleanup.rows = 0 /\ cleanup.raw = 0)
    BY <1>1, TrimStep DEF TrimMonth
  <1>2. CASE ~(month[m] = "ready" \/ (cleanup.rows = 0 /\ cleanup.raw = 0))
    BY <1>2, AbortStep DEF TrimMonth, history
  <1> QED
    BY <1>1, <1>2

LEMMA LogStart == LogInit => LogInv
  <1> SUFFICES ASSUME LogInit PROVE LogInv
    OBVIOUS
  <1>1. Free \in WriterStates /\ NoCleanup \in CleanupStates
    BY DEF Free, WriterStates, NoCleanup, CleanupStates
  <1>2. LogTyped
    BY <1>1, RequestLogsAssumption
       DEF LogInit, LogTyped, RequestLogsAssumption, Free, At
  <1>3. Gone /\ OnePlace
    BY DEF LogInit, Gone, OnePlace, Seen, Free, NoCleanup, At
  <1>4. NoLogVanishes /\ LogsStaySound /\ MonthsSound
    BY DEF LogInit, NoLogVanishes, LogsStaySound, MonthsSound, Free, NoCleanup, At
  <1>5. SweepSound /\ RetentionKept
    BY DEF LogInit, SweepSound, RetentionKept, NoCleanup
  <1> QED
    BY <1>2, <1>3, <1>4, <1>5 DEF LogInv

LEMMA LogInvariant == LogSpec => []LogInv
  <1>1. ASSUME LogInv, [LogNext]_logVars PROVE LogInv'
    <2>1. ASSUME NEW r \in LogEntries, Log(r) PROVE LogInv'
      BY <1>1, <2>1, LogStep
    <2>2. ASSUME NEW w \in Writers, NEW r \in LogEntries, PickUp(w, r) PROVE LogInv'
      BY <1>1, <2>2, PickUpStep
    <2>3. ASSUME NEW w \in Writers, Ensure(w) \/ MakeTable(w) \/ Connect(w) \/ Insert(w)
          PROVE  LogInv'
      BY <1>1, <2>3, EnsureStep, MakeTableStep, ConnectStep, InsertStep
    <2>4. ASSUME NEW m \in Months, cleanup_month(m) \/ RemoveOver(m) \/ LookAt(m) \/ TrimMonth(m)
          PROVE  LogInv'
      BY <1>1, <2>4, RemovalStep, RemoveOverStep, LookAtStep, TrimMonthStep
    <2>5. CASE BeginCleanup \/ EndCleanup
      BY <1>1, <2>5, BeginCleanupStep, EndCleanupStep
    <2>6. CASE StartProcess \/ StartDies \/ reload_backend \/ ProcessDies
      BY <1>1, <2>6, StartProcessStep, StartDiesStep, ReloadStep, ProcessDiesStep
    <2>7. CASE DayEnds
      BY <1>1, <2>7, DayEndsStep
    <2>8. CASE UNCHANGED logVars
      <3>1. LogTyped' /\ Gone' /\ OnePlace' /\ NoLogVanishes'
        BY <1>1, <2>8 DEF logVars, calendar, process, files, history, LogInv, LogTyped, Gone,
           OnePlace, Seen, NoLogVanishes, InHand, At
      <3>2. MonthsSound' /\ LogsStaySound' /\ SweepSound' /\ RetentionKept'
        BY <1>1, <2>8 DEF logVars, calendar, process, files, history, LogInv, MonthsSound,
           LogsStaySound, SweepSound, RetentionKept, KeptOnly, RowsBefore, RawBefore, Making,
           MonthOfWriter, Oldest, At
      <3> QED
        BY <3>1, <3>2 DEF LogInv
    <2> QED
      BY <1>1, <2>1, <2>2, <2>3, <2>4, <2>5, <2>6, <2>7, <2>8 DEF LogNext
  <1> QED
    BY <1>1, LogStart, PTL DEF LogSpec

\* However writers, cleanups, removals, failures and restarts race, a record is in the
\* log, spilled or on its way, unless its time was over, it was removed by hand, the
\* process died with it or had no log (request_logs.py, _write_record_sync).
THEOREM LogsAreAccountedFor == LogSpec => []NoLogVanishes
  <1>1. LogInv => NoLogVanishes
    BY DEF LogInv
  <1> QED
    BY <1>1, LogInvariant, PTL

\* A cleanup that got to its end left nothing it found that was older than rows or raw
\* fields are kept: not in whole months, not at their edges, and nothing that was removed
\* comes back (request_logs.py, _cleanup_old_records_sync).
THEOREM RetentionIsKept == LogSpec => []RetentionKept
  <1>1. LogInv => RetentionKept
    BY DEF LogInv
  <1> QED
    BY <1>1, LogInvariant, PTL

\* Only removals, and a process that dies while it makes a month, leave a month without
\* its table, and what is spilled was spilled for that or because its month was being
\* made (request_logs.py, _ensure_month_db).
THEOREM LogsAreSound == LogSpec => []LogsStaySound
  <1>1. LogInv => LogsStaySound
    BY DEF LogInv
  <1> QED
    BY <1>1, LogInvariant, PTL

-----------------------------------------------------------------------------
(* The list of the request log, newest first.  What NewestFirst and Page    *)
(* compute is found by induction over sets and numbers, as the absence of   *)
(* a least counterexample.                                                  *)

LEMMA LeastOf ==
  ASSUME NEW T \in SUBSET Nat, T # {}
  PROVE  \E x \in T : \A y \in T : x <= y
  <1>1. PICK x \in T : \A y \in T : ~(<<y, x>> \in OpToRel(<, Nat))
    BY NatLessThanWellFounded, WFMin, Zenon
  <1>2. \A y \in T : ~(y < x)
    BY <1>1 DEF OpToRel
  <1> QED
    BY <1>2

\* The sets of Bad are subsets of S, and one of them has none of the others in it.
Sets(Bad, S) == Bad \subseteq SUBSET S

HasSmallest(Bad) == \E A \in Bad : \A B \in Bad : B \subseteq A => B = A

LEMMA SmallestOf ==
  ASSUME NEW S, NEW Bad, IsFiniteSet(S), Sets(Bad, S), Bad # {}
  PROVE  HasSmallest(Bad)
  <1>1. IsWellFoundedOn(StrictSubsetOrdering(S), SUBSET S)
    BY FS_StrictSubsetOrderingWellFounded, FS_FiniteSubsetsOfFinite, Zenon
  <1>2. Bad \subseteq SUBSET S
    BY DEF Sets
  <1>3. PICK A \in Bad : \A B \in Bad : ~(<<B, A>> \in StrictSubsetOrdering(S))
    BY <1>1, <1>2, WFMin, Zenon
  <1> QED
    BY <1>2, <1>3 DEF StrictSubsetOrdering, HasSmallest

Newer(s) == s \ {Min(s)}

\* g tells the order of each of the sets, which are closed under Newer.
Orders(g, sets) ==
  g = [s \in sets |-> IF s = {} THEN <<>> ELSE Append(g[Newer(s)], Min(s))]

LEMMA OldestOf ==
  ASSUME NEW s \in SUBSET Nat, s # {}
  PROVE  /\ Min(s) \in s /\ \A x \in s : Min(s) <= x
         /\ Newer(s) \subseteq s /\ Newer(s) # s
  <1>1. \E x \in s : \A y \in s : x <= y
    BY LeastOf
  <1>2. Min(s) \in s /\ \A x \in s : Min(s) <= x
    BY <1>1 DEF Min
  <1> QED
    BY <1>2 DEF Newer

UpToSize(S, n) == {s \in SUBSET S : Cardinality(s) <= n}

LEMMA OrdersExist ==
  ASSUME NEW S \in SUBSET Nat, IsFiniteSet(S)
  PROVE  \E g : Orders(g, SUBSET S)
  <1> DEFINE Bad == {n \in Nat : ~\E g : Orders(g, UpToSize(S, n))}
  <1>1. ASSUME NEW s \in SUBSET S
        PROVE  /\ Cardinality(s) \in Nat
               /\ s # {} => Newer(s) \in SUBSET S /\ Cardinality(Newer(s)) = Cardinality(s) - 1
    <2>1. IsFiniteSet(s)
      BY FS_Subset
    <2>2. Cardinality(s) \in Nat
      BY <2>1, FS_CardinalityType
    <2>3. ASSUME s # {} PROVE Min(s) \in s
      BY <2>3, OldestOf
    <2>4. \A x \in s : Cardinality(s \ {x}) = Cardinality(s) - 1
      BY <2>1, FS_RemoveElement
    <2> QED
      BY <2>2, <2>3, <2>4 DEF Newer
  <1>2. Bad = {}
    <2> SUFFICES ASSUME Bad # {} PROVE FALSE
      OBVIOUS
    <2>1. PICK n \in Bad : \A k \in Bad : n <= k
      BY LeastOf
    <2>2. n \in Nat
      OBVIOUS
    <2>3. CASE n = 0
      <3> DEFINE g == [s \in UpToSize(S, 0) |-> <<>>]
      <3>1. \A s \in UpToSize(S, 0) : s = {}
        <4>1. \A s \in SUBSET S : IsFiniteSet(s)
          BY FS_Subset
        <4> QED
          BY <1>1, <4>1, FS_EmptySet DEF UpToSize
      <3>2. Orders(g, UpToSize(S, 0))
        BY <3>1 DEF Orders
      <3> QED
        BY <2>3, <3>2
    <2>4. CASE n # 0
      <3>1. n - 1 \in Nat /\ n - 1 \notin Bad
        BY <2>1, <2>2, <2>4
      <3>2. PICK g : Orders(g, UpToSize(S, n - 1))
        BY <3>1
      <3> DEFINE h == [s \in UpToSize(S, n) |-> IF s = {} THEN <<>> ELSE Append(g[Newer(s)], Min(s))]
      <3>3. \A s \in UpToSize(S, n) : s # {} => Newer(s) \in UpToSize(S, n - 1)
        BY <1>1, <2>2 DEF UpToSize
      <3>4. \A s \in UpToSize(S, n - 1) : s \in UpToSize(S, n) /\ h[s] = g[s]
        <4>1. \A s \in UpToSize(S, n - 1) : s \in UpToSize(S, n)
          BY <1>1, <2>2 DEF UpToSize
        <4>2. \A s \in UpToSize(S, n - 1) : g[s] = IF s = {} THEN <<>> ELSE Append(g[Newer(s)], Min(s))
          BY <3>2 DEF Orders
        <4> QED
          BY <4>1, <4>2
      <3>5. Orders(h, UpToSize(S, n))
        BY <3>3, <3>4 DEF Orders
      <3> QED
        BY <3>5
    <2> QED
      BY <2>3, <2>4
  <1>3. Cardinality(S) \in Nat /\ UpToSize(S, Cardinality(S)) = SUBSET S
    BY FS_CardinalityType, FS_Subset DEF UpToSize
  <1>4. Cardinality(S) \notin Bad
    BY <1>2
  <1> QED
    BY <1>3, <1>4

LEMMA OrdersAgree ==
  ASSUME NEW g, NEW h, NEW S \in SUBSET Nat, NEW T, IsFiniteSet(S), T \subseteq S,
         Orders(g, SUBSET S), Orders(h, SUBSET T)
  PROVE  g[T] = h[T]
  <1> DEFINE Bad == {s \in SUBSET T : g[s] # h[s]}
  <1> SUFFICES ASSUME Bad # {} PROVE FALSE
    OBVIOUS
  <1>1. IsFiniteSet(T) /\ Bad \in SUBSET SUBSET T
    BY FS_Subset
  <1>2. PICK s \in Bad : \A B \in Bad : B \subseteq s => B = s
    <2>1. IsFiniteSet(T) /\ Sets(Bad, T) /\ Bad # {}
      BY <1>1 DEF Sets
    <2>2. HasSmallest(Bad)
      <3> HIDE DEF Bad
      <3> QED
        BY <2>1, SmallestOf
    <2> QED
      BY <2>2 DEF HasSmallest
  <1>3. /\ g[s] = IF s = {} THEN <<>> ELSE Append(g[Newer(s)], Min(s))
        /\ h[s] = IF s = {} THEN <<>> ELSE Append(h[Newer(s)], Min(s))
    BY DEF Orders
  <1>4. s # {} /\ s \in SUBSET Nat
    BY <1>3
  <1>5. Newer(s) \in SUBSET T /\ Newer(s) \subseteq s /\ Newer(s) # s
    BY <1>4, OldestOf
  <1>6. g[Newer(s)] = h[Newer(s)]
    BY <1>2, <1>5
  <1> QED
    BY <1>3, <1>4, <1>6

LEMMA NewestFirstIs ==
  ASSUME NEW S \in SUBSET Nat, IsFiniteSet(S)
  PROVE  \E g : Orders(g, SUBSET S) /\ NewestFirst(S) = g[S]
  <1> DEFINE sorted == CHOOSE g : Orders(g, SUBSET S)
  <1>1. Orders(sorted, SUBSET S)
    BY OrdersExist
  <1>2. NewestFirst(S) = sorted[S]
    BY DEF NewestFirst, Orders, Newer
  <1> QED
    BY <1>1, <1>2

LEMMA OldestLast ==
  ASSUME NEW S \in SUBSET Nat, IsFiniteSet(S)
  PROVE  NewestFirst(S) = IF S = {} THEN <<>> ELSE Append(NewestFirst(Newer(S)), Min(S))
  <1>1. PICK g : Orders(g, SUBSET S) /\ NewestFirst(S) = g[S]
    BY NewestFirstIs
  <1>2. NewestFirst(S) = IF S = {} THEN <<>> ELSE Append(g[Newer(S)], Min(S))
    BY <1>1 DEF Orders
  <1>3. Newer(S) \subseteq S /\ Newer(S) \in SUBSET Nat /\ IsFiniteSet(Newer(S))
    BY FS_Subset DEF Newer
  <1>4. PICK h : Orders(h, SUBSET Newer(S)) /\ NewestFirst(Newer(S)) = h[Newer(S)]
    BY <1>3, NewestFirstIs
  <1>5. g[Newer(S)] = NewestFirst(Newer(S))
    BY <1>1, <1>3, <1>4, OrdersAgree
  <1> QED
    BY <1>2, <1>5

LEMMA ListOfRecords ==
  ASSUME NEW S \in SUBSET Nat, IsFiniteSet(S)
  PROVE  NewestFirst(S) \in Seq(Nat)
  <1> DEFINE Bad == {s \in SUBSET S : NewestFirst(s) \notin Seq(Nat)}
  <1> SUFFICES ASSUME Bad # {} PROVE FALSE
    OBVIOUS
  <1>1. Bad \in SUBSET SUBSET S
    OBVIOUS
  <1>2. PICK s \in Bad : \A B \in Bad : B \subseteq s => B = s
    <2>1. IsFiniteSet(S) /\ Sets(Bad, S) /\ Bad # {}
      BY <1>1 DEF Sets
    <2>2. HasSmallest(Bad)
      <3> HIDE DEF Bad
      <3> QED
        BY <2>1, SmallestOf
    <2> QED
      BY <2>2 DEF HasSmallest
  <1>3. s \in SUBSET Nat /\ IsFiniteSet(s)
    BY FS_Subset
  <1>4. NewestFirst(s) = IF s = {} THEN <<>> ELSE Append(NewestFirst(Newer(s)), Min(s))
    BY <1>3, OldestLast
  <1>5. CASE s # {}
    <2>1. Min(s) \in s /\ Newer(s) \subseteq s /\ Newer(s) # s
      BY <1>3, <1>5, OldestOf
    <2>2. Min(s) \in Nat /\ NewestFirst(Newer(s)) \in Seq(Nat)
      BY <1>2, <1>3, <2>1
    <2>3. Append(NewestFirst(Newer(s)), Min(s)) \in Seq(Nat)
      BY <2>2, AppendProperties
    <2> QED
      BY <1>4, <1>5, <2>3
  <1>6. CASE s = {}
    BY <1>4, <1>6, EmptySeq
  <1> QED
    BY <1>5, <1>6

LEMMA AppendedToBoth ==
  ASSUME NEW s \in Seq(Nat), NEW t \in Seq(Nat), NEW e \in Nat
  PROVE  Append(s \o t, e) = s \o Append(t, e)
  <1>1. s \o t \in Seq(Nat)
    OBVIOUS
  <1>2. Append(s \o t, e) = (s \o t) \o <<e>>
    BY <1>1, AppendIsConcat, Zenon
  <1>3. Append(t, e) = t \o <<e>>
    BY AppendIsConcat, Zenon
  <1>4. (s \o t) \o <<e>> = s \o (t \o <<e>>)
    <2> DEFINE u == <<e>>
    <2>1. u \in Seq(Nat)
      OBVIOUS
    <2> HIDE DEF u
    <2>2. (s \o t) \o u = s \o (t \o u)
      BY <2>1, ConcatAssociative, SMTT(40)
    <2> QED
      BY <2>2 DEF u
  <1> QED
    BY <1>2, <1>3, <1>4, Zenon

\* Records that are all newer than others come before them.
LEMMA NewerComeFirst ==
  ASSUME NEW S \in SUBSET Nat, NEW T \in SUBSET Nat, IsFiniteSet(S), IsFiniteSet(T),
         \A x \in S, y \in T : y < x
  PROVE  NewestFirst(S \cup T) = NewestFirst(S) \o NewestFirst(T)
  <1> DEFINE Bad == {t \in SUBSET T : NewestFirst(S \cup t) # NewestFirst(S) \o NewestFirst(t)}
  <1> SUFFICES ASSUME Bad # {} PROVE FALSE
    OBVIOUS
  <1>1. Bad \in SUBSET SUBSET T
    OBVIOUS
  <1>2. PICK t \in Bad : \A B \in Bad : B \subseteq t => B = t
    <2>1. IsFiniteSet(T) /\ Sets(Bad, T) /\ Bad # {}
      BY <1>1 DEF Sets
    <2>2. HasSmallest(Bad)
      <3> HIDE DEF Bad
      <3> QED
        BY <2>1, SmallestOf
    <2> QED
      BY <2>2 DEF HasSmallest
  <1>3. t \in SUBSET T /\ t \in SUBSET Nat /\ IsFiniteSet(t) /\ IsFiniteSet(S \cup t) /\ S \cup t \in SUBSET Nat
    BY FS_Subset, FS_Union
  <1>4. NewestFirst(S) \in Seq(Nat)
    BY ListOfRecords
  <1>5. NewestFirst(t) = IF t = {} THEN <<>> ELSE Append(NewestFirst(Newer(t)), Min(t))
    BY <1>3, OldestLast
  <1>6. t # {}
    <2> SUFFICES ASSUME t = {} PROVE FALSE
      OBVIOUS
    <2>1. S \cup t = S /\ NewestFirst(t) = <<>>
      BY <1>5
    <2>2. NewestFirst(S) \o <<>> = NewestFirst(S)
      BY <1>4, ConcatEmptySeq
    <2> QED
      BY <2>1, <2>2
  <1>7. Min(t) \in t /\ (\A x \in t : Min(t) <= x) /\ Newer(t) \subseteq t /\ Newer(t) # t
    BY <1>3, <1>6, OldestOf
  <1>8. S \cup t # {} /\ Min(S \cup t) = Min(t) /\ Newer(S \cup t) = S \cup Newer(t)
    <2>1. Min(S \cup t) \in S \cup t /\ \A x \in S \cup t : Min(S \cup t) <= x
      BY <1>3, <1>6, OldestOf
    <2>2. Min(t) \notin S /\ \A x \in S : Min(t) < x
      <3>1. Min(t) \in T /\ Min(t) \in Nat
        BY <1>3, <1>7
      <3>2. \A x \in S : Min(t) < x
        BY <3>1
      <3> QED
        BY <3>1, <3>2
    <2>3. Min(S \cup t) = Min(t)
      <3>1. Min(S \cup t) <= Min(t) /\ Min(S \cup t) \in Nat /\ Min(t) \in Nat
        BY <1>3, <1>7, <2>1
      <3>2. Min(S \cup t) \notin S
        BY <2>2, <3>1
      <3>3. Min(t) <= Min(S \cup t)
        BY <1>7, <2>1, <3>2
      <3> QED
        BY <3>1, <3>3
    <2> QED
      BY <1>6, <2>2, <2>3 DEF Newer
  <1>9. NewestFirst(S \cup t) = Append(NewestFirst(S \cup Newer(t)), Min(t))
    BY <1>3, <1>8, OldestLast
  <1>10. NewestFirst(S \cup Newer(t)) = NewestFirst(S) \o NewestFirst(Newer(t))
    BY <1>2, <1>3, <1>7
  <1>11. Newer(t) \in SUBSET Nat /\ IsFiniteSet(Newer(t)) /\ Min(t) \in Nat
    BY <1>3, <1>7, FS_Subset
  <1>12. NewestFirst(Newer(t)) \in Seq(Nat)
    BY <1>11, ListOfRecords
  <1>13. NewestFirst(S \cup t) = NewestFirst(S) \o NewestFirst(t)
    BY <1>4, <1>5, <1>6, <1>9, <1>10, <1>11, <1>12, AppendedToBoth, ZenonT(40)
  <1> QED
    BY <1>13


\* What is to be in a slice, and its length.
Holds(slice, s, skip, n) ==
  /\ slice \in Seq(Nat)
  /\ Len(slice) = IF skip >= Len(s) THEN 0 ELSE IF skip + n < Len(s) THEN n ELSE Len(s) - skip
  /\ \A i \in 1..Len(slice) : slice[i] = s[skip + i]

LEMMA SliceHolds ==
  ASSUME NEW s \in Seq(Nat), NEW skip \in Nat, NEW n \in Nat
  PROVE  Holds(Slice(s, skip, n), s, skip, n)
  <1> DEFINE last == IF skip + n < Len(s) THEN skip + n ELSE Len(s)
  <1>1. Len(s) \in Nat /\ last \in Nat /\ last <= Len(s) /\ Slice(s, skip, n) = SubSeq(s, skip + 1, last)
    BY LenProperties DEF Slice
  <1>2. \A i \in skip + 1 .. last : s[i] \in Nat
    BY <1>1, SMTT(30)
  <1>3. /\ SubSeq(s, skip + 1, last) \in Seq(Nat)
        /\ Len(SubSeq(s, skip + 1, last)) = IF skip + 1 <= last THEN last - skip ELSE 0
        /\ \A i \in 1..last - skip : SubSeq(s, skip + 1, last)[i] = s[skip + i]
    BY <1>1, <1>2, SubSeqProperties
  <1>4. Slice(s, skip, n) = SubSeq(s, skip + 1, last)
    BY <1>1
  <1> DEFINE slice == SubSeq(s, skip + 1, last)
  <1>5. slice \in Seq(Nat) /\ Len(slice) = (IF skip + 1 <= last THEN last - skip ELSE 0)
    BY <1>3
  <1>6. last = IF skip + n < Len(s) THEN skip + n ELSE Len(s)
    OBVIOUS
  <1>7. \A i \in 1..last - skip : slice[i] = s[skip + i]
    BY <1>3
  <1> HIDE DEF last, slice
  <1>8. Len(slice) = IF skip >= Len(s) THEN 0 ELSE IF skip + n < Len(s) THEN n ELSE Len(s) - skip
    BY <1>1, <1>5, <1>6, SMTT(30)
  <1>9. 1..Len(slice) \subseteq 1..last - skip
    BY <1>1, <1>5
  <1>10. Holds(slice, s, skip, n)
    BY <1>5, <1>7, <1>8, <1>9 DEF Holds
  <1> QED
    BY <1>4, <1>10 DEF slice

\* A slice is what its elements are.
LEMMA SlicesEqual ==
  ASSUME NEW slice, NEW other, NEW s, NEW skip, NEW n, Holds(slice, s, skip, n), other \in Seq(Nat),
         Len(other) = Len(slice), \A i \in 1..Len(slice) : other[i] = s[skip + i]
  PROVE  slice = other
  BY SeqEqual DEF Holds

LEMMA SliceOfBack ==
  ASSUME NEW s \in Seq(Nat), NEW t \in Seq(Nat), NEW skip \in Nat, NEW n \in Nat, skip >= Len(s)
  PROVE  Slice(s \o t, skip, n) = Slice(t, skip - Len(s), n)
  <1> DEFINE all   == s \o t
             a     == Len(s)
             b     == Len(t)
             whole == Slice(all, skip, n)
             after == Slice(t, skip - a, n)
  <1>1. /\ a \in Nat /\ b \in Nat /\ all \in Seq(Nat) /\ Len(all) = a + b /\ skip >= a
        /\ \A i \in 1..b : all[a + i] = t[i]
    OBVIOUS
  <1>2. skip - a \in Nat
    BY <1>1
  <1> HIDE DEF all, a
  <1>3. Holds(whole, all, skip, n) /\ Holds(after, t, skip - a, n)
    BY <1>1, <1>2, SliceHolds
  <1>4. b = Len(t)
    OBVIOUS
  <1> HIDE DEF whole, after, b
  <1>5. /\ Len(whole) = IF skip >= a + b THEN 0 ELSE IF skip + n < a + b THEN n ELSE a + b - skip
        /\ Len(after) = IF skip - a >= b THEN 0 ELSE IF skip - a + n < b THEN n ELSE b - (skip - a)
    BY <1>1, <1>3, <1>4, SMTT(30) DEF Holds
  <1>6. Len(whole) = Len(after) /\ Len(after) \in Nat /\ (skip - a + Len(after) <= b \/ Len(after) = 0)
    BY <1>1, <1>5
  <1>7. Len(whole) = Len(after)
    BY <1>1, <1>5
  <1>8. ASSUME NEW i \in 1..Len(whole) PROVE after[i] = all[skip + i]
    <2> DEFINE j == skip - a + i
    <2>1. j \in 1..b /\ skip + i = a + j /\ i \in 1..Len(after)
      BY <1>1, <1>6, <1>7
    <2>2. after[i] = t[j]
      BY <1>3, <2>1 DEF Holds
    <2> HIDE DEF j
    <2> QED
      BY <1>1, <2>1, <2>2
  <1>9. after \in Seq(Nat)
    BY <1>3 DEF Holds
  <1>10. whole = after
    BY <1>3, <1>7, <1>8, <1>9, SlicesEqual
  <1> QED
    BY <1>10 DEF whole, after, all, a

LEMMA SliceOfFront ==
  ASSUME NEW s \in Seq(Nat), NEW t \in Seq(Nat), NEW skip \in Nat, NEW n \in Nat, skip < Len(s)
  PROVE  /\ Len(Slice(s, skip, n)) \in 0..n
         /\ Slice(s \o t, skip, n) = Slice(s, skip, n) \o Slice(t, 0, n - Len(Slice(s, skip, n)))
  <1> DEFINE all   == s \o t
             a     == Len(s)
             b     == Len(t)
             whole == Slice(all, skip, n)
             front == Slice(s, skip, n)
             left  == n - Len(front)
             back  == Slice(t, 0, left)
             c     == Len(front)
             d     == Len(back)
  <1>1. /\ a \in Nat /\ b \in Nat /\ all \in Seq(Nat) /\ Len(all) = a + b /\ skip < a
        /\ \A i \in 1..a : all[i] = s[i]
        /\ \A i \in 1..b : all[a + i] = t[i]
    OBVIOUS
  <1> HIDE DEF all
  <1>2. Holds(whole, all, skip, n) /\ Holds(front, s, skip, n)
    BY <1>1, SliceHolds
  <1>3. c = IF skip + n < a THEN n ELSE a - skip
    <2> HIDE DEF front
    <2> QED
      BY <1>1, <1>2 DEF Holds
  <1>4. c \in 0..n /\ left \in Nat /\ left = n - c
    <2> HIDE DEF front, a, c
    <2>1. c \in 0..n
      BY <1>1, <1>3
    <2> QED
      BY <2>1 DEF c
  <1>5. Holds(back, t, 0, left)
    <2> HIDE DEF left
    <2> QED
      BY <1>4, SliceHolds
  <1>6. a = Len(s) /\ b = Len(t) /\ c = Len(front) /\ d = Len(back)
    OBVIOUS
  <1> HIDE DEF whole, front, left, back, a, b, c, d
  <1>7. d = IF left < b THEN left ELSE b
    <2>1. d = IF 0 >= b THEN 0 ELSE IF 0 + left < b THEN left ELSE b - 0
      BY <1>5, <1>6 DEF Holds
    <2> QED
      BY <1>1, <1>4, <2>1
  <1>8. Len(whole) = IF skip + n < a + b THEN n ELSE a + b - skip
    BY <1>1, <1>2, <1>6 DEF Holds
  <1>9. d \in Nat /\ d <= b /\ d <= left /\ Len(whole) = c + d /\ (d > 0 => c = a - skip)
    <2>1. CASE skip + n < a
      <3>1. c = n /\ left = 0
        BY <1>3, <1>4, <2>1
      <3>2. d = 0
        BY <1>1, <1>7, <3>1
      <3> QED
        BY <1>1, <1>8, <2>1, <3>1, <3>2, SMTT(30)
    <2>2. CASE skip + n >= a
      <3>1. c = a - skip /\ left = n - (a - skip)
        BY <1>1, <1>3, <1>4, <2>2, SMTT(40)
      <3>2. CASE left < b
        <4>1. d = left /\ Len(whole) = n
          BY <1>1, <1>7, <1>8, <3>1, <3>2
        <4> QED
          BY <1>1, <1>4, <3>1, <3>2, <4>1
      <3>3. CASE left >= b
        <4>1. d = b /\ Len(whole) = a + b - skip
          BY <1>1, <1>4, <1>7, <1>8, <3>1, <3>3
        <4> QED
          BY <1>1, <1>4, <3>1, <3>3, <4>1
      <3> QED
        BY <1>1, <1>4, <3>2, <3>3
    <2> QED
      BY <1>1, <2>1, <2>2
  <1>10. front \in Seq(Nat) /\ back \in Seq(Nat)
    BY <1>2, <1>5 DEF Holds
  <1>11. /\ front \o back \in Seq(Nat) /\ Len(front \o back) = c + d
         /\ \A i \in 1..c : (front \o back)[i] = front[i]
         /\ \A i \in 1..d : (front \o back)[c + i] = back[i]
    BY <1>6, <1>10, SMTT(30)
  <1>12. ASSUME NEW i \in 1..c PROVE (front \o back)[i] = all[skip + i]
    <2>1. front[i] = s[skip + i]
      BY <1>2, <1>6 DEF Holds
    <2>2. skip + i \in 1..a
      <3>1. c \in Nat /\ c <= a - skip /\ a \in Nat
        BY <1>1, <1>3, <1>4, SMTT(30)
      <3>2. i \in Nat /\ 1 <= i /\ i <= c
        BY <3>1
      <3>3. skip + i \in Nat /\ 1 <= skip + i
        BY <3>2
      <3> QED
        BY <3>1, <3>2, <3>3
    <2> QED
      BY <1>1, <1>11, <2>1, <2>2
  <1>13. ASSUME NEW j \in 1..d PROVE (front \o back)[c + j] = all[skip + (c + j)]
    <2>1. back[j] = t[0 + j] /\ 0 + j = j
      BY <1>5, <1>6 DEF Holds
    <2>2. j \in 1..b /\ skip + (c + j) = a + j
      BY <1>1, <1>4, <1>9
    <2> QED
      BY <1>1, <1>11, <2>1, <2>2
  <1>14. ASSUME NEW i \in 1..Len(whole) PROVE (front \o back)[i] = all[skip + i]
    <2>1. CASE i <= c
      <3>1. i \in 1..c
        BY <1>4, <2>1
      <3> QED
        BY <1>12, <3>1
    <2>2. CASE i > c
      <3> DEFINE j == i - c
      <3>1. j \in 1..d /\ i = c + j
        BY <1>4, <1>9, <2>2
      <3> HIDE DEF j
      <3> QED
        BY <1>13, <3>1
    <2>3. i <= c \/ i > c
      BY <1>4
    <2> QED
      BY <2>1, <2>2, <2>3, Zenon
  <1>15. whole = front \o back
    BY <1>2, <1>9, <1>11, <1>14, SlicesEqual
  <1> QED
    BY <1>4, <1>15 DEF whole, front, left, back, all, a, b, c, d

LEMMA SliceBeyond ==
  ASSUME NEW s \in Seq(Nat), NEW skip \in Nat, NEW n \in Nat, skip >= Len(s)
  PROVE  Slice(s, skip, n) = <<>>
  <1> DEFINE whole == Slice(s, skip, n)
  <1>1. Holds(whole, s, skip, n)
    BY SliceHolds
  <1> HIDE DEF whole
  <1>2. whole \in Seq(Nat) /\ Len(whole) = 0
    BY <1>1 DEF Holds
  <1>3. whole = <<>>
    BY <1>2, EmptySeq
  <1> QED
    BY <1>3 DEF whole

\* The log as the list finds it.
ListSound ==
  /\ IsFiniteSet(rows) /\ rows \subseteq Nat
  /\ \A r \in rows : MonthOf(born[r]) \in Months /\ month[MonthOf(born[r])] = "ready"
  /\ \A q, r \in rows : q < r => MonthOf(born[q]) <= MonthOf(born[r])

LastMonth == MonthOf(FinalDay)

\* The records of the last n months, and what is gathered for a page from them.
Recent(n) == {r \in rows : MonthOf(born[r]) > LastMonth - n}

Got(skip, items) == [skip |-> skip, items |-> items]

ToSkip(list, skip) == IF Len(list) >= skip THEN 0 ELSE skip - Len(list)

GatheredFrom(list, skip, size) == Got(ToSkip(list, skip), Slice(list, skip, size))

LEMMA OneMonthMore ==
  ASSUME ListSound, LastMonth \in Nat, NEW n \in 1..LastMonth
  PROVE  /\ NewestFirst(Recent(n - 1)) \in Seq(Nat)
         /\ NewestFirst(InMonth(LastMonth + 1 - n)) \in Seq(Nat)
         /\ NewestFirst(Recent(n)) = NewestFirst(Recent(n - 1)) \o NewestFirst(InMonth(LastMonth + 1 - n))
         /\ InMonth(LastMonth + 1 - n) = {} => Recent(n) = Recent(n - 1)
         /\ month[LastMonth + 1 - n] # "ready" => InMonth(LastMonth + 1 - n) = {}
  <1> DEFINE S == Recent(n - 1)
             T == InMonth(LastMonth + 1 - n)
  <1>1. S \in SUBSET Nat /\ T \in SUBSET Nat /\ IsFiniteSet(S) /\ IsFiniteSet(T)
    <2>1. S \subseteq rows /\ T \subseteq rows
      BY DEF Recent, InMonth
    <2> HIDE DEF S, T
    <2> QED
      BY <2>1, FS_Subset DEF ListSound
  <1>2. Recent(n) = S \cup T
    <2>1. \A r \in rows : MonthOf(born[r]) \in Int
      BY DEF ListSound, Months
    <2>2. \A k \in Int : k > LastMonth - n <=> k > LastMonth - (n - 1) \/ k = LastMonth + 1 - n
      OBVIOUS
    <2> QED
      BY <2>1, <2>2 DEF Recent, InMonth
  <1>3. ASSUME NEW x \in S, NEW y \in T PROVE y < x
    <2>1. /\ x \in rows /\ y \in rows /\ x \in Nat /\ y \in Nat
          /\ MonthOf(born[x]) > LastMonth - (n - 1) /\ MonthOf(born[y]) = LastMonth + 1 - n
          /\ MonthOf(born[x]) \in Int
      BY DEF Recent, InMonth, ListSound, Months
    <2>2. MonthOf(born[y]) < MonthOf(born[x])
      BY <2>1
    <2>3. ~(x < y) /\ x # y
      BY <2>1, <2>2 DEF ListSound
    <2> QED
      BY <2>1, <2>3
  <1>4. month[LastMonth + 1 - n] # "ready" => T = {}
    BY DEF InMonth, ListSound
  <1> HIDE DEF S, T
  <1>5. NewestFirst(S) \in Seq(Nat) /\ NewestFirst(T) \in Seq(Nat)
    BY <1>1, ListOfRecords
  <1>6. NewestFirst(S \cup T) = NewestFirst(S) \o NewestFirst(T)
    BY <1>1, <1>3, NewerComeFirst
  <1> QED
    BY <1>2, <1>4, <1>5, <1>6 DEF S, T

\* A month adds to what was gathered what a page takes from it.
LEMMA MonthGathered ==
  ASSUME ListSound, LastMonth \in Nat, NEW n \in 1..LastMonth, NEW skip \in Nat, NEW size \in Nat \ {0}
  PROVE  Collected(GatheredFrom(NewestFirst(Recent(n - 1)), skip, size), LastMonth + 1 - n, size)
           = GatheredFrom(NewestFirst(Recent(n)), skip, size)
  <1> DEFINE m    == LastMonth + 1 - n
             s    == NewestFirst(Recent(n - 1))
             t    == NewestFirst(InMonth(m))
             acc  == GatheredFrom(s, skip, size)
             next == GatheredFrom(NewestFirst(Recent(n)), skip, size)
             a    == Len(s)
             b    == Len(t)
  <1> SUFFICES Collected(acc, m, size) = next
    OBVIOUS
  <1>1. /\ s \in Seq(Nat) /\ t \in Seq(Nat) /\ NewestFirst(Recent(n)) = s \o t
        /\ InMonth(m) = {} => Recent(n) = Recent(n - 1)
        /\ month[m] # "ready" => InMonth(m) = {}
    BY OneMonthMore
  <1>2. /\ month[m] # "ready" => Collected(acc, m, size) = acc
        /\ month[m] = "ready" /\ acc.skip >= b =>
             Collected(acc, m, size) = Got(acc.skip - b, acc.items)
        /\ month[m] = "ready" /\ ~(acc.skip >= b) =>
             Collected(acc, m, size) = Got(0, acc.items \o Slice(t, acc.skip, Wanted(acc, size)))
    BY DEF Collected, GatheredFrom, Got
  <1>3. InMonth(m) = {} => next = acc
    BY <1>1
  <1>4. /\ next = GatheredFrom(s \o t, skip, size)
        /\ a = Len(s) /\ b = Len(t)
    BY <1>1
  <1> HIDE DEF m, s, t, acc, next, a, b
  <1>5. a \in Nat /\ b \in Nat /\ Len(s \o t) = a + b /\ s \o t \in Seq(Nat) /\ (b = 0 => t = <<>>)
    BY <1>1, <1>4, LenProperties, ConcatProperties, EmptySeq
  <1>6. /\ ToSkip(s \o t, skip) = IF a + b >= skip THEN 0 ELSE skip - (a + b)
        /\ next = Got(ToSkip(s \o t, skip), Slice(s \o t, skip, size))
    BY <1>4, <1>5 DEF GatheredFrom, ToSkip
  <1>7. acc.skip \in Nat /\ acc.skip = (IF a >= skip THEN 0 ELSE skip - a) /\ acc.items = Slice(s, skip, size)
    BY <1>4, <1>5 DEF acc, GatheredFrom, ToSkip, Got
  <1>8. CASE month[m] # "ready"
    BY <1>1, <1>2, <1>3, <1>8, Zenon
  <1>9. CASE month[m] = "ready" /\ acc.skip >= b
    <2>1. Collected(acc, m, size) = Got(acc.skip - b, acc.items)
      BY <1>2, <1>9
    <2>2. CASE a >= skip
      <3>1. b = 0 /\ acc.skip - b = 0 /\ ToSkip(s \o t, skip) = 0
        BY <1>5, <1>6, <1>7, <1>9, <2>2
      <3>2. s \o t = s
        BY <1>1, <1>5, <3>1, ConcatEmptySeq
      <3> QED
        BY <1>6, <1>7, <2>1, <3>1, <3>2
    <2>3. CASE a < skip
      <3>1. skip >= a + b /\ acc.skip - b = ToSkip(s \o t, skip)
        BY <1>5, <1>6, <1>7, <1>9, <2>3
      <3>2. skip >= Len(s) /\ skip >= Len(s \o t)
        BY <1>4, <1>5, <2>3, <3>1
      <3>3. Slice(s, skip, size) = <<>> /\ Slice(s \o t, skip, size) = <<>>
        BY <1>1, <1>5, <3>2, SliceBeyond
      <3> QED
        BY <1>6, <1>7, <2>1, <3>1, <3>3
    <2> QED
      BY <1>5, <2>2, <2>3
  <1>10. CASE month[m] = "ready" /\ acc.skip < b
    <2>1. Collected(acc, m, size) =
            Got(0, acc.items \o Slice(t, acc.skip, Wanted(acc, size)))
      BY <1>2, <1>5, <1>7, <1>10
    <2>2. ToSkip(s \o t, skip) = 0
      BY <1>5, <1>6, <1>7, <1>10
    <2>3. CASE a > skip
      <3>1. /\ Len(acc.items) \in 0..size
            /\ Slice(s \o t, skip, size) = acc.items \o Slice(t, 0, size - Len(acc.items))
        BY <1>1, <1>4, <1>7, <2>3, SliceOfFront, SMTT(30)
      <3>2. Wanted(acc, size) = size - Len(acc.items) /\ acc.skip = 0
        BY <1>5, <1>7, <2>3, <3>1 DEF Wanted
      <3> QED
        BY <1>6, <2>1, <2>2, <3>1, <3>2
    <2>4. CASE a <= skip
      <3>1. acc.items = <<>> /\ skip >= Len(s)
        BY <1>1, <1>4, <1>5, <1>7, <2>4, SliceBeyond
      <3>2. Slice(s \o t, skip, size) = Slice(t, skip - a, size)
        BY <1>1, <1>4, <3>1, SliceOfBack
      <3>3. acc.skip = skip - a /\ Wanted(acc, size) = size
        BY <1>5, <1>7, <2>4, <3>1, EmptySeq DEF Wanted
      <3>4. Holds(Slice(t, skip - a, size), t, skip - a, size)
        BY <1>1, <1>7, <3>3, SliceHolds
      <3>5. <<>> \o Slice(t, skip - a, size) = Slice(t, skip - a, size)
        BY <3>4, ConcatEmptySeq DEF Holds
      <3> QED
        BY <1>6, <2>1, <2>2, <3>1, <3>2, <3>3, <3>5
    <2> QED
      BY <1>5, <2>3, <2>4
  <1>11. acc.skip >= b \/ acc.skip < b
    BY <1>5, <1>7
  <1> QED
    BY <1>8, <1>9, <1>10, <1>11, Zenon

\* g tells what is gathered from each of the first n months, the newest first.
Gathers(g, page, size, n) ==
  g = [i \in 0..n |-> IF i = 0 THEN [skip |-> (page - 1) * size, items |-> <<>>]
                      ELSE Collected(g[i - 1], LastMonth + 1 - i, size)]

LEMMA GatheringExists ==
  ASSUME NEW page, NEW size, NEW n \in Nat
  PROVE  \E g : Gathers(g, page, size, n)
  <1> DEFINE Bad == {k \in Nat : ~\E g : Gathers(g, page, size, k)}
  <1> SUFFICES ASSUME Bad # {} PROVE FALSE
    OBVIOUS
  <1>1. PICK k \in Bad : \A j \in Bad : k <= j
    BY LeastOf
  <1>2. CASE k = 0
    <2> DEFINE g == [i \in 0..0 |-> [skip |-> (page - 1) * size, items |-> <<>>]]
    <2>1. Gathers(g, page, size, 0)
      BY DEF Gathers
    <2> QED
      BY <1>2, <2>1
  <1>3. CASE k # 0
    <2>1. k - 1 \in Nat /\ k - 1 \notin Bad
      BY <1>1, <1>3
    <2>2. PICK g : Gathers(g, page, size, k - 1)
      BY <2>1
    <2> DEFINE h == [i \in 0..k |-> IF i = 0 THEN [skip |-> (page - 1) * size, items |-> <<>>]
                                    ELSE Collected(g[i - 1], LastMonth + 1 - i, size)]
    <2>3. \A i \in 0..k - 1 : i \in 0..k /\ h[i] = g[i]
      <3>1. \A i \in 0..k - 1 : g[i] = IF i = 0 THEN [skip |-> (page - 1) * size, items |-> <<>>]
                                       ELSE Collected(g[i - 1], LastMonth + 1 - i, size)
        BY <2>2 DEF Gathers
      <3> QED
        BY <2>1, <3>1
    <2>4. \A i \in 0..k : i = 0 \/ i - 1 \in 0..k - 1
      OBVIOUS
    <2>5. Gathers(h, page, size, k)
      BY <2>3, <2>4 DEF Gathers
    <2> QED
      BY <2>5
  <1> QED
    BY <1>2, <1>3

LEMMA PageIs ==
  ASSUME NEW page, NEW size, LastMonth \in Nat
  PROVE  \E g : Gathers(g, page, size, LastMonth) /\ Page(page, size) = g[LastMonth].items
  <1> DEFINE got == CHOOSE g : Gathers(g, page, size, LastMonth)
  <1>1. Gathers(got, page, size, LastMonth)
    BY GatheringExists
  <1>2. Page(page, size) = got[LastMonth].items
    BY DEF Page, Gathers, LastMonth
  <1> QED
    BY <1>1, <1>2

\* A page is the same page of all the rows.
LEMMA PageIsSlice ==
  ASSUME ListSound, LastMonth \in Nat, NEW page \in Nat \ {0}, NEW size \in Nat \ {0}
  PROVE  Page(page, size) = Slice(NewestFirst(rows), (page - 1) * size, size)
  <1> DEFINE skip == (page - 1) * size
             Gathered(n) == GatheredFrom(NewestFirst(Recent(n)), skip, size)
  <1>1. skip \in Nat
    OBVIOUS
  <1>2. PICK g : Gathers(g, page, size, LastMonth) /\ Page(page, size) = g[LastMonth].items
    BY PageIs
  <1>3. /\ g[0] = Got(skip, <<>>)
        /\ \A i \in 1..LastMonth : g[i] = Collected(g[i - 1], LastMonth + 1 - i, size)
    <2>1. \A i \in 0..LastMonth : g[i] = IF i = 0 THEN [skip |-> (page - 1) * size, items |-> <<>>]
                                         ELSE Collected(g[i - 1], LastMonth + 1 - i, size)
      BY <1>2 DEF Gathers
    <2> QED
      BY <2>1, SMTT(30) DEF Got
  <1>4. Recent(0) = {} /\ Recent(LastMonth) = rows
    <2>1. \A r \in rows : MonthOf(born[r]) \in 1..LastMonth
      BY DEF ListSound, Months, LastMonth
    <2> QED
      BY <2>1 DEF Recent
  <1>5. g[0] = Gathered(0)
    <2>1. {} \in SUBSET Nat /\ IsFiniteSet({})
      BY FS_EmptySet
    <2>2. NewestFirst({}) = <<>>
      BY <2>1, OldestLast
    <2>3. Len(<<>>) = 0 /\ <<>> \in Seq(Nat)
      BY EmptySeq
    <2>4. ToSkip(<<>>, skip) = skip
      BY <1>1, <2>3 DEF ToSkip
    <2>5. Slice(<<>>, skip, size) = <<>>
      <3>1. <<>> \in Seq(Nat) /\ skip >= Len(<<>>) /\ size \in Nat
        BY <1>1, <2>3
      <3> HIDE DEF skip
      <3> QED
        BY <1>1, <3>1, SliceBeyond
    <2> QED
      BY <1>3, <1>4, <2>2, <2>4, <2>5 DEF GatheredFrom
  <1> HIDE DEF skip
  <1>6. \A n \in 1..LastMonth : Collected(Gathered(n - 1), LastMonth + 1 - n, size) = Gathered(n)
    BY <1>1, MonthGathered
  <1> HIDE DEF Gathered
  <1>7. \A n \in 0..LastMonth : g[n] = Gathered(n)
    <2> DEFINE Bad == {n \in 0..LastMonth : g[n] # Gathered(n)}
    <2> SUFFICES ASSUME Bad # {} PROVE FALSE
      OBVIOUS
    <2>1. Bad \in SUBSET Nat
      OBVIOUS
    <2>2. PICK n \in Bad : \A k \in Bad : n <= k
      <3> HIDE DEF Bad
      <3> QED
        BY <2>1, LeastOf
    <2>3. n \in 1..LastMonth
      BY <1>5
    <2>4. n - 1 \in 0..LastMonth /\ n - 1 \notin Bad
      BY <2>2, <2>3
    <2>5. g[n - 1] = Gathered(n - 1)
      BY <2>4
    <2>6. g[n] = Gathered(n)
      BY <1>3, <1>6, <2>3, <2>5
    <2> QED
      BY <2>6
  <1>8. g[LastMonth] = GatheredFrom(NewestFirst(rows), skip, size)
    BY <1>4, <1>7 DEF Gathered
  <1> QED
    BY <1>2, <1>8 DEF GatheredFrom, Got, skip

\* Records come in their order, and there are finitely many rows.
Chronology ==
  /\ IsFiniteSet(rows)
  /\ \A q, r \in LogEntries : q < r /\ born[r] > 0 => born[q] > 0 /\ born[q] <= born[r]

LEMMA ChronologyOfLog ==
  ASSUME LogInv, Chronology, NEW r \in LogEntries, Log(r)
  PROVE  Chronology'
  <1>1. /\ born' = [born EXCEPT ![r] = date] /\ born[r] = 0 /\ rows' = rows
        /\ \A q \in LogEntries : q < r => born[q] > 0
    BY DEF Log, files
  <1>2. /\ born \in [LogEntries -> Nat] /\ date \in Nat /\ date > 0
        /\ \A q \in LogEntries : born[q] <= date
    BY DEF LogInv, LogTyped
  <1>3. ASSUME NEW p \in LogEntries, NEW q \in LogEntries, p < q, born'[q] > 0
        PROVE  born'[p] > 0 /\ born'[p] <= born'[q]
    <2>1. p \in Nat /\ q \in Nat /\ p # q
      BY <1>3, RequestLogsAssumption DEF RequestLogsAssumption
    <2>2. CASE q = r
      <3>1. born'[p] = born[p] /\ born'[q] = date
        BY <1>1, <1>2, <2>1, <2>2
      <3> QED
        BY <1>1, <1>2, <1>3, <2>2, <3>1
    <2>3. CASE q # r
      <3>1. born'[q] = born[q]
        BY <1>1, <1>2, <2>3
      <3>2. born[p] > 0 /\ born[p] <= born[q]
        BY <1>3, <3>1 DEF Chronology
      <3>3. p # r
        BY <1>1, <1>2, <3>2
      <3>4. born'[p] = born[p]
        BY <1>1, <1>2, <3>3
      <3> QED
        BY <3>1, <3>2, <3>4
    <2> QED
      BY <2>2, <2>3
  <1>4. IsFiniteSet(rows')
    BY <1>1 DEF Chronology
  <1> QED
    BY <1>3, <1>4 DEF Chronology

LEMMA ChronologyStays ==
  ASSUME Chronology, born' = born, rows' \subseteq rows \/ \E r : rows' = rows \cup {r}
  PROVE  Chronology'
  <1>1. IsFiniteSet(rows')
    <2>1. CASE rows' \subseteq rows
      BY <2>1, FS_Subset DEF Chronology
    <2>2. CASE \E r : rows' = rows \cup {r}
      BY <2>2, FS_AddElement DEF Chronology
    <2> QED
      BY <2>1, <2>2
  <1> QED
    BY <1>1 DEF Chronology

LEMMA ChronologyStep ==
  ASSUME LogInv, Chronology, [LogNext]_logVars
  PROVE  Chronology'
  <1> DEFINE Quiet == born' = born /\ (rows' \subseteq rows \/ \E r : rows' = rows \cup {r})
  <1>1. ASSUME NEW r \in LogEntries, Log(r) PROVE Chronology'
    BY <1>1, ChronologyOfLog
  <1>2. ASSUME NEW w \in Writers, NEW r \in LogEntries, PickUp(w, r) PROVE Quiet
    BY <1>2 DEF PickUp, calendar, files
  <1>3. ASSUME NEW w \in Writers, Ensure(w) \/ MakeTable(w) \/ Connect(w) PROVE Quiet
    BY <1>3 DEF Ensure, MakeTable, Connect, calendar
  <1>4. ASSUME NEW w \in Writers, Insert(w) PROVE Quiet
    BY <1>4 DEF Insert, calendar
  <1>5. ASSUME NEW m \in Months, cleanup_month(m) \/ RemoveOver(m) PROVE Quiet
    BY <1>5 DEF cleanup_month, RemoveOver, RemoveFile, calendar
  <1>6. ASSUME NEW m \in Months, LookAt(m) \/ TrimMonth(m) PROVE Quiet
    BY <1>6 DEF LookAt, TrimMonth, calendar, files
  <1>7. ASSUME BeginCleanup \/ EndCleanup PROVE Quiet
    BY <1>7 DEF BeginCleanup, EndCleanup, calendar, files
  <1>8. ASSUME StartProcess \/ StartDies \/ reload_backend \/ ProcessDies PROVE Quiet
    BY <1>8 DEF StartProcess, StartDies, reload_backend, ProcessDies, calendar, files
  <1>9. ASSUME DayEnds \/ UNCHANGED logVars PROVE Quiet
    BY <1>9 DEF DayEnds, logVars, calendar, files
  <1>10. Quiet => Chronology'
    BY ChronologyStays
  <1> HIDE DEF Quiet
  <1> QED
    BY <1>1, <1>2, <1>3, <1>4, <1>5, <1>6, <1>7, <1>8, <1>9, <1>10 DEF LogNext

LEMMA RowsInOrder ==
  ASSUME LogInv, Chronology
  PROVE  ListSound /\ LastMonth \in Nat
  <1>1. /\ LogTyped /\ OnePlace /\ MonthsSound
        /\ LogEntries \subseteq Nat /\ FinalDay \in Nat \ {0} /\ DaysPerMonth \in Nat \ {0}
    BY RequestLogsAssumption DEF LogInv, RequestLogsAssumption
  <1>2. rows \subseteq LogEntries /\ \A r \in rows : born[r] \in Nat /\ born[r] > 0
    BY <1>1 DEF OnePlace, Seen, LogTyped
  <1>3. \A r \in rows : MonthOf(born[r]) \in Months /\ month[MonthOf(born[r])] = "ready"
    BY <1>1, <1>2, MonthsThere DEF MonthsSound
  <1>4. ASSUME NEW q \in rows, NEW r \in rows, q < r
        PROVE  MonthOf(born[q]) <= MonthOf(born[r])
    <2>1. born[q] <= born[r]
      BY <1>2, <1>4 DEF Chronology
    <2>2. born[q] - 1 \in Nat /\ born[r] - 1 \in Nat /\ born[q] - 1 <= born[r] - 1
      BY <1>2, <2>1
    <2>3. (born[q] - 1) \div DaysPerMonth <= (born[r] - 1) \div DaysPerMonth
      BY <1>1, <2>2, QuotientGrows
    <2>4. (born[q] - 1) \div DaysPerMonth \in Nat /\ (born[r] - 1) \div DaysPerMonth \in Nat
      BY <1>1, <2>2, Quotient
    <2> QED
      BY <2>3, <2>4 DEF MonthOf
  <1>5. LastMonth \in Nat
    <2>1. FinalDay - 1 \in Nat
      BY <1>1
    <2>2. (FinalDay - 1) \div DaysPerMonth \in Nat
      BY <1>1, <2>1, Quotient
    <2> QED
      BY <2>2 DEF LastMonth, MonthOf
  <1>6. IsFiniteSet(rows) /\ rows \subseteq Nat
    BY <1>1, <1>2 DEF Chronology
  <1> QED
    BY <1>3, <1>4, <1>5, <1>6 DEF ListSound

\* Whatever months are empty, missing or broken, a page of the list is the same page of
\* the whole log, newest first: none of its rows is left out, told twice or out of its
\* place (request_logs.py, _list_requests_sync).
THEOREM PagesAreTheLog == LogSpec => []PagesAreSlices
  <1>1. LogInit => Chronology
    BY FS_EmptySet DEF LogInit, Chronology
  <1>2. LogInv /\ Chronology => PagesAreSlices
    <2> SUFFICES ASSUME LogInv, Chronology, NEW size \in PageSizes,
                        NEW page \in 1..Cardinality(rows) + 1
                 PROVE  Page(page, size) = Slice(NewestFirst(rows), (page - 1) * size, size)
      BY DEF PagesAreSlices
    <2>1. size \in Nat \ {0} /\ page \in Nat \ {0}
      BY RequestLogsAssumption DEF RequestLogsAssumption
    <2> QED
      BY <2>1, RowsInOrder, PageIsSlice
  <1>3. LogInv /\ Chronology /\ [LogNext]_logVars => Chronology'
    BY ChronologyStep
  <1> QED
    BY <1>1, <1>2, <1>3, LogInvariant, PTL DEF LogSpec
=============================================================================
