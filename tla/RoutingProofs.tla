--------------------------- MODULE RoutingProofs ---------------------------
(***************************************************************************)
(* Where requests and probes go.                                           *)
(*                                                                         *)
(* The accounts of a probe hold for any number of pairs, groups and        *)
(* endpoints, any limits, and whatever upstreams and others do.            *)
(*                                                                         *)
(* The balancer's turns are fair and its credit is bounded for any number  *)
(* of channels and any weights, whoever is admitted when; and a session    *)
(* stays with its channel for any number of sessions and channels, any     *)
(* capacity, lifetime and size of the batches in which expired ones go.    *)
(***************************************************************************)
EXTENDS GroupProbe, LoadBalancer, FiniteSetTheorems, WellFoundedInduction, SequenceTheorems, TLAPS

-----------------------------------------------------------------------------
(* The accounts of a probe *)


Handed == {"transport_failure", "http_4xx_config", "empty"}

\* Where the failures of an attempt stand: a failure handed off is owed until
\* the stream is closed, all others are settled.
Accounted(a) ==
  /\ a.unblamed >= 0
  /\ a.charged => a.blamed
  /\ IF a.stage = "closing" /\ a.next \in Handed
     THEN a.unblamed >= 1 ELSE a.unblamed > 0 => a.blamed

AttemptOK(p, a) ==
  /\ a \in Attempt
  /\ a.stage \in {"reading", "closing"} => a.left \in 1..Endpoints[p[2]]
  /\ Accounted(a)

StreamsOK ==
  /\ stream \in [Pairs -> Attempt]
  /\ \A p \in Pairs : AttemptOK(p, stream[p])

RowsOK == row \in [Pairs -> Row]

IInv == StreamsOK /\ RowsOK

-----------------------------------------------------------------------------
(* Rows *)

LEMMA UpToTyped ==
  ASSUME NEW n \in Nat, NEW limit \in Nat
  PROVE  UpTo(n, limit) \in 0..limit
  BY DEF UpTo

LEMMA HitTyped ==
  ASSUME NEW r \in Row, NEW kind
  PROVE  Hit(r, kind) \in Row
  <1>1. r.consec + 1 \in Nat /\ MaxConsec \in Nat /\ r.age \in 0..Cap /\ 0 \in 0..Cap
    BY StreamAttemptAssumption DEF Row
  <1>2. UpTo(r.consec + 1, MaxConsec) \in 0..MaxConsec
    BY <1>1, UpToTyped
  <1>3. (r.permanent \/ kind = "http_4xx_config") \in BOOLEAN
    OBVIOUS
  <1> QED
    BY <1>1, <1>2, <1>3 DEF Hit, Row

LEMMA CleanTyped == Clean \in Row
  BY StreamAttemptAssumption DEF Clean, Row

LEMMA RecordSuccessTyped ==
  ASSUME RowsOK, NEW p \in Pairs, RecordSuccess(p)
  PROVE  RowsOK'
  BY CleanTyped DEF RowsOK, RecordSuccess

LEMMA RecordFailureTyped ==
  ASSUME RowsOK, NEW p \in Pairs, NEW kind, RecordFailure(p, kind)
  PROVE  RowsOK'
  <1>1. Hit(row[p], kind) \in Row
    BY HitTyped DEF RowsOK
  <1> QED
    BY <1>1 DEF RowsOK, RecordFailure

LEMMA ClearPermanentTyped ==
  ASSUME RowsOK, NEW c \in Channels, ClearPermanent(c)
  PROVE  RowsOK'
  <1>1. ASSUME NEW p \in Pairs
        PROVE  [row[p] EXCEPT !.permanent = FALSE] \in Row
    BY DEF RowsOK, Row
  <1> QED
    BY <1>1 DEF RowsOK, ClearPermanent

LEMMA TimePassesTyped ==
  ASSUME RowsOK, TimePasses
  PROVE  RowsOK'
  <1>1. ASSUME NEW p \in Pairs
        PROVE  Older(row[p]) \in Row
    <2>1. row[p] \in Row
      BY DEF RowsOK
    <2>2. row[p].age + 1 \in Nat /\ Cap \in Nat
      BY <2>1, StreamAttemptAssumption DEF Row
    <2>3. UpTo(row[p].age + 1, Cap) \in 0..Cap
      BY <2>2, UpToTyped
    <2> QED
      BY <2>1, <2>3 DEF Older, Row
  <1> QED
    BY <1>1 DEF RowsOK, TimePasses

-----------------------------------------------------------------------------
(* Attempts *)

LEMMA BecomesOK ==
  ASSUME StreamsOK, NEW p \in Pairs, NEW a, AttemptOK(p, a), Becomes(p, a)
  PROVE  StreamsOK'
  <1>1. a \in Attempt
    BY DEF AttemptOK
  <1>2. stream' = [stream EXCEPT ![p] = a]
    BY DEF Becomes
  <1>3. stream' \in [Pairs -> Attempt]
    BY <1>1, <1>2 DEF StreamsOK
  <1>4. ASSUME NEW q \in Pairs
        PROVE  AttemptOK(q, stream'[q])
    <2>1. CASE q = p
      BY <1>2, <2>1 DEF StreamsOK
    <2>2. CASE q # p
      <3>1. stream'[q] = stream[q]
        BY <1>2, <2>2 DEF StreamsOK
      <3> QED
        BY <3>1 DEF StreamsOK
    <2> QED
      BY <2>1, <2>2
  <1>5. ASSUME NEW q \in Pairs
        PROVE  AttemptOK(q, stream[q])'
    BY <1>4 DEF AttemptOK, Accounted
  <1> QED
    BY <1>3, <1>5 DEF StreamsOK

LEMMA FaultedTyped ==
  ASSUME NEW a \in Attempt
  PROVE  /\ Faulted(a) \in Attempt /\ Faulted(a).unblamed = a.unblamed + 1
         /\ a.unblamed \in Int
         /\ Faulted(a).stage = a.stage /\ Faulted(a).left = a.left
         /\ Faulted(a).charged = a.charged /\ Faulted(a).blamed = a.blamed
  BY DEF Faulted, Attempt

LEMMA BlamedTyped ==
  ASSUME NEW a \in Attempt
  PROVE  /\ Blamed(a) \in Attempt /\ Blamed(a).unblamed = a.unblamed - 1
         /\ a.unblamed \in Int
         /\ Blamed(a).stage = a.stage /\ Blamed(a).left = a.left
         /\ Blamed(a).blamed = TRUE
  <1>1. a.unblamed \in Int /\ a.unblamed - 1 \in Int
    BY DEF Attempt
  <1> DEFINE n == a.unblamed - 1
             b == [a EXCEPT !.unblamed = n, !.blamed = TRUE]
  <1> HIDE DEF n
  <1>2. n \in Int
    BY <1>1 DEF n
  <1>3. b \in Attempt
    BY <1>2 DEF Attempt
  <1>4. b.unblamed = n /\ b.stage = a.stage /\ b.left = a.left
    BY DEF Attempt
  <1>5. b.blamed = TRUE
    BY DEF Attempt
  <1>6. Blamed(a) = b
    BY DEF Blamed, n
  <1> QED
    BY <1>1, <1>3, <1>4, <1>5, <1>6 DEF n

LEMMA SettledAtOnce ==
  ASSUME NEW a \in Attempt
  PROVE  /\ Blamed(Faulted(a)) \in Attempt /\ Blamed(Faulted(a)).blamed = TRUE
         /\ Blamed(Faulted(a)).unblamed = a.unblamed
         /\ Blamed(Faulted(a)).left = a.left
  <1> DEFINE f == Faulted(a)
  <1>1. f \in Attempt /\ f.unblamed = a.unblamed + 1 /\ f.left = a.left /\ a.unblamed \in Int
    BY FaultedTyped
  <1>2. f.unblamed - 1 = a.unblamed
    BY <1>1
  <1> HIDE DEF f
  <1>3. /\ Blamed(f) \in Attempt /\ Blamed(f).blamed = TRUE
        /\ Blamed(f).unblamed = f.unblamed - 1 /\ Blamed(f).left = f.left
    BY <1>1, BlamedTyped
  <1> QED
    BY <1>1, <1>2, <1>3 DEF f

\* A stream may be closed with all failures settled, or with one handed off.
LEMMA ClosingOK ==
  ASSUME NEW p \in Pairs, NEW a \in Attempt, a.left \in 1..Endpoints[p[2]],
         NEW next \in {"end", "limited", "other", "incompatible"} \cup Handed,
         a.unblamed >= 0, a.charged => a.blamed,
         next \in Handed => a.unblamed >= 1,
         next \notin Handed => (a.unblamed > 0 => a.blamed)
  PROVE  AttemptOK(p, Closing(a, next))
  <1> DEFINE b == Closing(a, next)
  <1>1. b \in Attempt
    BY ZenonT(60) DEF Closing, Attempt, Handed
  <1>2. b.stage = "closing" /\ b.left = a.left /\ b.next = next
    BY DEF Closing, Attempt
  <1>3. b.unblamed = a.unblamed
    BY DEF Closing, Attempt
  <1>4. b.charged = a.charged
    BY DEF Closing, Attempt
  <1>5. b.blamed = a.blamed
    BY DEF Closing, Attempt
  <1> HIDE DEF b
  <1>6. Accounted(b)
    BY <1>2, <1>3, <1>4, <1>5 DEF Accounted
  <1>7. AttemptOK(p, b)
    BY <1>1, <1>2, <1>6 DEF AttemptOK
  <1> QED
    BY <1>7 DEF b

LEMMA NoAttemptOK ==
  ASSUME NEW p \in Pairs
  PROVE  AttemptOK(p, NoAttempt)
  BY DEF AttemptOK, NoAttempt, Attempt, Accounted, Handed

\* An attempt may end with all its failures settled.
LEMMA OverOK ==
  ASSUME NEW p \in Pairs, NEW a \in Attempt, a.unblamed >= 0, a.unblamed > 0 => a.blamed,
         NEW result \in {"success", "failure", "timeout", "skipped"}
  PROVE  AttemptOK(p, Over(a, result))
  BY ZenonT(80) DEF AttemptOK, Over, Attempt, Accounted, Handed

\* Facts about an attempt in flight.
LEMMA InFlightFacts ==
  ASSUME StreamsOK, NEW p \in Pairs
  PROVE  /\ stream[p] \in Attempt /\ Accounted(stream[p])
         /\ stream[p].unblamed \in Int
         /\ stream[p].stage \in {"reading", "closing"} =>
              stream[p].left \in 1..Endpoints[p[2]]
         /\ Endpoints[p[2]] \in Nat
  BY StreamAttemptAssumption DEF StreamsOK, AttemptOK, Attempt, Pairs

LEMMA StartOK ==
  ASSUME StreamsOK, NEW p \in Pairs, Start(p)
  PROVE  StreamsOK'
  <1>1. Endpoints[p[2]] \in Nat
    BY InFlightFacts
  <1>2. NoAttempt \in Attempt /\ NoAttempt.unblamed = 0
    BY DEF NoAttempt, Attempt
  <1>3. AttemptOK(p, Over(NoAttempt, "failure"))
    BY <1>2, OverOK
  <1>4. ASSUME Endpoints[p[2]] # 0
        PROVE  AttemptOK(p, [NoAttempt EXCEPT !.stage = "reading", !.left = Endpoints[p[2]]])
    <2> DEFINE n == Endpoints[p[2]]
               b == [NoAttempt EXCEPT !.stage = "reading", !.left = n]
    <2>1. n \in Nat /\ n \in 1..n
      BY <1>1, <1>4
    <2> HIDE DEF n
    <2>2. b \in Attempt
      BY <1>2, <2>1 DEF Attempt
    <2>3. b.stage = "reading" /\ b.left = n /\ b.unblamed = 0
      BY DEF NoAttempt
    <2>4. b.charged = FALSE
      BY DEF NoAttempt
    <2> HIDE DEF b
    <2>5. Accounted(b)
      BY <2>3, <2>4 DEF Accounted
    <2>6. AttemptOK(p, b)
      BY <2>1, <2>2, <2>3, <2>5 DEF AttemptOK, n
    <2> QED
      BY <2>6 DEF b, n
  <1> QED
    BY <1>3, <1>4, BecomesOK DEF Start

\* What the upstream sends, or fails to send, is accounted for.
LEMMA UpstreamOK ==
  ASSUME StreamsOK, RowsOK, NEW p \in Pairs, UpstreamActs(p)
  PROVE  StreamsOK' /\ RowsOK'
  <1> DEFINE a == stream[p]
  <1>1. /\ a \in Attempt /\ Accounted(a) /\ a.unblamed \in Int /\ Reading(p)
        /\ a.left \in 1..Endpoints[p[2]] /\ Endpoints[p[2]] \in Nat
    BY InFlightFacts DEF UpstreamActs, Heartbeat, Output, Mismatch, Break, Complete,
         EndEmpty, HandOff, Reading
  <1>2. a.unblamed >= 0 /\ (a.unblamed > 0 => a.blamed) /\ (a.charged => a.blamed)
    BY <1>1 DEF Accounted, Reading
  <1>3. CASE Heartbeat(p)
    <2>1. AttemptOK(p, [a EXCEPT !.sent = "heartbeat"])
      BY <1>1, <1>2 DEF AttemptOK, Attempt, Accounted, Reading
    <2> QED
      BY <1>3, <2>1, BecomesOK DEF Heartbeat, RowsOK
  <1>4. CASE Output(p)
    <2>1. AttemptOK(p, [a EXCEPT !.sent = "output"])
      BY <1>1, <1>2 DEF AttemptOK, Attempt, Accounted, Reading
    <2> QED
      BY <1>4, <2>1, BecomesOK DEF Output, RowsOK
  <1>5. CASE Mismatch(p)
    <2>1. ASSUME NEW next \in {"incompatible", "end"}
          PROVE  AttemptOK(p, Closing(a, next))
      BY <1>1, <1>2, ClosingOK DEF Handed
    <2> QED
      BY <1>5, <2>1, BecomesOK DEF Mismatch, RowsOK
  <1>6. CASE Break(p)
    <2> DEFINE b == Blamed(Faulted(a))
    <2>1. /\ b \in Attempt /\ b.unblamed = a.unblamed /\ b.left = a.left /\ b.blamed = TRUE
      BY <1>1, SettledAtOnce
    <2>2. AttemptOK(p, Closing(b, "end"))
      <3> HIDE DEF b
      <3> QED
        BY <1>1, <1>2, <2>1, ClosingOK DEF Handed
    <2> QED
      BY <1>6, <2>2, BecomesOK, RecordFailureTyped DEF Break
  <1>7. CASE Complete(p)
    <2>1. AttemptOK(p, Closing(a, "end"))
      BY <1>1, <1>2, ClosingOK DEF Handed
    <2> QED
      BY <1>7, <2>1, BecomesOK, RecordSuccessTyped DEF Complete
  <1>8. CASE EndEmpty(p)
    <2> DEFINE f == Faulted(a)
    <2>1. /\ f \in Attempt /\ f.unblamed = a.unblamed + 1 /\ f.left = a.left
          /\ (f.charged = a.charged) /\ (f.blamed = a.blamed)
      BY <1>1, FaultedTyped
    <2> HIDE DEF f
    <2>2. AttemptOK(p, Closing(f, "empty"))
      <3>1. f.unblamed >= 1 /\ f.unblamed >= 0
        BY <1>1, <1>2, <2>1
      <3> QED
        BY <1>1, <1>2, <2>1, <3>1, ClosingOK DEF Handed
    <2> QED
      BY <1>8, <2>2, BecomesOK, RecordSuccessTyped DEF EndEmpty, f
  <1>9. ASSUME NEW kind \in {"transport_failure", "http_4xx_config"}, HandOff(p, kind)
        PROVE  StreamsOK' /\ RowsOK'
    <2> DEFINE b == Faulted(a)
    <2>1. /\ b \in Attempt /\ b.unblamed = a.unblamed + 1 /\ b.left = a.left
          /\ (b.charged = a.charged) /\ (b.blamed = a.blamed)
      BY <1>1, FaultedTyped
    <2>2. AttemptOK(p, Closing(b, kind))
      <3>1. b.unblamed >= 1 /\ b.unblamed >= 0
        BY <1>1, <1>2, <2>1
      <3> HIDE DEF b
      <3> QED
        BY <1>1, <1>2, <2>1, <3>1, ClosingOK DEF Handed
    <2> QED
      BY <1>9, <2>2, BecomesOK DEF HandOff, RowsOK
  <1> QED
    BY <1>3, <1>4, <1>5, <1>6, <1>7, <1>8, <1>9 DEF UpstreamActs

LEMMA TurnedAwayOK ==
  ASSUME StreamsOK, NEW p \in Pairs, NEW next \in {"limited", "other"}, TurnedAway(p, next)
  PROVE  StreamsOK'
  <1>1. /\ stream[p] \in Attempt /\ Accounted(stream[p]) /\ stream[p].unblamed \in Int
        /\ stream[p].left \in 1..Endpoints[p[2]]
    BY InFlightFacts DEF TurnedAway, Reading
  <1>2. /\ stream[p].unblamed >= 0 /\ (stream[p].unblamed > 0 => stream[p].blamed)
        /\ (stream[p].charged => stream[p].blamed)
    BY <1>1 DEF Accounted, TurnedAway, Reading
  <1>3. AttemptOK(p, Closing(stream[p], next))
    BY <1>1, <1>2, ClosingOK DEF Handed
  <1> QED
    BY <1>3, BecomesOK DEF TurnedAway

\* With its failures settled the attempt goes on to the next endpoint or ends.
LEMMA NextEndpointOK ==
  ASSUME NEW p \in Pairs, NEW a \in Attempt, a.unblamed >= 0, a.unblamed > 0 => a.blamed,
         a.charged => a.blamed, a.left \in 1..Endpoints[p[2]], Endpoints[p[2]] \in Nat
  PROVE  AttemptOK(p, NextEndpoint(a))
  <1>1. CASE a.left = 1
    <2>1. AttemptOK(p, Over(a, "failure"))
      BY OverOK
    <2> QED
      BY <1>1, <2>1 DEF NextEndpoint
  <1>2. CASE a.left # 1
    <2>1. a.left - 1 \in Nat /\ a.left - 1 \in 1..Endpoints[p[2]]
      BY <1>2
    <2> DEFINE b == [a EXCEPT !.stage = "reading", !.left = a.left - 1,
                              !.sent = "nothing", !.next = "none"]
    <2>2. b \in Attempt
      BY <2>1, ZenonT(60) DEF Attempt
    <2>3. /\ b.stage = "reading" /\ b.left = a.left - 1 /\ b.unblamed = a.unblamed
          /\ b.blamed = a.blamed /\ b.charged = a.charged
      BY DEF Attempt
    <2>4. AttemptOK(p, b)
      BY <2>1, <2>2, <2>3 DEF AttemptOK, Accounted
    <2> QED
      BY <1>2, <2>4 DEF NextEndpoint
  <1> QED
    BY <1>1, <1>2

LEMMA ClosedOK ==
  ASSUME StreamsOK, RowsOK, NEW p \in Pairs, Closed(p)
  PROVE  StreamsOK' /\ RowsOK'
  <1> DEFINE a == stream[p]
  <1>1. /\ a \in Attempt /\ Accounted(a) /\ a.unblamed \in Int /\ a.stage = "closing"
        /\ a.left \in 1..Endpoints[p[2]] /\ Endpoints[p[2]] \in Nat
    BY InFlightFacts DEF Closed
  <1>2. a.unblamed >= 0 /\ (a.charged => a.blamed)
    BY <1>1 DEF Accounted
  <1>3. CASE a.next \notin Handed
    <2>1. a.unblamed > 0 => a.blamed
      BY <1>1, <1>3 DEF Accounted
    <2>2. AttemptOK(p, Over(a, "success")) /\ AttemptOK(p, Over(a, "failure"))
      BY <1>1, <1>2, <2>1, OverOK
    <2>3. AttemptOK(p, NextEndpoint(a))
      BY <1>1, <1>2, <2>1, NextEndpointOK
    <2>4. /\ UNCHANGED row
          /\ \/ Becomes(p, Over(a, "success")) \/ Becomes(p, Over(a, "failure"))
             \/ Becomes(p, NextEndpoint(a))
      BY <1>3 DEF Closed, Handed
    <2> QED
      BY <2>2, <2>3, <2>4, BecomesOK DEF RowsOK
  <1>4. CASE a.next \in Handed /\ a.charged
    <2>1. AttemptOK(p, NextEndpoint(a))
      BY <1>1, <1>2, <1>4, NextEndpointOK
    <2>2. Becomes(p, NextEndpoint(a)) /\ UNCHANGED row
      BY <1>4 DEF Closed, Handed
    <2> QED
      BY <2>1, <2>2, BecomesOK DEF RowsOK
  <1>5. CASE a.next \in Handed /\ ~a.charged
    <2> DEFINE b == Blamed([a EXCEPT !.charged = TRUE])
    <2>1. a.unblamed >= 1
      BY <1>1, <1>5 DEF Accounted
    <2>2. /\ b \in Attempt /\ b.unblamed = a.unblamed - 1 /\ b.blamed = TRUE /\ b.left = a.left
      <3> DEFINE d == [a EXCEPT !.charged = TRUE]
      <3>1. d \in Attempt /\ d.unblamed = a.unblamed /\ d.left = a.left
        BY <1>1 DEF Attempt
      <3> HIDE DEF d
      <3>2. Blamed(d) \in Attempt /\ Blamed(d).unblamed = a.unblamed - 1
            /\ Blamed(d).blamed = TRUE /\ Blamed(d).left = a.left
        BY <3>1, BlamedTyped, ZenonT(60)
      <3> QED
        BY <3>2 DEF d
    <2>3. AttemptOK(p, NextEndpoint(b))
      <3>1. b.unblamed >= 0
        BY <1>1, <2>1, <2>2
      <3> HIDE DEF b
      <3> QED
        BY <1>1, <2>2, <3>1, NextEndpointOK
    <2>4. PICK kind : Becomes(p, NextEndpoint(b)) /\ RecordFailure(p, kind)
      BY <1>5 DEF Closed, Handed
    <2> QED
      BY <2>3, <2>4, BecomesOK, RecordFailureTyped
  <1> QED
    BY <1>3, <1>4, <1>5

LEMMA TimeoutOK ==
  ASSUME StreamsOK, RowsOK, NEW p \in Pairs, Timeout(p)
  PROVE  StreamsOK' /\ RowsOK'
  <1> DEFINE b == Blamed(Faulted(stream[p]))
  <1>1. stream[p] \in Attempt /\ stream[p].unblamed \in Int /\ stream[p].unblamed >= 0
    BY InFlightFacts DEF Accounted
  <1>2. b \in Attempt /\ b.unblamed = stream[p].unblamed /\ b.blamed = TRUE
    BY <1>1, SettledAtOnce
  <1>3. AttemptOK(p, Over(b, "timeout"))
    <2> HIDE DEF b
    <2> QED
      BY <1>1, <1>2, OverOK
  <1> QED
    BY <1>3, BecomesOK, RecordFailureTyped DEF Timeout

-----------------------------------------------------------------------------
(* The loop *)

LEMMA InitOK == Init => IInv
  <1> SUFFICES ASSUME Init PROVE IInv
    OBVIOUS
  <1>1. StreamsOK
    BY NoAttemptOK DEF Init, StreamsOK, AttemptOK
  <1>2. RowsOK
    BY CleanTyped DEF Init, RowsOK
  <1> QED
    BY <1>1, <1>2 DEF IInv

LEMMA EndRoundOK ==
  ASSUME IInv, EndRound
  PROVE  IInv'
  <1>1. stream' = [p \in Pairs |-> NoAttempt] /\ row' = row
    BY DEF EndRound
  <1>2. ASSUME NEW p \in Pairs
        PROVE  NoAttempt \in Attempt /\ AttemptOK(p, NoAttempt)
    BY NoAttemptOK DEF AttemptOK
  <1>3. stream' \in [Pairs -> Attempt]
    BY <1>1, <1>2
  <1>4. ASSUME NEW p \in Pairs
        PROVE  AttemptOK(p, stream[p])'
    BY <1>1, <1>2 DEF AttemptOK, Accounted
  <1> QED
    BY <1>1, <1>3, <1>4 DEF IInv, StreamsOK, RowsOK

LEMMA BeginOK ==
  ASSUME IInv, NEW p \in Pairs, Begin(p)
  PROVE  IInv'
  <1>1. CASE Start(p)
    BY <1>1, StartOK DEF IInv, RowsOK, Start
  <1>2. ASSUME NEW result \in {"skipped", "failure"}, Becomes(p, Over(NoAttempt, result)),
               UNCHANGED row
        PROVE  IInv'
    <2>1. NoAttempt \in Attempt /\ NoAttempt.unblamed = 0
      BY DEF NoAttempt, Attempt
    <2>2. AttemptOK(p, Over(NoAttempt, result))
      BY <2>1, OverOK
    <2> QED
      BY <1>2, <2>2, BecomesOK DEF IInv, RowsOK
  <1> QED
    BY <1>1, <1>2, SMTT(30) DEF Begin

LEMMA LimitedOK ==
  ASSUME IInv, NEW p \in Pairs, Limited(p)
  PROVE  IInv'
  <1>1. PICK next \in {"limited", "other"} : TurnedAway(p, next)
    BY DEF Limited
  <1> QED
    BY <1>1, TurnedAwayOK DEF IInv, RowsOK, TurnedAway

LEMMA StreamsUnchanged ==
  ASSUME StreamsOK, UNCHANGED stream
  PROVE  StreamsOK'
  BY DEF StreamsOK, AttemptOK, Accounted

LEMMA ElsewhereOK ==
  ASSUME IInv, Elsewhere
  PROVE  IInv'
  <1>1. StreamsOK'
    BY StreamsUnchanged DEF IInv, Elsewhere
  <1>2. RowsOK'
    <2>1. ASSUME NEW p \in Pairs, ClearPermanent(p[2])
          PROVE  RowsOK'
      <3>1. p[2] \in Channels
        BY DEF Pairs
      <3> QED
        BY <2>1, <3>1, ClearPermanentTyped DEF IInv
    <2>2. CASE UNCHANGED row
      BY <2>2 DEF IInv, RowsOK
    <2> QED
      BY <2>1, <2>2, RecordSuccessTyped, RecordFailureTyped DEF IInv, Elsewhere
  <1> QED
    BY <1>1, <1>2 DEF IInv

LEMMA NextOK ==
  ASSUME IInv, [Next]_vars
  PROVE  IInv'
  <1>1. CASE StartRound
    BY <1>1, StreamsUnchanged DEF StartRound, IInv, RowsOK
  <1>2. CASE Tick
    BY <1>2, StreamsUnchanged, TimePassesTyped DEF Tick, IInv
  <1>3. ASSUME NEW p \in Pairs, Probe(p)
        PROVE  IInv'
    BY <1>3, UpstreamOK, ClosedOK, TimeoutOK DEF Probe, IInv
  <1>4. CASE UNCHANGED vars
    BY <1>4, StreamsUnchanged DEF vars, IInv, RowsOK
  <1> QED
    BY <1>1, <1>2, <1>3, <1>4, EndRoundOK, ElsewhereOK, BeginOK, LimitedOK DEF Next

\* An attempt never records more failures than it met, and one that met any has
\* recorded one by its end, however the endpoints fail and wherever the time
\* limit strikes (channel_attempt.py, _AttemptAccounting).
THEOREM ProbesAccounted == Spec => []FailuresBlamedOnce
  <1>1. IInv => FailuresBlamedOnce
    BY DEF IInv, StreamsOK, AttemptOK, Accounted, FailuresBlamedOnce
  <1> QED
    BY <1>1, InitOK, NextOK, PTL DEF Spec

-----------------------------------------------------------------------------
(* Induction by a least counterexample *)

LEMMA LeastOf ==
  ASSUME NEW T \in SUBSET Nat, T # {}
  PROVE  \E x \in T : \A y \in T : x <= y
  <1>1. PICK x \in T : \A y \in T : ~(<<y, x>> \in OpToRel(<, Nat))
    BY NatLessThanWellFounded, WFMin, Zenon
  <1>2. \A y \in T : ~(y < x)
    BY <1>1 DEF OpToRel
  <1> QED
    BY <1>2

LEMMA SmallestOf ==
  ASSUME NEW S, IsFiniteSet(S), NEW Bad \in SUBSET SUBSET S, Bad # {}
  PROVE  \E A \in Bad : \A B \in Bad : B \subseteq A => B = A
  <1>1. IsWellFoundedOn(StrictSubsetOrdering(S), SUBSET S)
    BY FS_StrictSubsetOrderingWellFounded, FS_FiniteSubsetsOfFinite, Zenon
  <1>2. PICK A \in Bad : \A B \in Bad : ~(<<B, A>> \in StrictSubsetOrdering(S))
    BY <1>1, WFMin, Zenon
  <1> QED
    BY <1>2 DEF StrictSubsetOrdering

-----------------------------------------------------------------------------
(* Sums *)

Pick(s) == CHOOSE x \in s : TRUE

Rest(s) == s \ {Pick(s)}

\* g tells the sum of f over each of the sets, which are closed under Rest.
Sums(g, f, sets) ==
  g = [s \in sets |-> IF s = {} THEN 0 ELSE f[Pick(s)] + g[Rest(s)]]

LEMMA RestOf ==
  ASSUME NEW s, s # {}
  PROVE  Pick(s) \in s /\ Rest(s) \subseteq s /\ Rest(s) # s
  BY DEF Pick, Rest

UpToSize(S, n) == {s \in SUBSET S : Cardinality(s) <= n}

LEMMA SumsExist ==
  ASSUME NEW f, NEW S, IsFiniteSet(S)
  PROVE  \E g : Sums(g, f, SUBSET S)
  <1> DEFINE Bad == {n \in Nat : ~\E g : Sums(g, f, UpToSize(S, n))}
  <1>1. ASSUME NEW s \in SUBSET S
        PROVE  /\ Cardinality(s) \in Nat
               /\ s # {} => Rest(s) \in SUBSET S /\ Cardinality(Rest(s)) = Cardinality(s) - 1
    <2>1. IsFiniteSet(s)
      BY FS_Subset
    <2> QED
      BY <2>1, FS_CardinalityType, FS_RemoveElement, RestOf DEF Rest
  <1>2. Bad = {}
    <2> SUFFICES ASSUME Bad # {} PROVE FALSE
      OBVIOUS
    <2>1. PICK n \in Bad : \A k \in Bad : n <= k
      BY LeastOf
    <2>2. n \in Nat
      OBVIOUS
    <2>3. CASE n = 0
      <3> DEFINE g == [s \in UpToSize(S, 0) |-> 0]
      <3>1. \A s \in UpToSize(S, 0) : s = {}
        <4>1. \A s \in SUBSET S : IsFiniteSet(s)
          BY FS_Subset
        <4> QED
          BY <1>1, <4>1, FS_EmptySet DEF UpToSize
      <3>2. Sums(g, f, UpToSize(S, 0))
        BY <3>1 DEF Sums
      <3> QED
        BY <2>3, <3>2
    <2>4. CASE n # 0
      <3>1. n - 1 \in Nat /\ n - 1 \notin Bad
        BY <2>1, <2>2, <2>4
      <3>2. PICK g : Sums(g, f, UpToSize(S, n - 1))
        BY <3>1
      <3> DEFINE h == [s \in UpToSize(S, n) |-> IF s = {} THEN 0 ELSE f[Pick(s)] + g[Rest(s)]]
      <3>3. \A s \in UpToSize(S, n) : s # {} => Rest(s) \in UpToSize(S, n - 1)
        BY <1>1, <2>2 DEF UpToSize
      <3>4. \A s \in UpToSize(S, n - 1) : s \in UpToSize(S, n) /\ h[s] = g[s]
        <4>1. \A s \in UpToSize(S, n - 1) : s \in UpToSize(S, n)
          BY <1>1, <2>2 DEF UpToSize
        <4>2. \A s \in UpToSize(S, n - 1) : g[s] = IF s = {} THEN 0 ELSE f[Pick(s)] + g[Rest(s)]
          BY <3>2 DEF Sums
        <4> QED
          BY <4>1, <4>2
      <3>5. Sums(h, f, UpToSize(S, n))
        BY <3>3, <3>4 DEF Sums
      <3> QED
        BY <3>5
    <2> QED
      BY <2>3, <2>4
  <1>3. Cardinality(S) \in Nat /\ UpToSize(S, Cardinality(S)) = SUBSET S
    BY FS_CardinalityType, FS_Subset DEF UpToSize
  <1>4. Cardinality(S) \notin Bad
    BY <1>2
  <1> QED
    BY <1>3, <1>4

LEMMA SumsAgree ==
  ASSUME NEW f, NEW g, NEW h, NEW S, NEW T, IsFiniteSet(S), T \subseteq S,
         Sums(g, f, SUBSET S), Sums(h, f, SUBSET T)
  PROVE  g[T] = h[T]
  <1> DEFINE Bad == {s \in SUBSET T : g[s] # h[s]}
  <1> SUFFICES ASSUME Bad # {} PROVE FALSE
    OBVIOUS
  <1>1. IsFiniteSet(T) /\ Bad \in SUBSET SUBSET T
    BY FS_Subset
  <1>2. PICK s \in Bad : \A B \in Bad : B \subseteq s => B = s
    <2> HIDE DEF Bad
    <2> QED
      BY <1>1, SmallestOf
  <1>3. /\ g[s] = IF s = {} THEN 0 ELSE f[Pick(s)] + g[Rest(s)]
        /\ h[s] = IF s = {} THEN 0 ELSE f[Pick(s)] + h[Rest(s)]
    BY DEF Sums
  <1>4. s # {} /\ Rest(s) \in SUBSET T /\ Rest(s) \subseteq s /\ Rest(s) # s
    BY <1>3, RestOf
  <1>5. g[Rest(s)] = h[Rest(s)]
    BY <1>2, <1>4
  <1> QED
    BY <1>3, <1>4, <1>5

LEMMA SumIs ==
  ASSUME NEW f, NEW S, IsFiniteSet(S)
  PROVE  \E g : Sums(g, f, SUBSET S) /\ SumOf(f, S) = g[S]
  <1> DEFINE iter == CHOOSE g : Sums(g, f, SUBSET S)
  <1>1. Sums(iter, f, SUBSET S)
    BY SumsExist
  <1>2. SumOf(f, S) = iter[S]
    BY DEF SumOf, MapThenSumSet, MapThenFoldSet, Sums, Pick, Rest
  <1> QED
    BY <1>1, <1>2

LEMMA SumOfRest ==
  ASSUME NEW f, NEW S, IsFiniteSet(S)
  PROVE  SumOf(f, S) = IF S = {} THEN 0 ELSE f[Pick(S)] + SumOf(f, Rest(S))
  <1>1. PICK g : Sums(g, f, SUBSET S) /\ SumOf(f, S) = g[S]
    BY SumIs
  <1>2. SumOf(f, S) = IF S = {} THEN 0 ELSE f[Pick(S)] + g[Rest(S)]
    BY <1>1 DEF Sums
  <1>3. Rest(S) \subseteq S /\ IsFiniteSet(Rest(S))
    BY FS_Subset DEF Rest
  <1>4. PICK h : Sums(h, f, SUBSET Rest(S)) /\ SumOf(f, Rest(S)) = h[Rest(S)]
    BY <1>3, SumIs
  <1>5. g[Rest(S)] = SumOf(f, Rest(S))
    BY <1>1, <1>3, <1>4, SumsAgree, SMTT(30)
  <1> QED
    BY <1>2, <1>5

LEMMA SumRemoves ==
  ASSUME NEW f, NEW S, IsFiniteSet(S), \A x \in S : f[x] \in Int
  PROVE  /\ SumOf(f, S) \in Int
         /\ \A x \in S : SumOf(f, S) = f[x] + SumOf(f, S \ {x})
  <1> DEFINE Good(s) == /\ SumOf(f, s) \in Int
                        /\ \A x \in s : SumOf(f, s) = f[x] + SumOf(f, s \ {x})
             Bad == {s \in SUBSET S : ~Good(s)}
  <1> SUFFICES ASSUME Bad # {} PROVE FALSE
    OBVIOUS
  <1>1. Bad \in SUBSET SUBSET S
    OBVIOUS
  <1>2. PICK s \in Bad : \A B \in Bad : B \subseteq s => B = s
    <2> HIDE DEF Bad
    <2> QED
      BY <1>1, SmallestOf
  <1>3. \A B \in SUBSET s : B # s => Good(B)
    BY <1>2
  <1>4. \A B \in SUBSET s : SumOf(f, B) = IF B = {} THEN 0 ELSE f[Pick(B)] + SumOf(f, Rest(B))
    BY FS_Subset, SumOfRest
  <1>5. s # {}
    BY <1>4
  <1> DEFINE p == Pick(s)
  <1>6. p \in s /\ Rest(s) = s \ {p} /\ f[p] \in Int
    BY <1>5, RestOf DEF Rest
  <1>7. SumOf(f, s) = f[p] + SumOf(f, s \ {p}) /\ Good(s \ {p})
    BY <1>3, <1>4, <1>5, <1>6
  <1> HIDE DEF p
  <1>8. ASSUME NEW x \in s PROVE SumOf(f, s) = f[x] + SumOf(f, s \ {x})
    <2>1. CASE x = p
      BY <2>1, <1>7
    <2>2. CASE x # p
      <3>1. Good(s \ {x}) /\ Good((s \ {p}) \ {x})
        BY <1>3, <1>6
      <3>2. (s \ {p}) \ {x} = (s \ {x}) \ {p}
        OBVIOUS
      <3>3. SumOf(f, s \ {p}) = f[x] + SumOf(f, (s \ {p}) \ {x})
        BY <2>2, <1>7
      <3>4. SumOf(f, s \ {x}) = f[p] + SumOf(f, (s \ {x}) \ {p})
        BY <2>2, <1>6, <3>1
      <3>5. SumOf(f, (s \ {p}) \ {x}) \in Int /\ f[x] \in Int
        BY <3>1
      <3>6. SumOf(f, s) = f[p] + SumOf(f, s \ {p}) /\ f[p] \in Int
        BY <1>6, <1>7
      <3> HIDE DEF Good
      <3>7. PICK z \in Int : z = SumOf(f, (s \ {p}) \ {x}) /\ z = SumOf(f, (s \ {x}) \ {p})
        BY <3>2, <3>5
      <3>8. SumOf(f, s \ {p}) = f[x] + z /\ SumOf(f, s \ {x}) = f[p] + z
        BY <3>3, <3>4, <3>7
      <3> QED
        BY <3>5, <3>6, <3>8
    <2> QED
      BY <2>1, <2>2
  <1>9. SumOf(f, s) \in Int
    BY <1>6, <1>7
  <1> QED
    BY <1>2, <1>8, <1>9

LEMMA SumOfNone ==
  ASSUME NEW f
  PROVE  SumOf(f, {}) = 0
  BY FS_EmptySet, SumOfRest

LEMMA SumAdds ==
  ASSUME NEW f, NEW S, NEW T, IsFiniteSet(S), IsFiniteSet(T), S \cap T = {},
         \A x \in S \cup T : f[x] \in Int
  PROVE  SumOf(f, S \cup T) = SumOf(f, S) + SumOf(f, T)
  <1> DEFINE Bad == {s \in SUBSET S : SumOf(f, s \cup T) # SumOf(f, s) + SumOf(f, T)}
  <1> SUFFICES ASSUME Bad # {} PROVE FALSE
    OBVIOUS
  <1>1. Bad \in SUBSET SUBSET S
    OBVIOUS
  <1>2. PICK s \in Bad : \A B \in Bad : B \subseteq s => B = s
    <2> HIDE DEF Bad
    <2> QED
      BY <1>1, SmallestOf
  <1>3. \A B \in SUBSET S : IsFiniteSet(B) /\ IsFiniteSet(B \cup T)
    BY FS_Subset, FS_Union
  <1>4. SumOf(f, T) \in Int
    BY SumRemoves
  <1>5. s # {}
    BY <1>4, SumOfNone, SMTT(30)
  <1>6. PICK x \in s : TRUE
    BY <1>5
  <1>7. SumOf(f, s) = f[x] + SumOf(f, s \ {x}) /\ SumOf(f, s \ {x}) \in Int
    <2>1. IsFiniteSet(s) /\ IsFiniteSet(s \ {x}) /\ \A y \in s : f[y] \in Int
      BY <1>3
    <2> QED
      BY <2>1, SumRemoves
  <1>8. SumOf(f, s \cup T) = f[x] + SumOf(f, (s \cup T) \ {x})
    BY <1>3, SumRemoves
  <1>9. (s \cup T) \ {x} = (s \ {x}) \cup T /\ s \ {x} \notin Bad /\ s \ {x} \in SUBSET S
    BY <1>2, <1>6
  <1>10. SumOf(f, (s \ {x}) \cup T) = SumOf(f, s \ {x}) + SumOf(f, T)
    BY <1>9
  <1>11. f[x] \in Int
    OBVIOUS
  <1> QED
    BY <1>2, <1>4, <1>7, <1>8, <1>9, <1>10, <1>11

\* The sum of a function that is the sum of two others.
LEMMA SumOfSums ==
  ASSUME NEW f, NEW g, NEW h, NEW S, IsFiniteSet(S),
         \A x \in S : f[x] \in Int /\ g[x] \in Int /\ h[x] = f[x] + g[x]
  PROVE  SumOf(h, S) = SumOf(f, S) + SumOf(g, S)
  <1> DEFINE Bad == {s \in SUBSET S : SumOf(h, s) # SumOf(f, s) + SumOf(g, s)}
  <1> SUFFICES ASSUME Bad # {} PROVE FALSE
    OBVIOUS
  <1>1. Bad \in SUBSET SUBSET S
    OBVIOUS
  <1>2. PICK s \in Bad : \A B \in Bad : B \subseteq s => B = s
    <2> HIDE DEF Bad
    <2> QED
      BY <1>1, SmallestOf
  <1>3. IsFiniteSet(s) /\ \A x \in s : f[x] \in Int /\ g[x] \in Int /\ h[x] \in Int
    BY FS_Subset
  <1>4. s # {}
    <2> SUFFICES ASSUME s = {} PROVE FALSE
      OBVIOUS
    <2>1. SumOf(f, {}) = 0 /\ SumOf(g, {}) = 0 /\ SumOf(h, {}) = 0
      BY SumOfNone
    <2>2. SumOf(h, {}) # SumOf(f, {}) + SumOf(g, {})
      OBVIOUS
    <2> QED
      BY <2>1, <2>2
  <1>5. PICK x \in s : TRUE
    BY <1>4
  <1>6. IsFiniteSet(s \ {x})
    BY <1>3, FS_Subset
  <1>7. /\ SumOf(f, s) = f[x] + SumOf(f, s \ {x}) /\ SumOf(f, s \ {x}) \in Int
        /\ SumOf(g, s) = g[x] + SumOf(g, s \ {x}) /\ SumOf(g, s \ {x}) \in Int
        /\ SumOf(h, s) = h[x] + SumOf(h, s \ {x})
    BY <1>3, <1>6, SumRemoves
  <1>8. SumOf(h, s \ {x}) = SumOf(f, s \ {x}) + SumOf(g, s \ {x})
    <2>1. s \ {x} \in SUBSET S /\ s \ {x} \notin Bad
      BY <1>2, <1>5
    <2> QED
      BY <2>1
  <1>9. h[x] = f[x] + g[x] /\ f[x] \in Int /\ g[x] \in Int
    OBVIOUS
  <1> QED
    BY <1>2, <1>7, <1>8, <1>9

LEMMA SumIsOfValues ==
  ASSUME NEW f, NEW g, NEW S, IsFiniteSet(S), \A x \in S : f[x] \in Int /\ g[x] = f[x]
  PROVE  SumOf(g, S) = SumOf(f, S)
  <1> DEFINE none == [x \in S |-> 0]
             Bad == {s \in SUBSET S : SumOf(none, s) # 0}
  <1>1. SumOf(g, S) = SumOf(f, S) + SumOf(none, S)
    BY SumOfSums
  <1>2. Bad \in SUBSET SUBSET S
    OBVIOUS
  <1>3. Bad = {}
    <2> SUFFICES ASSUME Bad # {} PROVE FALSE
      OBVIOUS
    <2>1. PICK s \in Bad : \A B \in Bad : B \subseteq s => B = s
      <3> HIDE DEF Bad
      <3> QED
        BY <1>2, SmallestOf
    <2>2. s # {}
      BY SumOfNone
    <2>3. PICK x \in s : TRUE
      BY <2>2
    <2>4. SumOf(none, s) = none[x] + SumOf(none, s \ {x})
      BY FS_Subset, SumRemoves
    <2>5. s \ {x} \in SUBSET S /\ s \ {x} \notin Bad /\ none[x] = 0
      BY <2>1, <2>3
    <2> QED
      BY <2>1, <2>4, <2>5
  <1>4. SumOf(none, S) = 0
    BY <1>3
  <1>5. SumOf(f, S) \in Int
    BY SumRemoves
  <1> QED
    BY <1>1, <1>4, <1>5

LEMMA Distributes ==
  ASSUME NEW b \in Int, NEW n \in Int
  PROVE  b * n \in Int /\ b * (n - 1) = b * n - b /\ b * (n + 1) = b * n + b
  OBVIOUS

\* A sum is no more than a bound of its terms as often as there are terms.
LEMMA SumAtMost ==
  ASSUME NEW f, NEW S, IsFiniteSet(S), NEW b \in Int, \A x \in S : f[x] \in Int /\ f[x] <= b
  PROVE  SumOf(f, S) <= b * Cardinality(S)
  <1> DEFINE Bad == {s \in SUBSET S : ~(SumOf(f, s) <= b * Cardinality(s))}
  <1> SUFFICES ASSUME Bad # {} PROVE FALSE
    OBVIOUS
  <1>1. Bad \in SUBSET SUBSET S
    OBVIOUS
  <1>2. PICK s \in Bad : \A B \in Bad : B \subseteq s => B = s
    <2> HIDE DEF Bad
    <2> QED
      BY <1>1, SmallestOf
  <1>3. IsFiniteSet(s) /\ Cardinality(s) \in Nat
    BY FS_Subset, FS_CardinalityType
  <1>4. s # {}
    BY SumOfNone, FS_EmptySet
  <1>5. PICK x \in s : TRUE
    BY <1>4
  <1>6. IsFiniteSet(s \ {x}) /\ Cardinality(s \ {x}) = Cardinality(s) - 1
    BY <1>3, FS_RemoveElement
  <1>7. SumOf(f, s) = f[x] + SumOf(f, s \ {x}) /\ SumOf(f, s \ {x}) \in Int
    BY <1>3, <1>6, SumRemoves
  <1>8. SumOf(f, s \ {x}) <= b * Cardinality(s \ {x})
    <2>1. s \ {x} \in SUBSET S /\ s \ {x} \notin Bad
      BY <1>2, <1>5
    <2> QED
      BY <2>1
  <1>9. SumOf(f, s \ {x}) <= b * Cardinality(s) - b /\ b * Cardinality(s) \in Int
    BY <1>3, <1>6, <1>8, Distributes
  <1>10. f[x] \in Int /\ f[x] <= b
    OBVIOUS
  <1>11. ~(SumOf(f, s) <= b * Cardinality(s))
    BY <1>2
  <1> QED
    BY <1>7, <1>9, <1>10, <1>11

LEMMA SumOfOne ==
  ASSUME NEW f, NEW x, f[x] \in Int
  PROVE  SumOf(f, {x}) = f[x]
  <1>1. IsFiniteSet({x}) /\ {x} \ {x} = {}
    BY FS_Singleton
  <1>2. SumOf(f, {x}) = f[x] + SumOf(f, {x} \ {x})
    BY <1>1, SumRemoves
  <1> QED
    BY <1>1, <1>2, SumOfNone

LEMMA SumOfNats ==
  ASSUME NEW f, NEW S, IsFiniteSet(S), \A x \in S : f[x] \in Nat
  PROVE  SumOf(f, S) \in Nat
  <1> DEFINE minus == [x \in S |-> -f[x]]
             none == [x \in S |-> 0]
  <1>1. /\ \A x \in S : f[x] \in Int /\ minus[x] \in Int /\ none[x] = f[x] + minus[x] /\ minus[x] <= 0
        /\ \A x \in S : none[x] \in Int /\ none[x] = none[x] + none[x]
    OBVIOUS
  <1> HIDE DEF minus, none
  <1>2. /\ SumOf(none, S) = SumOf(f, S) + SumOf(minus, S)
        /\ SumOf(none, S) = SumOf(none, S) + SumOf(none, S)
    BY <1>1, SumOfSums
  <1>3. SumOf(f, S) \in Int /\ SumOf(minus, S) \in Int /\ SumOf(none, S) \in Int
    BY <1>1, SumRemoves
  <1>4. SumOf(minus, S) <= 0 * Cardinality(S) /\ Cardinality(S) \in Nat
    <2>1. 0 \in Int /\ Cardinality(S) \in Nat
      BY FS_CardinalityType
    <2>2. SumOf(minus, S) <= 0 * Cardinality(S)
      BY <1>1, SumAtMost
    <2> QED
      BY <2>1, <2>2
  <1> QED
    BY <1>2, <1>3, <1>4

-----------------------------------------------------------------------------
(* The balancer: its constants, candidates and choices *)

BalancerTyped ==
  /\ scenario \in Scenarios
  /\ current \in [Catalog -> Int]
  /\ weight \in [Catalog -> Weights]
  /\ turns \in [Catalog -> Nat]
  /\ disturbed \in BOOLEAN /\ deleted \in BOOLEAN

LEMMA CatalogSets ==
  ASSUME NEW A \in SUBSET Catalog
  PROVE  /\ IsFiniteSet(A) /\ Cardinality(A) \in Nat /\ Cardinality(A) <= N
         /\ Cardinality(A) = N => A = Catalog
         /\ Cardinality(Catalog) = N /\ N \in Nat
  <1>1. N \in Nat /\ N >= 2
    BY LoadBalancerAssumption
  <1>2. IsFiniteSet(Catalog) /\ Cardinality(Catalog) = N
    BY <1>1, FS_Interval DEF Catalog
  <1> QED
    BY <1>1, <1>2, FS_Subset, FS_CardinalityType

LEMMA HeaviestIs ==
  ASSUME Weights # {}
  PROVE  Max(Weights) \in Weights /\ \A w \in Weights : w <= Max(Weights)
  <1> DEFINE Best(A) == \E x \in A : \A y \in A : x >= y
             Bad == {A \in SUBSET Weights : A # {} /\ ~Best(A)}
  <1>0. IsFiniteSet(Weights) /\ Bad \in SUBSET SUBSET Weights
    BY LoadBalancerAssumption
  <1>1. Weights \subseteq Nat \ {0}
    BY LoadBalancerAssumption
  <1>2. Bad = {}
    <2> SUFFICES ASSUME Bad # {} PROVE FALSE
      OBVIOUS
    <2>1. PICK A \in Bad : \A B \in Bad : B \subseteq A => B = A
      <3> HIDE DEF Bad
      <3> QED
        BY <1>0, SmallestOf
    <2>2. PICK x \in A : x \in Nat
      BY <1>1
    <2>3. A \ {x} = {} \/ Best(A \ {x})
      <3>1. A \ {x} \in SUBSET Weights /\ A \ {x} \subseteq A /\ A \ {x} # A
        OBVIOUS
      <3>2. A \ {x} \notin Bad
        BY <2>1, <3>1
      <3> QED
        BY <3>1, <3>2
    <2>4. Best(A)
      BY <1>1, <2>2, <2>3
    <2> QED
      BY <2>4
  <1>3. PICK x \in Weights : \A y \in Weights : x >= y
    <2>1. Weights \notin Bad
      BY <1>2
    <2> QED
      BY <2>1
  <1>4. Max(Weights) \in Weights /\ \A y \in Weights : Max(Weights) >= y
    BY <1>3 DEF Max
  <1> QED
    BY <1>1, <1>4

LEMMA TopOf ==
  ASSUME BalancerTyped, NEW admitted \in SUBSET Catalog
  PROVE  Top(admitted) \subseteq admitted /\ (admitted # {} => Top(admitted) # {})
  <1>1. scenario.priority \in [Catalog -> Nat]
    BY LoadBalancerAssumption DEF BalancerTyped
  <1>2. ASSUME admitted # {} PROVE Top(admitted) # {}
    <2> DEFINE P == {scenario.priority[c] : c \in admitted}
    <2>1. P \in SUBSET Nat /\ P # {}
      BY <1>1, <1>2
    <2>2. PICK x \in P : \A y \in P : x <= y
      <3> HIDE DEF P
      <3> QED
        BY <2>1, LeastOf
    <2>3. PICK c \in admitted : x = scenario.priority[c]
      OBVIOUS
    <2>4. c \in Top(admitted)
      BY <2>2, <2>3 DEF Top
    <2> QED
      BY <2>4
  <1> QED
    BY <1>2 DEF Top

LEMMA RaisedTyped ==
  ASSUME BalancerTyped, NEW members \in SUBSET Catalog
  PROVE  /\ Raised(members) \in [Catalog -> Int]
         /\ \A c \in Catalog : weight[c] \in Nat \ {0} /\ weight[c] \in Weights
  <1>1. \A c \in Catalog : weight[c] \in Nat \ {0} /\ weight[c] \in Weights /\ current[c] \in Int
    BY LoadBalancerAssumption DEF BalancerTyped
  <1>2. \A c \in Catalog : current[c] + weight[c] \in Int
    BY <1>1
  <1> QED
    BY <1>1, <1>2 DEF Raised

\* Some candidate has the greatest credit.
LEMMA FavouriteIs ==
  ASSUME BalancerTyped, NEW members \in SUBSET Catalog, members # {}
  PROVE  /\ Favourite(members) \in members
         /\ \A d \in members : Raised(members)[d] <= Raised(members)[Favourite(members)]
  <1> DEFINE raised == Raised(members)
             Before(c, d) == raised[c] > raised[d] \/ (raised[c] = raised[d] /\ c <= d)
             Best(A) == \E c \in A : \A d \in A : Before(c, d)
             Bad == {A \in SUBSET members : A # {} /\ ~Best(A)}
  <1>1. /\ \A c \in members : raised[c] \in Int /\ c \in Int
        /\ IsFiniteSet(members) /\ Bad \in SUBSET SUBSET members
    BY RaisedTyped, CatalogSets, LoadBalancerAssumption DEF Catalog
  <1>2. Bad = {}
    <2> SUFFICES ASSUME Bad # {} PROVE FALSE
      OBVIOUS
    <2>1. PICK A \in Bad : \A B \in Bad : B \subseteq A => B = A
      <3> HIDE DEF Bad
      <3> QED
        BY <1>1, SmallestOf
    <2>2. PICK x \in A : TRUE
      OBVIOUS
    <2> HIDE DEF raised
    <2>3. A \ {x} = {} \/ Best(A \ {x})
      <3>1. A \ {x} \in SUBSET members /\ A \ {x} \subseteq A /\ A \ {x} # A
        OBVIOUS
      <3>2. A \ {x} \notin Bad
        BY <2>1, <3>1
      <3> QED
        BY <3>1, <3>2
    <2>4. \A c \in A : raised[c] \in Int /\ c \in Int
      BY <1>1
    <2>5. CASE A \ {x} = {}
      <3>1. \A d \in A : Before(x, d)
        BY <2>2, <2>4, <2>5
      <3> QED
        BY <3>1
    <2>6. CASE Best(A \ {x})
      <3>1. PICK c \in A \ {x} : \A d \in A \ {x} : Before(c, d)
        BY <2>6
      <3>2. (\A d \in A : Before(c, d)) \/ (\A d \in A : Before(x, d))
        <4>1. Before(c, x) \/ Before(x, c)
          BY <2>4
        <4>2. Before(x, x)
          BY <2>4
        <4>3. Before(x, c) => \A d \in A \ {x} : Before(x, d)
          BY <2>4, <3>1
        <4> QED
          BY <3>1, <4>1, <4>2, <4>3
      <3> QED
        BY <3>1, <3>2
    <2> QED
      BY <2>3, <2>5, <2>6
  <1>3. PICK c \in members : \A d \in members : Before(c, d)
    <2>1. members \notin Bad
      BY <1>2
    <2> QED
      BY <2>1
  <1>4. /\ Favourite(members) \in members
        /\ \A d \in members : Before(Favourite(members), d)
    BY <1>3 DEF Favourite
  <1> QED
    BY <1>1, <1>4

-----------------------------------------------------------------------------
(* What a selection does to the credit of any set of channels *)

LEMMA RaisedSum ==
  ASSUME BalancerTyped, NEW members \in SUBSET Catalog, NEW A \in SUBSET Catalog
  PROVE  /\ SumOf(Raised(members), A) = SumOf(current, A) + SumOf(weight, A \cap members)
         /\ SumOf(Raised(members), A) \in Int /\ SumOf(current, A) \in Int
         /\ SumOf(weight, A \cap members) \in Int
  <1> DEFINE raised == Raised(members)
             B == A \cap members
             C == A \ members
  <1>1. /\ \A c \in A : current[c] \in Int /\ weight[c] \in Int /\ raised[c] \in Int
        /\ \A c \in B : raised[c] = current[c] + weight[c]
        /\ \A c \in C : raised[c] = current[c]
    BY RaisedTyped DEF BalancerTyped, Raised
  <1>2. IsFiniteSet(A) /\ IsFiniteSet(B) /\ IsFiniteSet(C) /\ B \cap C = {} /\ B \cup C = A
    BY CatalogSets
  <1> HIDE DEF raised, B, C
  <1>3. (\A c \in B : c \in A) /\ (\A c \in C : c \in A)
    BY DEF B, C
  <1>4. SumOf(raised, B) = SumOf(current, B) + SumOf(weight, B)
    BY <1>1, <1>2, <1>3, SumOfSums
  <1>5. SumOf(raised, C) = SumOf(current, C)
    BY <1>1, <1>2, <1>3, SumIsOfValues
  <1>6. \A c \in B \cup C : current[c] \in Int /\ raised[c] \in Int
    BY <1>1, <1>3
  <1>7. /\ SumOf(raised, B \cup C) = SumOf(raised, B) + SumOf(raised, C)
        /\ SumOf(current, B \cup C) = SumOf(current, B) + SumOf(current, C)
    BY <1>2, <1>6, SumAdds
  <1>8. /\ SumOf(current, B) \in Int /\ SumOf(current, C) \in Int /\ SumOf(weight, B) \in Int
        /\ SumOf(raised, A) \in Int /\ SumOf(current, A) \in Int
    BY <1>1, <1>2, <1>3, SumRemoves
  <1>9. /\ SumOf(raised, A) = SumOf(raised, B) + SumOf(raised, C)
        /\ SumOf(current, A) = SumOf(current, B) + SumOf(current, C)
    BY <1>2, <1>7, Zenon
  <1>10. SumOf(raised, A) = SumOf(current, A) + SumOf(weight, B)
    BY <1>4, <1>5, <1>8, <1>9
  <1> QED
    BY <1>8, <1>10 DEF raised, B

\* The favourite pays the weight of all.
LEMMA PaidSum ==
  ASSUME BalancerTyped, NEW members \in SUBSET Catalog, members # {}, NEW A \in SUBSET Catalog
  PROVE  SumOf(Paid(members), A) =
           IF Favourite(members) \in A
           THEN SumOf(Raised(members), A) - SumOf(weight, members)
           ELSE SumOf(Raised(members), A)
  <1> DEFINE raised == Raised(members)
             paid == Paid(members)
             f == Favourite(members)
             total == SumOf(weight, members)
  <1>1. f \in members /\ raised \in [Catalog -> Int]
    BY FavouriteIs, RaisedTyped
  <1>2. total \in Int /\ IsFiniteSet(A)
    BY RaisedTyped, CatalogSets, SumRemoves
  <1>3. f \in Catalog /\ paid = [raised EXCEPT ![f] = @ - total]
    BY <1>1 DEF Paid
  <1> HIDE DEF raised, paid, f, total
  <1>4. paid[f] = raised[f] - total /\ \A c \in A \ {f} : paid[c] = raised[c] /\ raised[c] \in Int
    BY <1>1, <1>3
  <1>5. raised[f] \in Int /\ paid[f] \in Int /\ \A c \in A : raised[c] \in Int /\ paid[c] \in Int
    BY <1>1, <1>2, <1>3, <1>4
  <1>6. SumOf(paid, A \ {f}) = SumOf(raised, A \ {f})
    BY <1>2, <1>4, FS_Subset, SumIsOfValues
  <1>7. CASE f \in A
    <2>1. /\ SumOf(paid, A) = paid[f] + SumOf(paid, A \ {f})
          /\ SumOf(raised, A) = raised[f] + SumOf(raised, A \ {f})
      BY <1>2, <1>5, <1>7, SumRemoves
    <2>2. IsFiniteSet(A \ {f}) /\ \A c \in A \ {f} : raised[c] \in Int
      BY <1>2, <1>5, FS_Subset
    <2>3. SumOf(raised, A \ {f}) \in Int
      BY <2>2, SumRemoves
    <2>4. SumOf(paid, A) = SumOf(raised, A) - total
      BY <1>2, <1>4, <1>5, <1>6, <2>1, <2>3
    <2> QED
      BY <1>7, <2>4 DEF paid, raised, f, total
  <1>8. CASE f \notin A
    <2>1. A \ {f} = A
      BY <1>8
    <2> QED
      BY <1>6, <1>8, <2>1 DEF paid, raised, f, total
  <1> QED
    BY <1>7, <1>8

LEMMA PaidTyped ==
  ASSUME BalancerTyped, NEW members \in SUBSET Catalog, members # {}
  PROVE  Paid(members) \in [Catalog -> Int]
  <1>1. Favourite(members) \in Catalog /\ Raised(members) \in [Catalog -> Int]
    BY FavouriteIs, RaisedTyped
  <1>2. SumOf(weight, members) \in Int
    BY RaisedTyped, CatalogSets, SumRemoves
  <1> QED
    BY <1>1, <1>2 DEF Paid

\* Weights are positive, and so is their sum, which covers that of any part.
LEMMA TotalOf ==
  ASSUME BalancerTyped, NEW members \in SUBSET Catalog, members # {}, NEW B \in SUBSET members
  PROVE  /\ SumOf(weight, members) \in Int /\ SumOf(weight, members) > 0
         /\ SumOf(weight, B) \in Int /\ SumOf(weight, B) <= SumOf(weight, members)
  <1>1. \A c \in Catalog : weight[c] \in Nat \ {0}
    BY RaisedTyped
  <1>2. ASSUME NEW S \in SUBSET Catalog PROVE SumOf(weight, S) \in Int /\ SumOf(weight, S) >= 0
    <2>1. SumOf(weight, S) \in Nat
      BY <1>1, CatalogSets, SumOfNats
    <2> QED
      BY <2>1
  <1>3. PICK x \in members : TRUE
    OBVIOUS
  <1>4. SumOf(weight, members) = weight[x] + SumOf(weight, members \ {x})
    BY <1>1, CatalogSets, SumRemoves
  <1>5. SumOf(weight, members) = SumOf(weight, B) + SumOf(weight, members \ B)
    <2>1. IsFiniteSet(B) /\ IsFiniteSet(members \ B) /\ B \cap (members \ B) = {} /\ B \cup (members \ B) = members
      BY CatalogSets
    <2>2. \A c \in B \cup (members \ B) : weight[c] \in Int
      BY <1>1
    <2> QED
      BY <2>1, <2>2, SumAdds
  <1>6. /\ SumOf(weight, members \ {x}) \in Int /\ SumOf(weight, members \ {x}) >= 0
        /\ SumOf(weight, members \ B) \in Int /\ SumOf(weight, members \ B) >= 0
        /\ SumOf(weight, B) \in Int /\ SumOf(weight, members) \in Int
    BY <1>2
  <1> QED
    BY <1>1, <1>3, <1>4, <1>5, <1>6

-----------------------------------------------------------------------------
(* Algebra *)

LEMMA Times ==
  ASSUME NEW a \in Int, NEW b \in Int, NEW n \in Nat, a <= b
  PROVE  n * a \in Int /\ n * b \in Int /\ n * a <= n * b
  OBVIOUS

LEMMA Cancels ==
  ASSUME NEW a \in Int, NEW b \in Int, NEW n \in Nat \ {0}, n * a <= n * b
  PROVE  a <= b
  <1> SUFFICES ASSUME b + 1 <= a PROVE FALSE
    OBVIOUS
  <1>1. n * (b + 1) <= n * a
    BY Times
  <1>2. n * (b + 1) = n * b + n
    OBVIOUS
  <1> QED
    BY <1>1, <1>2

\* The bounds of what is credited (j channels of k, to the weight b) and what is not.
LEMMA CreditAlgebra ==
  ASSUME NEW n \in Nat, NEW k \in Nat, NEW j \in Nat, NEW w \in Nat,
         NEW s \in Int, NEW sj \in Int, NEW c \in Int, NEW cw \in Int, NEW b \in Int,
         s + c <= w * ((k + 1) * (n - (k + 1))),
         s - sj <= w * ((k - j) * (n - (k - j))),
         sj + b <= (c + cw) * j, cw <= w, b <= w * j
  PROVE  s + b <= w * (k * (n - k))
  <1> DEFINE p == w * (k * (n - k))
             q == w * ((k + 1) * (n - (k + 1)))
             r == w * ((k - j) * (n - (k - j)))
  <1>1. p \in Int /\ q \in Int /\ r \in Int /\ j * q \in Int /\ j * p \in Int /\ w * j \in Nat /\ j * (w * j) \in Nat
    OBVIOUS
  <1>2. j * q + r = p + j * p - w * j - j * (w * j)
    OBVIOUS
  <1>3. j * (s + c) <= j * q
    BY <1>1, Times
  <1>4. j * (s + c) = j * s + j * c /\ (c + cw) * j = j * c + j * cw
    OBVIOUS
  <1>5. j * cw <= j * w /\ j * w = w * j
    BY Times
  <1>6. j * b <= j * (w * j)
    BY <1>1, Times
  <1>7. j * s \in Int /\ j * c \in Int /\ j * cw \in Int /\ j * b \in Int
    OBVIOUS
  <1> HIDE DEF p, q, r
  <1>8. (s + b) + j * s + j * b <= p + j * p
    BY <1>1, <1>2, <1>3, <1>4, <1>5, <1>6, <1>7 DEF q, r
  <1>9. (j + 1) * (s + b) = (s + b) + j * s + j * b /\ (j + 1) * p = p + j * p
    BY <1>1
  <1>10. s + b <= p
    BY <1>1, <1>8, <1>9, Cancels
  <1> QED
    BY <1>10 DEF p

\* h and i: what k and k + 1 channels may be owed on average, d-ths of the total t.
LEMMA TurnAlgebra ==
  ASSUME NEW d \in Nat, NEW k \in Nat, NEW t \in Nat, NEW h \in Nat, NEW i \in Nat, NEW e \in Nat,
         NEW r \in Int, NEW rf \in Int, NEW s \in Int, NEW b \in Int,
         h = e + i, d <= e * (k + 1), r <= rf * k, r + rf = s + b, b <= t,
         d * s <= ((k + 1) * i) * t
  PROVE  d * r <= (k * h) * t
  <1>1. (k + 1) * r <= k * (s + b)
    <2>1. (k + 1) * r = k * r + r /\ k * (s + b) = k * (r + rf) /\ k * (r + rf) = k * r + rf * k
      OBVIOUS
    <2>2. k * r \in Int /\ rf * k \in Int
      OBVIOUS
    <2> QED
      BY <2>1, <2>2
  <1>2. d * ((k + 1) * r) <= d * (k * (s + b))
    BY <1>1, Times
  <1>3. d * (s + b) <= ((k + 1) * i) * t + (e * (k + 1)) * t
    <2>1. d * (s + b) = d * s + d * b
      OBVIOUS
    <2>2. d * b <= d * t
      BY Times
    <2>3. t * d <= t * (e * (k + 1)) /\ t * d = d * t /\ t * (e * (k + 1)) = (e * (k + 1)) * t
      BY Times
    <2>4. d * s \in Int /\ d * b \in Int /\ d * t \in Int /\ ((k + 1) * i) * t \in Int /\ (e * (k + 1)) * t \in Int
      OBVIOUS
    <2> QED
      BY <2>1, <2>2, <2>3, <2>4
  <1>4. ((k + 1) * i) * t + (e * (k + 1)) * t = (k + 1) * (h * t)
    OBVIOUS
  <1>5. k * (d * (s + b)) <= k * ((k + 1) * (h * t))
    BY <1>3, <1>4, Times
  <1>6. /\ d * (k * (s + b)) = k * (d * (s + b))
        /\ k * ((k + 1) * (h * t)) = (k + 1) * ((k * h) * t)
        /\ d * ((k + 1) * r) = (k + 1) * (d * r)
    OBVIOUS
  <1>7. d * r \in Int /\ (k * h) * t \in Int /\ (k + 1) * (d * r) \in Int
        /\ (k + 1) * ((k * h) * t) \in Int /\ k * (d * (s + b)) \in Int
    OBVIOUS
  <1>8. (k + 1) * (d * r) <= (k + 1) * ((k * h) * t)
    BY <1>2, <1>5, <1>6, <1>7
  <1> QED
    BY <1>7, <1>8, Cancels

-----------------------------------------------------------------------------
(* The credit of any channels, however candidates and weights change *)

Heaviest == Max(Weights)

\* Credit adds up to nothing, and no k channels hold more of it than k(N - k) times
\* the heaviest weight.
Balanced ==
  ~deleted =>
    /\ SumOf(current, Catalog) = 0
    /\ \A A \in SUBSET Catalog :
         SumOf(current, A) <= Heaviest * (Cardinality(A) * (N - Cardinality(A)))

LEMMA HeaviestTyped ==
  ASSUME BalancerTyped
  PROVE  Heaviest \in Nat \ {0} /\ \A c \in Catalog : weight[c] <= Heaviest
  <1>1. 1 \in Catalog
    BY LoadBalancerAssumption DEF Catalog
  <1>2. weight[1] \in Weights
    BY <1>1, RaisedTyped
  <1>3. Weights # {}
    BY <1>2
  <1> QED
    BY <1>3, HeaviestIs, RaisedTyped, LoadBalancerAssumption DEF Heaviest

LEMMA CreditOfPart ==
  ASSUME BalancerTyped, Balanced, ~deleted,
         NEW members \in SUBSET Catalog, members # {}, NEW A \in SUBSET Catalog
  PROVE  SumOf(Paid(members), A) <= Heaviest * (Cardinality(A) * (N - Cardinality(A)))
  <1> DEFINE f == Favourite(members)
             raised == Raised(members)
             B == A \cap members
             k == Cardinality(A)
             j == Cardinality(B)
             total == SumOf(weight, members)
             s == SumOf(current, A)
             b == SumOf(weight, B)
             after == SumOf(Paid(members), A)
             p == Heaviest * (k * (N - k))
  <1>1. f \in members /\ f \in Catalog /\ \A c \in B : raised[c] <= raised[f]
    BY FavouriteIs
  <1>2. SumOf(raised, A) = s + b /\ s \in Int /\ b \in Int
    BY RaisedSum
  <1>3. total \in Int /\ b <= total
    BY TotalOf
  <1>4. s <= p
    BY DEF Balanced
  <1>5. /\ IsFiniteSet(A) /\ k \in Nat /\ IsFiniteSet(B) /\ j \in Nat /\ N \in Nat
        /\ Heaviest \in Nat /\ p \in Int
    BY CatalogSets, HeaviestTyped
  <1>6. CASE f \in A
    <2>1. after = s + b - total
      <3>1. after = SumOf(raised, A) - total
        BY <1>6, PaidSum
      <3> HIDE DEF f, raised, B, k, j, total, s, b, after, p
      <3> QED
        BY <1>2, <1>3, <3>1
    <2> HIDE DEF f, raised, B, k, j, total, s, b, after, p
    <2>2. after <= p
      BY <1>2, <1>3, <1>4, <1>5, <2>1
    <2> QED
      BY <2>2 DEF after, p, k
  <1>7. CASE f \notin A
    <2>1. after = s + b
      BY <1>2, <1>7, PaidSum
    <2>2. SumOf(current, A) + current[f] <= Heaviest * ((k + 1) * (N - (k + 1)))
      <3>1. A \cup {f} \in SUBSET Catalog /\ Cardinality(A \cup {f}) = k + 1
        BY <1>1, <1>5, <1>7, FS_AddElement
      <3>2. SumOf(current, A \cup {f}) <= Heaviest * ((k + 1) * (N - (k + 1)))
        BY <3>1 DEF Balanced
      <3>3. (A \cup {f}) \ {f} = A /\ IsFiniteSet(A \cup {f}) /\ f \in A \cup {f}
        BY <1>7, <3>1, CatalogSets
      <3>4. \A c \in A \cup {f} : current[c] \in Int
        BY <3>1 DEF BalancerTyped
      <3>5. SumOf(current, A \cup {f}) = current[f] + SumOf(current, (A \cup {f}) \ {f}) /\ current[f] \in Int
        BY <3>3, <3>4, SumRemoves
      <3>6. SumOf(current, A \cup {f}) = current[f] + s
        BY <3>3, <3>5, Zenon
      <3>7. current[f] + s = s + current[f]
        BY <1>2, <3>5
      <3> QED
        BY <3>2, <3>6, <3>7
    <2>3. SumOf(current, A) - SumOf(current, B) <= Heaviest * ((k - j) * (N - (k - j)))
      <3>1. A \ B \in SUBSET Catalog /\ B \cup (A \ B) = A /\ B \cap (A \ B) = {} /\ IsFiniteSet(A \ B)
        BY CatalogSets
      <3>2. Cardinality(A \ B) = k - j
        <4>1. Cardinality(B \cup (A \ B)) = j + Cardinality(A \ B) - Cardinality(B \cap (A \ B))
          BY <1>5, <3>1, FS_Union
        <4>2. Cardinality(B \cap (A \ B)) = 0 /\ Cardinality(A \ B) \in Nat
          BY <3>1, FS_EmptySet, CatalogSets
        <4>3. k = j + Cardinality(A \ B) - Cardinality(B \cap (A \ B))
          BY <3>1, <4>1, Zenon
        <4> HIDE DEF B, k, j
        <4> QED
          BY <1>5, <4>2, <4>3
      <3>3. SumOf(current, A \ B) <= Heaviest * ((k - j) * (N - (k - j)))
        BY <3>1, <3>2 DEF Balanced
      <3>4. \A c \in B \cup (A \ B) : current[c] \in Int
        BY DEF BalancerTyped
      <3>5. SumOf(current, B \cup (A \ B)) = SumOf(current, B) + SumOf(current, A \ B)
        BY <1>5, <3>1, <3>4, SumAdds
      <3>6. SumOf(current, B) \in Int /\ SumOf(current, A \ B) \in Int
        BY <3>1, RaisedSum
      <3>7. SumOf(current, A) = SumOf(current, B) + SumOf(current, A \ B)
        BY <3>1, <3>5, Zenon
      <3>8. SumOf(current, A) - SumOf(current, B) = SumOf(current, A \ B)
        BY <3>6, <3>7
      <3> QED
        BY <3>3, <3>8, Zenon
    <2>4. SumOf(current, B) + SumOf(weight, B) <= (current[f] + weight[f]) * j
      <3>1. B \cap members = B /\ B \in SUBSET Catalog
        OBVIOUS
      <3>2. SumOf(raised, B) = SumOf(current, B) + SumOf(weight, B)
        BY <3>1, RaisedSum
      <3>3. raised[f] = current[f] + weight[f] /\ raised[f] \in Int /\ \A c \in B : raised[c] \in Int
        BY <1>1, <3>1, RaisedTyped DEF Raised
      <3>4. SumOf(raised, B) <= raised[f] * j
        BY <1>1, <1>5, <3>3, SumAtMost
      <3> QED
        BY <3>2, <3>3, <3>4
    <2>5. SumOf(weight, B) <= Heaviest * j
      <3>1. \A c \in B : weight[c] \in Int /\ weight[c] <= Heaviest
        BY HeaviestTyped, RaisedTyped
      <3> QED
        BY <1>5, <3>1, SumAtMost
    <2>6. /\ current[f] \in Int /\ weight[f] \in Int /\ weight[f] <= Heaviest
          /\ SumOf(current, B) \in Int
      <3>1. current[f] \in Int /\ weight[f] \in Int /\ weight[f] <= Heaviest
        BY <1>1, HeaviestTyped, RaisedTyped DEF BalancerTyped
      <3>2. SumOf(current, B) \in Int
        BY RaisedSum
      <3> QED
        BY <3>1, <3>2
    <2> HIDE DEF f, raised, B, k, j, total
    <2>7. s + b <= p
      BY <1>2, <1>5, <2>2, <2>3, <2>4, <2>5, <2>6, CreditAlgebra
    <2>8. after <= p
      BY <2>1, <2>7, Zenon
    <2> QED
      BY <2>8 DEF after, p, k
  <1> QED
    BY <1>6, <1>7

LEMMA BalancedStep ==
  ASSUME BalancerTyped, Balanced, ~deleted,
         NEW members \in SUBSET Catalog, members # {}
  PROVE  /\ SumOf(Paid(members), Catalog) = 0
         /\ \A A \in SUBSET Catalog :
              SumOf(Paid(members), A) <= Heaviest * (Cardinality(A) * (N - Cardinality(A)))
  <1>1. Favourite(members) \in Catalog
    BY FavouriteIs
  <1>2. SumOf(Paid(members), Catalog) = SumOf(Raised(members), Catalog) - SumOf(weight, members)
    BY <1>1, PaidSum
  <1>3. Catalog \cap members = members
    OBVIOUS
  <1>4. /\ SumOf(Raised(members), Catalog) = SumOf(current, Catalog) + SumOf(weight, Catalog \cap members)
        /\ SumOf(weight, Catalog \cap members) \in Int
    BY RaisedSum
  <1>5. SumOf(Raised(members), Catalog) = SumOf(current, Catalog) + SumOf(weight, members)
        /\ SumOf(weight, members) \in Int
    BY <1>3, <1>4
  <1>6. SumOf(current, Catalog) = 0
    BY DEF Balanced
  <1>7. SumOf(Paid(members), Catalog) = 0
    BY <1>2, <1>5, <1>6
  <1> QED
    BY <1>7, CreditOfPart

\* Of one channel the bound is (N - 1) times the heaviest weight, and what the others
\* hold at most is what it owes at most.
LEMMA BalancedBounds ==
  ASSUME BalancerTyped, Balanced
  PROVE  CreditBounded
  <1> SUFFICES ASSUME ~deleted, NEW c \in Catalog
               PROVE  current[c] <= (N - 1) * Heaviest /\ current[c] >= -((N - 1) * Heaviest)
    BY DEF CreditBounded, Heaviest
  <1>1. N \in Nat /\ N >= 2 /\ Heaviest \in Nat /\ \A d \in Catalog : current[d] \in Int
    BY LoadBalancerAssumption, HeaviestTyped DEF BalancerTyped
  <1>2. (N - 1) * Heaviest = Heaviest * (1 * (N - 1)) /\ (N - 1) * Heaviest = Heaviest * ((N - 1) * (N - (N - 1)))
    BY <1>1
  <1>3. current[c] <= Heaviest * (1 * (N - 1))
    <2>1. SumOf(current, {c}) = current[c] /\ Cardinality({c}) = 1 /\ {c} \in SUBSET Catalog
      BY <1>1, SumOfOne, FS_Singleton
    <2>2. SumOf(current, {c}) <= Heaviest * (Cardinality({c}) * (N - Cardinality({c})))
      BY <2>1 DEF Balanced
    <2> QED
      BY <2>1, <2>2
  <1>4. -current[c] <= Heaviest * ((N - 1) * (N - (N - 1)))
    <2> DEFINE others == Catalog \ {c}
    <2>1. others \in SUBSET Catalog /\ Cardinality(others) = N - 1
      BY CatalogSets, FS_RemoveElement
    <2>2. SumOf(current, others) <= Heaviest * ((N - 1) * (N - (N - 1)))
      BY <2>1 DEF Balanced
    <2>3. SumOf(current, Catalog) = current[c] + SumOf(current, others)
      BY <1>1, CatalogSets, SumRemoves
    <2>4. SumOf(current, Catalog) = 0 /\ SumOf(current, others) \in Int
      BY <2>1, RaisedSum DEF Balanced
    <2> HIDE DEF others
    <2>5. SumOf(current, others) = -current[c]
      BY <1>1, <2>3, <2>4
    <2> QED
      BY <2>2, <2>5, Zenon
  <1> DEFINE p == (N - 1) * Heaviest
  <1>5. p \in Int /\ current[c] <= p /\ -current[c] <= p
    BY <1>1, <1>2, <1>3, <1>4
  <1>6. current[c] \in Int
    BY <1>1
  <1> HIDE DEF p
  <1>7. current[c] <= p /\ current[c] >= -p
    BY <1>5, <1>6
  <1> QED
    BY <1>7 DEF p

-----------------------------------------------------------------------------
(* The turns of channels that nothing disturbs *)

\* What k of n channels may be owed on average, in 2520ths of a selection.
Owed(k, n) == SumOf([i \in k + 1..n |-> Share(i)], k + 1..n)

Candidates == Top(Catalog)

Total == SumOf(weight, Candidates)

\* Credit is the number of turns that a channel's weight entitles it to and that it
\* has not had yet, and no set of channels is owed too much.
Turning ==
  ~disturbed =>
    /\ \A c \in Candidates :
         /\ current[c] = SumOf(turns, Catalog) * weight[c] - turns[c] * Total
         /\ current[c] > -Total
    /\ SumOf(current, Candidates) = 0
    /\ \A A \in SUBSET Candidates :
         2520 * SumOf(current, A)
           <= (Cardinality(A) * Owed(Cardinality(A), Cardinality(Candidates))) * Total

LEMMA ShareIs ==
  ASSUME NEW i \in Nat \ {0}
  PROVE  Share(i) \in Nat /\ 2520 <= Share(i) * i
  BY DEF Share

LEMMA OwedIs ==
  ASSUME NEW k \in Nat, NEW n \in Nat
  PROVE  /\ Owed(k, n) \in Nat
         /\ k >= n => Owed(k, n) = 0
         /\ k < n => Owed(k, n) = Share(k + 1) + Owed(k + 1, n)
  <1> DEFINE shares(a) == [i \in a + 1..n |-> Share(i)]
  <1>1. ASSUME NEW a \in Nat
        PROVE  /\ \A i \in a + 1..n : shares(a)[i] \in Int /\ shares(a)[i] \in Nat
               /\ IsFiniteSet(a + 1..n)
    <2>1. \A i \in a + 1..n : i \in Nat \ {0} /\ shares(a)[i] = Share(i)
      OBVIOUS
    <2>2. IsFiniteSet(a + 1..n)
      BY FS_Interval
    <2>3. \A i \in a + 1..n : Share(i) \in Nat
      BY <2>1, ShareIs
    <2> HIDE DEF shares
    <2>4. \A i \in a + 1..n : shares(a)[i] \in Nat
      BY <2>1, <2>3
    <2> QED
      BY <2>2, <2>4
  <1>2. ASSUME k < n PROVE Owed(k, n) = Share(k + 1) + Owed(k + 1, n)
    <2>1. k + 1 \in k + 1..n /\ (k + 1..n) \ {k + 1} = k + 2..n /\ (k + 1) + 1 = k + 2
      BY <1>2
    <2>2. SumOf(shares(k), k + 1..n) = shares(k)[k + 1] + SumOf(shares(k), (k + 1..n) \ {k + 1})
      <3>1. IsFiniteSet(k + 1..n) /\ \A i \in k + 1..n : shares(k)[i] \in Int
        BY <1>1
      <3> HIDE DEF shares
      <3> QED
        BY <2>1, <3>1, SumRemoves, SMTT(30)
    <2>3. SumOf(shares(k), k + 2..n) = SumOf(shares(k + 1), k + 2..n)
      <3>1. \A i \in k + 2..n : shares(k + 1)[i] \in Int /\ shares(k)[i] = shares(k + 1)[i]
        BY ShareIs, <2>1
      <3>2. IsFiniteSet(k + 2..n)
        BY FS_Interval
      <3> HIDE DEF shares
      <3> QED
        BY <3>1, <3>2, SumIsOfValues
    <2>4. shares(k)[k + 1] = Share(k + 1)
      BY <2>1
    <2>5. Owed(k, n) = SumOf(shares(k), k + 1..n) /\ Owed(k + 1, n) = SumOf(shares(k + 1), k + 2..n)
      BY <2>1 DEF Owed
    <2> HIDE DEF shares
    <2>6. SumOf(shares(k), (k + 1..n) \ {k + 1}) = SumOf(shares(k), k + 2..n)
      BY <2>1
    <2> QED
      BY <2>2, <2>3, <2>4, <2>5, <2>6
  <1>3. ASSUME k >= n PROVE Owed(k, n) = 0
    <2>1. k + 1..n = {}
      BY <1>3
    <2> QED
      BY <2>1, SumOfNone DEF Owed
  <1>4. Owed(k, n) \in Nat
    <2>1. SumOf(shares(k), k + 1..n) \in Nat
      BY <1>1, SumOfNats
    <2> QED
      BY <2>1 DEF Owed
  <1> QED
    BY <1>2, <1>3, <1>4

LEMMA TurnOfPart ==
  ASSUME BalancerTyped, Turning, ~disturbed, Candidates # {}, NEW A \in SUBSET Candidates
  PROVE  2520 * SumOf(Paid(Candidates), A)
           <= (Cardinality(A) * Owed(Cardinality(A), Cardinality(Candidates))) * Total
  <1> DEFINE f == Favourite(Candidates)
             raised == Raised(Candidates)
             n == Cardinality(Candidates)
             k == Cardinality(A)
             s == SumOf(current, A)
             b == SumOf(weight, A)
             r == SumOf(raised, A)
             after == SumOf(Paid(Candidates), A)
             p == (k * Owed(k, n)) * Total
  <1>1. Candidates \in SUBSET Catalog /\ A \in SUBSET Catalog /\ A \cap Candidates = A
    BY DEF Candidates, Top
  <1>2. f \in Candidates /\ f \in Catalog /\ \A c \in A : raised[c] <= raised[f]
    BY <1>1, FavouriteIs
  <1>3. r = s + b /\ r \in Int /\ s \in Int /\ b \in Int
    BY <1>1, RaisedSum
  <1>4. Total \in Nat /\ b <= Total
    BY <1>1, TotalOf DEF Total
  <1>5. 2520 * s <= p
    BY DEF Turning
  <1>6. IsFiniteSet(A) /\ k \in Nat /\ n \in Nat /\ IsFiniteSet(Candidates)
    BY <1>1, CatalogSets
  <1>7. CASE f \in A
    <2>1. after = r - Total
      BY <1>1, <1>7, PaidSum DEF Total
    <2>2. after <= s /\ after \in Int
      <3> HIDE DEF r, s, b, after
      <3> QED
        BY <1>3, <1>4, <2>1
    <2>3. p \in Int
      BY <1>4, <1>6, OwedIs
    <2> HIDE DEF p, s, after
    <2>4. 2520 * after <= p
      BY <1>3, <1>5, <2>2, <2>3
    <2> QED
      BY <2>4 DEF after, p
  <1>8. CASE f \notin A
    <2> DEFINE B == A \cup {f}
               e == Share(k + 1)
               i == Owed(k + 1, n)
               h == Owed(k, n)
               sb == SumOf(current, B)
               wb == SumOf(weight, B)
    <2>1. after = r
      BY <1>1, <1>8, PaidSum
    <2>2. B \in SUBSET Candidates /\ B \in SUBSET Catalog /\ IsFiniteSet(B) /\ Cardinality(B) = k + 1
      BY <1>1, <1>2, <1>6, <1>8, FS_AddElement
    <2>3. k < n
      BY <1>6, <2>2, FS_Subset
    <2>4. h = e + i /\ h \in Nat /\ i \in Nat /\ e \in Nat /\ 2520 <= e * (k + 1)
      <3>1. k + 1 \in Nat \ {0} /\ k + 1 \in Nat /\ k \in Nat /\ n \in Nat
        BY <1>6
      <3>2. e \in Nat /\ 2520 <= e * (k + 1)
        BY <3>1, ShareIs
      <3>3. h = e + i /\ h \in Nat /\ i \in Nat
        BY <2>3, <3>1, OwedIs
      <3> QED
        BY <3>2, <3>3
    <2>5. \A c \in B : raised[c] \in Int
      BY <1>1, <2>2, RaisedTyped
    <2>6. r <= raised[f] * k /\ raised[f] \in Int
      <3>1. raised[f] \in Int /\ \A c \in A : raised[c] \in Int
        BY <2>5
      <3> QED
        BY <1>2, <1>6, <3>1, SumAtMost
    <2>7. r + raised[f] = sb + wb
      <3>1. SumOf(raised, B) = sb + SumOf(weight, B \cap Candidates) /\ B \cap Candidates = B
        BY <1>1, <2>2, RaisedSum
      <3>2. SumOf(raised, B) = raised[f] + SumOf(raised, B \ {f}) /\ B \ {f} = A
        BY <1>8, <2>2, <2>5, SumRemoves
      <3>3. SumOf(raised, B) = sb + wb /\ SumOf(raised, B) = raised[f] + r
        BY <3>1, <3>2, Zenon
      <3> HIDE DEF raised, r, sb, wb
      <3> QED
        BY <1>3, <2>6, <3>3
    <2>8. sb \in Int /\ wb \in Int /\ wb <= Total
      BY <1>1, <2>2, RaisedSum, TotalOf DEF Total
    <2>9. 2520 * sb <= ((k + 1) * i) * Total
      BY <2>2 DEF Turning
    <2> HIDE DEF f, raised, n, k, s, b, r, after, e, i, h, sb, wb, B
    <2>10. 2520 * r <= (k * h) * Total
      BY <1>3, <1>4, <1>6, <2>4, <2>6, <2>7, <2>8, <2>9, TurnAlgebra
    <2> QED
      BY <2>1, <2>10 DEF after, k, h, n
  <1> QED
    BY <1>7, <1>8

LEMMA OneTurnMore ==
  ASSUME NEW g \in [Catalog -> Nat], NEW h \in [Catalog -> Nat], NEW f \in Catalog,
         h[f] = g[f] + 1, \A c \in Catalog \ {f} : h[c] = g[c]
  PROVE  SumOf(g, Catalog) \in Int /\ SumOf(h, Catalog) = SumOf(g, Catalog) + 1
  <1>1. IsFiniteSet(Catalog) /\ IsFiniteSet(Catalog \ {f})
    BY CatalogSets
  <1>2. \A c \in Catalog : g[c] \in Int /\ h[c] \in Int
    OBVIOUS
  <1>3. /\ SumOf(g, Catalog) = g[f] + SumOf(g, Catalog \ {f}) /\ SumOf(g, Catalog) \in Int
        /\ SumOf(h, Catalog) = h[f] + SumOf(h, Catalog \ {f})
    BY <1>1, <1>2, SumRemoves
  <1>4. SumOf(h, Catalog \ {f}) = SumOf(g, Catalog \ {f}) /\ SumOf(g, Catalog \ {f}) \in Int
    BY <1>1, <1>2, SumIsOfValues, SumRemoves
  <1> QED
    BY <1>2, <1>3, <1>4

LEMMA TurnTaken ==
  ASSUME BalancerTyped, Turning, ~disturbed, Candidates # {},
         NEW t, t = [turns EXCEPT ![Favourite(Candidates)] = @ + 1]
  PROVE  /\ \A c \in Candidates :
              /\ Paid(Candidates)[c] = SumOf(t, Catalog) * weight[c] - t[c] * Total
              /\ Paid(Candidates)[c] > -Total
         /\ SumOf(Paid(Candidates), Candidates) = 0
  <1> DEFINE f == Favourite(Candidates)
             raised == Raised(Candidates)
             paid == Paid(Candidates)
             all == SumOf(turns, Catalog)
             later == SumOf(t, Catalog)
  <1>1. Candidates \in SUBSET Catalog /\ Candidates \cap Candidates = Candidates
    BY DEF Candidates, Top
  <1>2. f \in Candidates /\ f \in Catalog /\ \A c \in Candidates : raised[c] <= raised[f]
    BY <1>1, FavouriteIs
  <1>3. Total \in Nat /\ Total > 0
    BY <1>1, TotalOf DEF Total
  <1>4. /\ \A c \in Candidates : raised[c] = current[c] + weight[c]
        /\ \A c \in Catalog : current[c] \in Int /\ weight[c] \in Nat \ {0} /\ raised[c] \in Int
    BY <1>1, RaisedTyped DEF BalancerTyped, Raised
  <1>5. paid[f] = raised[f] - Total /\ \A c \in Candidates \ {f} : paid[c] = raised[c]
    <2>1. raised \in [Catalog -> Int]
      BY <1>1, RaisedTyped
    <2> QED
      BY <1>1, <1>2, <2>1 DEF Paid, Total
  <1>6. SumOf(raised, Candidates) = Total
    <2>1. SumOf(raised, Candidates) = SumOf(current, Candidates) + SumOf(weight, Candidates \cap Candidates)
      BY <1>1, RaisedSum
    <2>2. SumOf(raised, Candidates) = SumOf(current, Candidates) + Total
      BY <1>1, <2>1 DEF Total
    <2>3. SumOf(current, Candidates) = 0
      BY DEF Turning
    <2> QED
      BY <1>3, <2>2, <2>3
  <1>7. SumOf(paid, Candidates) = 0
    <2>1. SumOf(paid, Candidates) = SumOf(raised, Candidates) - Total
      BY <1>1, <1>2, PaidSum DEF Total
    <2> QED
      BY <1>3, <1>6, <2>1
  <1>8. raised[f] > 0
    <2> SUFFICES ASSUME raised[f] <= 0 PROVE FALSE
      BY <1>2, <1>4
    <2>1. IsFiniteSet(Candidates) /\ Cardinality(Candidates) \in Nat
      BY <1>1, CatalogSets
    <2>2. \A c \in Candidates : raised[c] \in Int /\ raised[c] <= 0
      BY <1>1, <1>2, <1>4
    <2> HIDE DEF raised
    <2>3. SumOf(raised, Candidates) <= 0 * Cardinality(Candidates)
      BY <2>1, <2>2, SumAtMost
    <2>4. 0 * Cardinality(Candidates) = 0
      BY <2>1
    <2> QED
      BY <1>3, <1>6, <2>3, <2>4
  <1>9. all \in Int /\ later = all + 1
    <2>1. turns \in [Catalog -> Nat] /\ t \in [Catalog -> Nat] /\ t[f] = turns[f] + 1
          /\ \A c \in Catalog \ {f} : t[c] = turns[c]
      BY <1>2 DEF BalancerTyped
    <2> HIDE DEF all, later, f
    <2>2. SumOf(turns, Catalog) \in Int /\ SumOf(t, Catalog) = SumOf(turns, Catalog) + 1
      BY <1>2, <2>1, OneTurnMore
    <2> QED
      BY <2>2 DEF all, later
  <1>10. ASSUME NEW c \in Candidates
         PROVE  paid[c] = later * weight[c] - t[c] * Total /\ paid[c] > -Total
    <2>1. current[c] = all * weight[c] - turns[c] * Total /\ current[c] > -Total
      BY DEF Turning
    <2>2. /\ turns[c] \in Int /\ weight[c] \in Nat \ {0} /\ current[c] \in Int
          /\ t[c] = IF c = f THEN turns[c] + 1 ELSE turns[c]
      BY <1>1, <1>2, <1>4 DEF BalancerTyped
    <2>3. /\ (all + 1) * weight[c] = all * weight[c] + weight[c]
          /\ (turns[c] + 1) * Total = turns[c] * Total + Total
          /\ all * weight[c] \in Int /\ turns[c] * Total \in Int
      <3>1. all \in Int /\ weight[c] \in Int /\ turns[c] \in Int /\ Total \in Int
        BY <1>3, <1>9, <2>2
      <3> HIDE DEF all
      <3> QED
        BY <3>1
    <2>4. later * weight[c] = all * weight[c] + weight[c]
      BY <1>9, <2>3
    <2>5. raised[c] = current[c] + weight[c] /\ raised[c] \in Int
      BY <1>1, <1>4
    <2> HIDE DEF f, raised, paid, all, later
    <2>6. CASE c = f
      <3>1. t[c] * Total = turns[c] * Total + Total
        BY <2>2, <2>3, <2>6
      <3>2. paid[c] = raised[c] - Total /\ raised[c] > 0
        BY <1>5, <1>8, <2>6
      <3> QED
        BY <1>3, <2>1, <2>2, <2>3, <2>4, <2>5, <3>1, <3>2
    <2>7. CASE c # f
      <3>1. t[c] * Total = turns[c] * Total
        BY <2>2, <2>7
      <3>2. paid[c] = raised[c]
        BY <1>5, <2>7
      <3> QED
        BY <1>3, <2>1, <2>2, <2>3, <2>4, <2>5, <3>1, <3>2
    <2> QED
      BY <2>6, <2>7
  <1> QED
    BY <1>7, <1>10

LEMMA TurningBounds ==
  ASSUME BalancerTyped, Turning
  PROVE  FairShare
  <1> SUFFICES ASSUME ~disturbed, NEW c \in Candidates
               PROVE  /\ SumOf(turns, Catalog) * weight[c] - turns[c] * Total > -Total
                      /\ 2520 * (SumOf(turns, Catalog) * weight[c] - turns[c] * Total)
                           <= Patience(Cardinality(Candidates)) * Total
    BY DEF FairShare, Candidates, Total
  <1> DEFINE n == Cardinality(Candidates)
  <1>1. current[c] = SumOf(turns, Catalog) * weight[c] - turns[c] * Total /\ current[c] > -Total
    BY DEF Turning
  <1>2. Candidates \in SUBSET Catalog /\ c \in Catalog /\ current[c] \in Int
    BY DEF Candidates, Top, BalancerTyped
  <1>3. n \in Nat
    BY <1>2, CatalogSets
  <1>4. SumOf(current, {c}) = current[c] /\ Cardinality({c}) = 1 /\ {c} \in SUBSET Candidates
    BY <1>2, SumOfOne, FS_Singleton
  <1>5. 2520 * current[c] <= (1 * Owed(1, n)) * Total
    <2>1. 2520 * SumOf(current, {c}) <= (Cardinality({c}) * Owed(Cardinality({c}), n)) * Total
      BY <1>4 DEF Turning
    <2> QED
      BY <1>4, <2>1
  <1>6. 1 * Owed(1, n) = Patience(n)
    <2>1. Owed(1, n) = Patience(n)
      BY DEF Owed, Patience
    <2> QED
      BY <1>3, <2>1, OwedIs
  <1>7. 2520 * current[c] <= Patience(n) * Total
    BY <1>5, <1>6
  <1> HIDE DEF n
  <1> QED
    BY <1>1, <1>7 DEF n

BalancerInv == BalancerTyped /\ Balanced /\ Turning

LEMMA BalancerStarts ==
  ASSUME BalancerInit
  PROVE  BalancerInv
  <1>1. scenario \in Scenarios /\ weight \in scenario.weights /\ scenario.weights \subseteq [Catalog -> Weights]
        /\ scenario.rotating \in BOOLEAN
    BY LoadBalancerAssumption DEF BalancerInit
  <1>2. BalancerTyped
    BY <1>1 DEF BalancerInit, BalancerTyped, Undisturbed
  <1>3. /\ \A c \in Catalog : current[c] = 0 /\ turns[c] = 0
    BY DEF BalancerInit, Undisturbed
  <1>4. ASSUME NEW A \in SUBSET Catalog PROVE SumOf(current, A) = 0 /\ Cardinality(A) \in Nat /\ N - Cardinality(A) \in Nat
    <2>1. IsFiniteSet(A) /\ Cardinality(A) \in Nat /\ Cardinality(A) <= N /\ N \in Nat
      BY CatalogSets
    <2>2. \A c \in A : current[c] \in Int /\ current[c] = current[c] + current[c]
      BY <1>3
    <2>3. SumOf(current, A) = SumOf(current, A) + SumOf(current, A) /\ SumOf(current, A) \in Int
      <3>1. SumOf(current, A) = SumOf(current, A) + SumOf(current, A)
        BY <2>1, <2>2, SumOfSums
      <3>2. SumOf(current, A) \in Int
        BY <2>1, <2>2, SumRemoves
      <3> QED
        BY <3>1, <3>2
    <2>4. SumOf(current, A) = 0
      <3> DEFINE sum == SumOf(current, A)
      <3>1. sum \in Int /\ sum = sum + sum
        BY <2>3
      <3> HIDE DEF sum
      <3>2. sum = 0
        BY ONLY <3>1
      <3> QED
        BY <3>2 DEF sum
    <2>5. N - Cardinality(A) \in Nat
      <3> DEFINE size == Cardinality(A)
      <3>1. size \in Nat /\ N \in Nat /\ size <= N
        BY <2>1
      <3> HIDE DEF size
      <3>2. N - size \in Nat
        BY ONLY <3>1
      <3> QED
        BY <3>2 DEF size
    <2> QED
      BY <2>1, <2>4, <2>5, Zenon
  <1>5. Balanced
    <2>1. Heaviest \in Nat
      BY <1>2, HeaviestTyped
    <2>2. ASSUME NEW A \in SUBSET Catalog
          PROVE  SumOf(current, A) <= Heaviest * (Cardinality(A) * (N - Cardinality(A)))
      <3>1. Heaviest * (Cardinality(A) * (N - Cardinality(A))) \in Nat
        BY <1>4, <2>1
      <3> QED
        BY <1>4, <3>1
    <2> QED
      BY <1>4, <2>2 DEF Balanced
  <1>6. Turning
    <2>1. Candidates \in SUBSET Catalog
      BY DEF Candidates, Top
    <2>2. ASSUME NEW c \in Candidates
          PROVE  /\ current[c] = SumOf(turns, Catalog) * weight[c] - turns[c] * Total
                 /\ current[c] > -Total
      <3>1. Total \in Int /\ Total > 0 /\ weight[c] \in Int
        BY <1>2, <2>1, TotalOf, RaisedTyped DEF Total
      <3>2. SumOf(turns, Catalog) = 0
        BY <1>4 DEF BalancerInit
      <3>3. current[c] = 0 /\ turns[c] = 0
        BY <1>3, <2>1
      <3> QED
        BY <3>1, <3>2, <3>3
    <2>3. ASSUME NEW A \in SUBSET Candidates
          PROVE  2520 * SumOf(current, A)
                   <= (Cardinality(A) * Owed(Cardinality(A), Cardinality(Candidates))) * Total
      <3>1. Owed(Cardinality(A), Cardinality(Candidates)) \in Nat /\ Cardinality(A) \in Nat
        BY <1>4, <2>1, OwedIs
      <3>2. Total \in Nat
        BY <1>2, <2>1, RaisedTyped, CatalogSets, SumOfNats DEF Total
      <3>3. (Cardinality(A) * Owed(Cardinality(A), Cardinality(Candidates))) * Total \in Nat
        BY <3>1, <3>2
      <3>4. SumOf(current, A) = 0
        BY <1>4, <2>1
      <3> QED
        BY <3>3, <3>4
    <2> QED
      BY <1>4, <2>1, <2>2, <2>3 DEF Turning
  <1> QED
    BY <1>2, <1>5, <1>6 DEF BalancerInv

\* What is the same as long as the credit, the weights and the histories are.
LEMMA BalancerRests ==
  ASSUME BalancerInv, UNCHANGED <<current, weight, scenario, turns, disturbed, deleted>>
  PROVE  BalancerInv'
  <1>1. BalancerTyped'
    BY DEF BalancerInv, BalancerTyped
  <1>2. Balanced'
    BY DEF BalancerInv, Balanced
  <1>3. Candidates' = Candidates
    BY DEF Candidates, Top
  <1>4. Total' = Total
    BY <1>3 DEF Total
  <1>5. Turning'
    BY <1>3, <1>4 DEF BalancerInv, Turning
  <1> QED
    BY <1>1, <1>2, <1>5 DEF BalancerInv

LEMMA TurnsKeepInv ==
  ASSUME BalancerInv, NEW admitted \in SUBSET Catalog, SelectRoundRobin(admitted)
  PROVE  BalancerInv'
  <1> DEFINE members == Top(admitted)
             f == Favourite(members)
  <1>1. members \in SUBSET Catalog /\ members # {}
    <2>1. Cardinality(members) > 1
      BY DEF SelectRoundRobin
    <2>2. members # {}
      BY <2>1, FS_EmptySet
    <2> QED
      BY <2>2 DEF Top
  <1>2. f \in members /\ f \in Catalog
    BY <1>1, FavouriteIs DEF BalancerInv
  <1>3. /\ current' = Paid(members) /\ weight' = weight /\ scenario' = scenario
        /\ deleted' = deleted /\ ~deleted
        /\ disturbed' = (disturbed \/ members # Candidates)
        /\ turns' = IF disturbed' THEN [c \in Catalog |-> 0] ELSE [turns EXCEPT ![f] = @ + 1]
    BY DEF SelectRoundRobin, Candidates
  <1>4. BalancerTyped'
    <2>1. current' \in [Catalog -> Int]
      BY <1>1, <1>3, PaidTyped DEF BalancerInv
    <2>2. turns' \in [Catalog -> Nat]
      BY <1>2, <1>3 DEF BalancerInv, BalancerTyped
    <2>3. disturbed' \in BOOLEAN /\ deleted' \in BOOLEAN
      BY <1>3 DEF BalancerInv, BalancerTyped
    <2> QED
      BY <1>3, <2>1, <2>2, <2>3 DEF BalancerInv, BalancerTyped
  <1>5. Balanced'
    <2>1. /\ SumOf(Paid(members), Catalog) = 0
          /\ \A A \in SUBSET Catalog :
               SumOf(Paid(members), A) <= Heaviest * (Cardinality(A) * (N - Cardinality(A)))
      BY <1>1, <1>3, BalancedStep DEF BalancerInv
    <2> HIDE DEF members
    <2> QED
      BY <1>3, <2>1 DEF Balanced, Heaviest
  <1>6. Turning'
    <2>1. Candidates' = Candidates
      BY <1>3 DEF Candidates, Top
    <2>2. Total' = Total
      BY <1>3, <2>1 DEF Total
    <2>3. CASE disturbed'
      BY <2>3 DEF Turning
    <2>4. CASE ~disturbed'
      <3>1. ~disturbed /\ members = Candidates /\ Candidates # {} /\ current' = Paid(Candidates)
        BY <1>1, <1>3, <2>4
      <3>2. turns' = [turns EXCEPT ![Favourite(Candidates)] = @ + 1]
        BY <1>3, <2>4, <3>1
      <3>3. /\ \A c \in Candidates :
                 /\ Paid(Candidates)[c] = SumOf(turns', Catalog) * weight[c] - turns'[c] * Total
                 /\ Paid(Candidates)[c] > -Total
            /\ SumOf(Paid(Candidates), Candidates) = 0
        BY <3>1, <3>2, TurnTaken DEF BalancerInv
      <3>4. \A A \in SUBSET Candidates :
              2520 * SumOf(Paid(Candidates), A)
                <= (Cardinality(A) * Owed(Cardinality(A), Cardinality(Candidates))) * Total
        BY <3>1, TurnOfPart DEF BalancerInv
      <3>5. \A c \in Candidates' :
              /\ current'[c] = SumOf(turns', Catalog) * weight'[c] - turns'[c] * Total'
              /\ current'[c] > -Total'
        BY <1>3, <2>1, <2>2, <3>1, <3>3, ZenonT(60)
      <3>6. SumOf(current', Candidates') = 0
        BY <2>1, <3>1, <3>3
      <3>7. \A A \in SUBSET Candidates' :
              2520 * SumOf(current', A)
                <= (Cardinality(A) * Owed(Cardinality(A), Cardinality(Candidates'))) * Total'
        BY <2>1, <2>2, <3>1, <3>4
      <3> QED
        BY <3>5, <3>6, <3>7 DEF Turning
    <2> QED
      BY <2>3, <2>4
  <1> QED
    BY <1>4, <1>5, <1>6 DEF BalancerInv

LEMMA BalancerSteps ==
  ASSUME BalancerInv, [BalancerNext]_balancerVars
  PROVE  BalancerInv'
  <1>1. CASE BalancerTicks
    BY <1>1, BalancerRests DEF BalancerTicks
  <1>2. ASSUME NEW admitted \in SUBSET Catalog, SelectRoundRobin(admitted)
        PROVE  BalancerInv'
    BY <1>2, TurnsKeepInv
  <1>3. ASSUME NEW admitted \in SUBSET Catalog, NEW k, SelectSticky(k, admitted)
        PROVE  BalancerInv'
    BY <1>3, BalancerRests DEF SelectSticky
  <1>4. ASSUME NEW cfg \in Configs, UpdateConfig(cfg) PROVE BalancerInv'
    BY <1>4, BalancerRests DEF UpdateConfig
  <1>5. ASSUME NEW c \in Catalog, RemoveChannel(c) PROVE BalancerInv'
    BY <1>5 DEF RemoveChannel, BalancerInv, BalancerTyped, Balanced, Turning, Undisturbed
  <1>6. ASSUME NEW c \in Catalog, NEW w \in Weights, Reweight(c, w) PROVE BalancerInv'
    BY <1>6 DEF Reweight, BalancerInv, BalancerTyped, Balanced, Turning, Undisturbed
  <1>7. CASE UNCHANGED balancerVars
    BY <1>7, BalancerRests DEF balancerVars
  <1> QED
    BY <1>1, <1>2, <1>3, <1>4, <1>5, <1>6, <1>7 DEF BalancerNext

\* However candidates come and go, weights change and strategies alternate, turns are
\* fair and credit stays bounded, for any number of channels and any weights
\* (load_balancer.py, _weighted_round_robin).
THEOREM TurnsStayFair == BalancerSpec => []TurnsAreFair
  <1>1. BalancerInv => TurnsAreFair
    BY BalancedBounds, TurningBounds DEF BalancerInv, TurnsAreFair
  <1> QED
    BY <1>1, BalancerStarts, BalancerSteps, PTL DEF BalancerSpec

-----------------------------------------------------------------------------
(* Filtered sequences *)

\* g tells what is kept of each of the first n elements.
Kept(g, s, set, n) ==
  g = [i \in 0..n |->
         IF i = 0 THEN <<>> ELSE IF s[i] \in set THEN Append(g[i - 1], s[i]) ELSE g[i - 1]]

LEMMA KeptExists ==
  ASSUME NEW s, NEW set, NEW n \in Nat
  PROVE  \E g : Kept(g, s, set, n)
  <1> DEFINE Bad == {m \in Nat : ~\E g : Kept(g, s, set, m)}
  <1> SUFFICES ASSUME Bad # {} PROVE FALSE
    OBVIOUS
  <1>1. PICK m \in Bad : \A k \in Bad : m <= k
    BY LeastOf
  <1>2. CASE m = 0
    <2> DEFINE g == [i \in 0..0 |-> <<>>]
    <2>1. Kept(g, s, set, 0)
      BY DEF Kept
    <2> QED
      BY <1>2, <2>1
  <1>3. CASE m # 0
    <2>1. m - 1 \in Nat /\ m - 1 \notin Bad
      BY <1>1, <1>3
    <2>2. PICK g : Kept(g, s, set, m - 1)
      BY <2>1
    <2> DEFINE h == [i \in 0..m |->
                 IF i = 0 THEN <<>> ELSE IF s[i] \in set THEN Append(g[i - 1], s[i]) ELSE g[i - 1]]
    <2>3. \A i \in 0..m - 1 : i \in 0..m /\ h[i] = g[i]
      <3>1. \A i \in 0..m - 1 : g[i] = IF i = 0 THEN <<>> ELSE IF s[i] \in set THEN Append(g[i - 1], s[i]) ELSE g[i - 1]
        BY <2>2 DEF Kept
      <3> QED
        BY <2>1, <3>1
    <2>4. \A i \in 0..m : i = 0 \/ i - 1 \in 0..m - 1
      OBVIOUS
    <2>5. Kept(h, s, set, m)
      BY <2>3, <2>4 DEF Kept
    <2> QED
      BY <2>5
  <1> QED
    BY <1>2, <1>3

LEMMA KeptAgrees ==
  ASSUME NEW s, NEW t, NEW set, NEW n \in Nat, NEW m \in 0..n, NEW g, NEW h,
         Kept(g, s, set, n), Kept(h, t, set, m), \A i \in 1..m : s[i] = t[i]
  PROVE  g[m] = h[m]
  <1> DEFINE Bad == {k \in 0..m : g[k] # h[k]}
  <1> SUFFICES ASSUME Bad # {} PROVE FALSE
    OBVIOUS
  <1>1. Bad \in SUBSET Nat
    OBVIOUS
  <1>2. PICK k \in Bad : \A j \in Bad : k <= j
    <2> HIDE DEF Bad
    <2> QED
      BY <1>1, LeastOf
  <1>3. k \in 0..m /\ k \in 0..n
    OBVIOUS
  <1>4. /\ g[k] = IF k = 0 THEN <<>> ELSE IF s[k] \in set THEN Append(g[k - 1], s[k]) ELSE g[k - 1]
        /\ h[k] = IF k = 0 THEN <<>> ELSE IF t[k] \in set THEN Append(h[k - 1], t[k]) ELSE h[k - 1]
    BY <1>3 DEF Kept
  <1>5. k # 0
    BY <1>4
  <1>6. k - 1 \in 0..m /\ k - 1 \notin Bad /\ k \in 1..m
    BY <1>2, <1>3, <1>5
  <1>7. g[k - 1] = h[k - 1] /\ s[k] = t[k]
    BY <1>6
  <1> QED
    BY <1>4, <1>5, <1>7

LEMMA KeepIs ==
  ASSUME NEW s, NEW set, Len(s) \in Nat
  PROVE  \E g : Kept(g, s, set, Len(s)) /\ Keep(s, set) = g[Len(s)]
  <1> DEFINE kept == CHOOSE g : Kept(g, s, set, Len(s))
  <1>1. Kept(kept, s, set, Len(s))
    BY KeptExists
  <1>2. Keep(s, set) = kept[Len(s)]
    BY DEF Keep, Kept
  <1> QED
    BY <1>1, <1>2

LEMMA KeepOfNone ==
  ASSUME NEW set
  PROVE  Keep(<<>>, set) = <<>>
  <1>1. PICK g : Kept(g, <<>>, set, 0) /\ Keep(<<>>, set) = g[0]
    BY KeepIs, SMTT(30)
  <1> QED
    BY <1>1 DEF Kept

LEMMA KeepAppends ==
  ASSUME NEW S, NEW s \in Seq(S), NEW e \in S, NEW set
  PROVE  Keep(Append(s, e), set) = IF e \in set THEN Append(Keep(s, set), e) ELSE Keep(s, set)
  <1> DEFINE t == Append(s, e)
             n == Len(s)
  <1>1. n \in Nat /\ Len(t) = n + 1 /\ t[n + 1] = e /\ \A i \in 1..n : t[i] = s[i]
    OBVIOUS
  <1>2. PICK g : Kept(g, t, set, n + 1) /\ Keep(t, set) = g[n + 1]
    <2>1. Len(t) \in Nat /\ Len(t) = n + 1
      BY <1>1
    <2> HIDE DEF t, n
    <2>2. \E g : Kept(g, t, set, Len(t)) /\ Keep(t, set) = g[Len(t)]
      BY <2>1, KeepIs
    <2> QED
      BY <2>1, <2>2
  <1>3. PICK h : Kept(h, s, set, n) /\ Keep(s, set) = h[n]
    BY <1>1, KeepIs
  <1> HIDE DEF t, n
  <1>4. g[n] = h[n]
    <2>1. n \in 0..n + 1 /\ n + 1 \in Nat
      BY <1>1
    <2> QED
      BY <1>1, <1>2, <1>3, <2>1, KeptAgrees
  <1>5. g[n + 1] = IF e \in set THEN Append(g[n], e) ELSE g[n]
    <2>1. n + 1 \in 0..n + 1 /\ n + 1 # 0 /\ (n + 1) - 1 = n
      BY <1>1
    <2>2. g[n + 1] = IF n + 1 = 0 THEN <<>>
                     ELSE IF t[n + 1] \in set THEN Append(g[(n + 1) - 1], t[n + 1]) ELSE g[(n + 1) - 1]
      BY <1>2, <2>1 DEF Kept
    <2> QED
      BY <1>1, <2>1, <2>2
  <1> QED
    BY <1>2, <1>3, <1>4, <1>5 DEF t

LEMMA ShortestOf ==
  ASSUME NEW S, NEW Bad \in SUBSET Seq(S), Bad # {}
  PROVE  \E s \in Bad : \/ s = <<>>
                        \/ \E t \in Seq(S), e \in S : s = Append(t, e) /\ t \notin Bad
  <1> DEFINE lens == {Len(s) : s \in Bad}
  <1>1. lens \in SUBSET Nat /\ lens # {}
    <2>1. \A s \in Bad : s \in Seq(S)
      OBVIOUS
    <2>2. \A s \in Bad : Len(s) \in Nat
      BY <2>1, LenProperties
    <2>3. PICK s \in Bad : TRUE
      OBVIOUS
    <2>4. Len(s) \in lens
      OBVIOUS
    <2> QED
      BY <2>2, <2>4
  <1>2. PICK n \in lens : \A m \in lens : n <= m
    <2> HIDE DEF lens
    <2> QED
      BY <1>1, LeastOf
  <1>3. PICK s \in Bad : Len(s) = n
    OBVIOUS
  <1>4. s \in Seq(S)
    OBVIOUS
  <1>5. CASE s # <<>>
    <2>1. PICK t \in Seq(S), e \in S : s = Append(t, e)
      BY <1>4, <1>5, SequenceEmptyOrAppend
    <2>2. Len(s) = Len(t) + 1 /\ Len(t) \in Nat
      BY <2>1
    <2>3. Len(t) \notin lens
      BY <1>2, <1>3, <2>2
    <2> QED
      BY <2>1, <2>3
  <1> QED
    BY <1>5

LEMMA KeepTyped ==
  ASSUME NEW S, NEW s \in Seq(S), NEW set
  PROVE  Keep(s, set) \in Seq(S)
  <1> DEFINE Bad == {t \in Seq(S) : Keep(t, set) \notin Seq(S)}
  <1> SUFFICES ASSUME Bad # {} PROVE FALSE
    OBVIOUS
  <1>1. Bad \in SUBSET Seq(S)
    OBVIOUS
  <1>2. PICK w \in Bad : w = <<>> \/ \E t \in Seq(S), e \in S : w = Append(t, e) /\ t \notin Bad
    <2> HIDE DEF Bad
    <2> QED
      BY <1>1, ShortestOf
  <1>3. w # <<>>
    BY KeepOfNone
  <1>4. PICK t \in Seq(S), e \in S : w = Append(t, e) /\ t \notin Bad
    BY <1>2, <1>3
  <1>5. Keep(t, set) \in Seq(S)
    BY <1>4
  <1>6. Keep(w, set) = IF e \in set THEN Append(Keep(t, set), e) ELSE Keep(t, set)
    BY <1>4, KeepAppends
  <1>7. Append(Keep(t, set), e) \in Seq(S)
    BY <1>5
  <1>8. Keep(w, set) \in Seq(S)
    BY <1>5, <1>6, <1>7
  <1> QED
    BY <1>2, <1>8

LEMMA ConcatAppends ==
  ASSUME NEW S, NEW s \in Seq(S), NEW t \in Seq(S), NEW e \in S
  PROVE  s \o Append(t, e) = Append(s \o t, e) /\ s \o t \in Seq(S)
  BY ConcatAssociative, AppendIsConcat, ConcatProperties, SMTT(30)

LEMMA KeepConcats ==
  ASSUME NEW S, NEW s \in Seq(S), NEW u \in Seq(S), NEW set
  PROVE  Keep(s \o u, set) = Keep(s, set) \o Keep(u, set)
  <1> DEFINE Bad == {t \in Seq(S) : Keep(s \o t, set) # Keep(s, set) \o Keep(t, set)}
  <1> SUFFICES ASSUME Bad # {} PROVE FALSE
    OBVIOUS
  <1>1. Bad \in SUBSET Seq(S)
    OBVIOUS
  <1>2. PICK w \in Bad : w = <<>> \/ \E t \in Seq(S), e \in S : w = Append(t, e) /\ t \notin Bad
    <2> HIDE DEF Bad
    <2> QED
      BY <1>1, ShortestOf
  <1>3. Keep(s, set) \in Seq(S)
    BY KeepTyped
  <1>4. w # <<>>
    <2> SUFFICES ASSUME w = <<>> PROVE FALSE
      OBVIOUS
    <2>1. s \o <<>> = s
      BY ConcatEmptySeq
    <2>2. Keep(s, set) \o <<>> = Keep(s, set)
      BY <1>3, ConcatEmptySeq
    <2>3. Keep(s \o <<>>, set) = Keep(s, set) \o Keep(<<>>, set)
      BY <2>1, <2>2, KeepOfNone
    <2> QED
      BY <2>3
  <1>5. PICK t \in Seq(S), e \in S : w = Append(t, e) /\ t \notin Bad
    BY <1>2, <1>4
  <1>6. Keep(s \o t, set) = Keep(s, set) \o Keep(t, set) /\ Keep(t, set) \in Seq(S)
    BY <1>5, KeepTyped
  <1>7. s \o w = Append(s \o t, e) /\ s \o t \in Seq(S)
    BY <1>5, ConcatAppends, SMTT(30)
  <1>8. Keep(s \o w, set) = IF e \in set THEN Append(Keep(s \o t, set), e) ELSE Keep(s \o t, set)
    <2>1. Keep(Append(s \o t, e), set)
            = IF e \in set THEN Append(Keep(s \o t, set), e) ELSE Keep(s \o t, set)
      <3>1. s \o t \in Seq(S) /\ e \in S
        BY <1>7
      <3> HIDE DEF Bad
      <3> QED
        BY <3>1, KeepAppends
    <2> QED
      BY <1>7, <2>1, Zenon
  <1>9. Keep(w, set) = IF e \in set THEN Append(Keep(t, set), e) ELSE Keep(t, set)
    BY <1>5, KeepAppends, SMTT(30)
  <1>10. Keep(s, set) \o Append(Keep(t, set), e) = Append(Keep(s, set) \o Keep(t, set), e)
    <2>1. Keep(s, set) \in Seq(S) /\ Keep(t, set) \in Seq(S) /\ e \in S
      BY <1>3, <1>6
    <2> HIDE DEF Bad
    <2> QED
      BY <2>1, ConcatAppends, SMTT(30)
  <1>11. Keep(s \o w, set) = Keep(s, set) \o Keep(w, set)
    BY <1>6, <1>8, <1>9, <1>10
  <1> QED
    BY <1>2, <1>11

LEMMA EntriesAppend ==
  ASSUME NEW S, NEW s \in Seq(S), NEW e \in S
  PROVE  EntriesOf(Append(s, e)) = EntriesOf(s) \cup {e}
  <1>1. /\ DOMAIN Append(s, e) = DOMAIN s \cup {Len(s) + 1}
        /\ Append(s, e)[Len(s) + 1] = e
        /\ \A i \in DOMAIN s : Append(s, e)[i] = s[i]
    BY AppendProperties
  <1> QED
    BY <1>1 DEF EntriesOf

\* Only the elements of the sequence matter.
LEMMA KeepsSame ==
  ASSUME NEW S, NEW s \in Seq(S), NEW A, NEW B, \A e \in EntriesOf(s) : e \in A <=> e \in B
  PROVE  Keep(s, A) = Keep(s, B)
  <1> DEFINE Agrees(t) == \A e \in EntriesOf(t) : e \in A <=> e \in B
             Bad == {t \in Seq(S) : Agrees(t) /\ Keep(t, A) # Keep(t, B)}
  <1> SUFFICES ASSUME Bad # {} PROVE FALSE
    OBVIOUS
  <1>1. Bad \in SUBSET Seq(S)
    OBVIOUS
  <1>2. PICK w \in Bad : w = <<>> \/ \E t \in Seq(S), e \in S : w = Append(t, e) /\ t \notin Bad
    <2> HIDE DEF Bad
    <2> QED
      BY <1>1, ShortestOf
  <1>3. w # <<>>
    BY KeepOfNone
  <1>4. PICK t \in Seq(S), e \in S : w = Append(t, e) /\ t \notin Bad
    BY <1>2, <1>3
  <1>5. EntriesOf(w) = EntriesOf(t) \cup {e}
    BY <1>4, EntriesAppend
  <1>6. Agrees(t) /\ (e \in A <=> e \in B)
    BY <1>5
  <1>7. Keep(t, A) = Keep(t, B)
    BY <1>4, <1>6
  <1>8. Keep(w, A) = Keep(w, B)
    <2>1. /\ Keep(w, A) = IF e \in A THEN Append(Keep(t, A), e) ELSE Keep(t, A)
          /\ Keep(w, B) = IF e \in B THEN Append(Keep(t, B), e) ELSE Keep(t, B)
      BY <1>4, KeepAppends, SMTT(30)
    <2> QED
      BY <1>6, <1>7, <2>1
  <1> QED
    BY <1>2, <1>8

LEMMA KeepsAll ==
  ASSUME NEW S, NEW s \in Seq(S), NEW A, EntriesOf(s) \subseteq A
  PROVE  Keep(s, A) = s
  <1> DEFINE Bad == {t \in Seq(S) : EntriesOf(t) \subseteq A /\ Keep(t, A) # t}
  <1> SUFFICES ASSUME Bad # {} PROVE FALSE
    OBVIOUS
  <1>1. Bad \in SUBSET Seq(S)
    OBVIOUS
  <1>2. PICK w \in Bad : w = <<>> \/ \E t \in Seq(S), e \in S : w = Append(t, e) /\ t \notin Bad
    <2> HIDE DEF Bad
    <2> QED
      BY <1>1, ShortestOf
  <1>3. w # <<>>
    BY KeepOfNone
  <1>4. PICK t \in Seq(S), e \in S : w = Append(t, e) /\ t \notin Bad
    BY <1>2, <1>3
  <1>5. EntriesOf(w) = EntriesOf(t) \cup {e}
    BY <1>4, EntriesAppend
  <1>6. EntriesOf(t) \subseteq A /\ e \in A
    BY <1>5
  <1>7. Keep(t, A) = t
    BY <1>4, <1>6
  <1>8. Keep(w, A) = Append(Keep(t, A), e)
    BY <1>4, <1>6, KeepAppends
  <1> QED
    BY <1>2, <1>4, <1>7, <1>8

LEMMA KeptEntries ==
  ASSUME NEW S, NEW s \in Seq(S), NEW A
  PROVE  EntriesOf(Keep(s, A)) \subseteq EntriesOf(s) \cap A
  <1> DEFINE Bad == {t \in Seq(S) : ~(EntriesOf(Keep(t, A)) \subseteq EntriesOf(t) \cap A)}
  <1> SUFFICES ASSUME Bad # {} PROVE FALSE
    OBVIOUS
  <1>1. Bad \in SUBSET Seq(S)
    OBVIOUS
  <1>2. PICK w \in Bad : w = <<>> \/ \E t \in Seq(S), e \in S : w = Append(t, e) /\ t \notin Bad
    <2> HIDE DEF Bad
    <2> QED
      BY <1>1, ShortestOf
  <1>3. w # <<>>
    <2>1. EntriesOf(<<>>) = {}
      BY DEF EntriesOf
    <2> QED
      BY <2>1, KeepOfNone
  <1>4. PICK t \in Seq(S), e \in S : w = Append(t, e) /\ t \notin Bad
    BY <1>2, <1>3
  <1>5. EntriesOf(Keep(t, A)) \subseteq EntriesOf(t) \cap A /\ Keep(t, A) \in Seq(S)
    BY <1>4, KeepTyped
  <1>6. EntriesOf(w) = EntriesOf(t) \cup {e} /\ EntriesOf(Append(Keep(t, A), e)) = EntriesOf(Keep(t, A)) \cup {e}
    BY <1>4, <1>5, EntriesAppend
  <1>7. Keep(w, A) = IF e \in A THEN Append(Keep(t, A), e) ELSE Keep(t, A)
    BY <1>4, KeepAppends
  <1>8. EntriesOf(Keep(w, A)) \subseteq EntriesOf(w) \cap A
    BY <1>5, <1>6, <1>7
  <1> QED
    BY <1>2, <1>8

\* Each element of k is one of s, and they come in the same order.
Within(k, s) ==
  /\ Len(k) <= Len(s)
  /\ \A i \in 1..Len(k) : \E p \in 1..Len(s) : s[p] = k[i]
  /\ \A i, j \in 1..Len(k) : i < j => \E p, q \in 1..Len(s) : p < q /\ s[p] = k[i] /\ s[q] = k[j]

LEMMA WithinLonger ==
  ASSUME NEW S, NEW s \in Seq(S), NEW k \in Seq(S), NEW e \in S, Within(k, s)
  PROVE  Within(k, Append(s, e)) /\ Within(Append(k, e), Append(s, e))
  <1> DEFINE t == Append(s, e)
             l == Append(k, e)
             m == Len(s)
             n == Len(k)
  <1>1. /\ m \in Nat /\ Len(t) = m + 1 /\ t[m + 1] = e /\ \A p \in 1..m : t[p] = s[p]
        /\ n \in Nat /\ Len(l) = n + 1 /\ l[n + 1] = e /\ \A i \in 1..n : l[i] = k[i]
    OBVIOUS
  <1>2. /\ n <= m
        /\ \A i \in 1..n : \E p \in 1..m : s[p] = k[i]
        /\ \A i, j \in 1..n : i < j => \E p, q \in 1..m : p < q /\ s[p] = k[i] /\ s[q] = k[j]
    BY DEF Within
  <1> HIDE DEF t, l, m, n
  <1>3. \A p \in 1..m : p \in 1..m + 1
    BY <1>1
  <1>4. \A i \in 1..n : \E p \in 1..m : t[p] = k[i]
    BY <1>1, <1>2
  <1>5. ASSUME NEW i \in 1..n, NEW j \in 1..n, i < j
        PROVE  \E p, q \in 1..m : p < q /\ t[p] = k[i] /\ t[q] = k[j]
    <2>1. PICK p \in 1..m, q \in 1..m : p < q /\ s[p] = k[i] /\ s[q] = k[j]
      BY <1>2, <1>5
    <2>2. t[p] = k[i] /\ t[q] = k[j]
      BY <1>1, <2>1
    <2> QED
      BY <2>1, <2>2
  <1>6. /\ n <= m + 1
        /\ \A i \in 1..n : \E p \in 1..m + 1 : t[p] = k[i]
        /\ \A i, j \in 1..n : i < j => \E p, q \in 1..m + 1 : p < q /\ t[p] = k[i] /\ t[q] = k[j]
    <2>1. n <= m + 1
      BY <1>1, <1>2
    <2>2. \A i \in 1..n : \E p \in 1..m + 1 : t[p] = k[i]
      BY <1>3, <1>4
    <2>3. ASSUME NEW i \in 1..n, NEW j \in 1..n, i < j
          PROVE  \E p, q \in 1..m + 1 : p < q /\ t[p] = k[i] /\ t[q] = k[j]
      BY <1>3, <1>5, <2>3, SMTT(30)
    <2> QED
      BY <2>1, <2>2, <2>3
  <1>7. Within(k, t)
    BY <1>1, <1>6 DEF Within, n
  <1>8. ASSUME NEW i \in 1..n + 1
        PROVE  \E p \in 1..m + 1 : t[p] = l[i] /\ (i \in 1..n => p \in 1..m)
    <2>1. CASE i = n + 1
      <3>1. m + 1 \in 1..m + 1 /\ t[m + 1] = l[i] /\ i \notin 1..n
        BY <1>1, <2>1
      <3> QED
        BY <3>1
    <2>2. CASE i # n + 1
      <3>1. i \in 1..n
        BY <1>1, <2>2
      <3>2. PICK p \in 1..m : t[p] = k[i]
        BY <1>4, <3>1
      <3>3. t[p] = l[i] /\ p \in 1..m + 1
        BY <1>1, <1>3, <3>1, <3>2
      <3> QED
        BY <3>3
    <2> QED
      BY <2>1, <2>2
  <1>9. ASSUME NEW i \in 1..n + 1, NEW j \in 1..n + 1, i < j
        PROVE  \E p, q \in 1..m + 1 : p < q /\ t[p] = l[i] /\ t[q] = l[j]
    <2>1. i \in 1..n
      BY <1>1, <1>9
    <2>2. CASE j = n + 1
      <3>1. PICK p \in 1..m + 1 : t[p] = l[i] /\ p \in 1..m
        BY <1>8, <2>1
      <3>2. m + 1 \in 1..m + 1 /\ p < m + 1 /\ t[m + 1] = l[j]
        BY <1>1, <2>2, <3>1
      <3> QED
        BY <3>1, <3>2
    <2>3. CASE j # n + 1
      <3>1. j \in 1..n
        BY <1>1, <2>3
      <3>2. PICK p \in 1..m, q \in 1..m : p < q /\ t[p] = k[i] /\ t[q] = k[j]
        BY <1>5, <1>9, <2>1, <3>1
      <3>3. t[p] = l[i] /\ t[q] = l[j] /\ p \in 1..m + 1 /\ q \in 1..m + 1
        BY <1>1, <1>3, <2>1, <3>1, <3>2
      <3> QED
        BY <3>2, <3>3
    <2> QED
      BY <2>2, <2>3
  <1>10. Within(l, t)
    <2>1. n + 1 <= m + 1
      BY <1>1, <1>2
    <2> QED
      <3>1. Len(l) <= Len(t) /\ Len(l) = n + 1 /\ Len(t) = m + 1
        BY <1>1, <2>1
      <3>2. \A i \in 1..Len(l) : \E p \in 1..Len(t) : t[p] = l[i]
        BY <1>8, <3>1
      <3>3. \A i, j \in 1..Len(l) : i < j => \E p, q \in 1..Len(t) : p < q /\ t[p] = l[i] /\ t[q] = l[j]
        BY <1>9, <3>1
      <3> QED
        BY <3>1, <3>2, <3>3 DEF Within
  <1> QED
    BY <1>7, <1>10 DEF t, l

\* What is kept is some of the sequence, in its order.
LEMMA KeptWithin ==
  ASSUME NEW S, NEW s \in Seq(S), NEW A
  PROVE  Within(Keep(s, A), s)
  <1> DEFINE Bad == {t \in Seq(S) : ~Within(Keep(t, A), t)}
  <1> SUFFICES ASSUME Bad # {} PROVE FALSE
    OBVIOUS
  <1>1. Bad \in SUBSET Seq(S)
    OBVIOUS
  <1>2. PICK w \in Bad : w = <<>> \/ \E t \in Seq(S), e \in S : w = Append(t, e) /\ t \notin Bad
    <2> HIDE DEF Bad
    <2> QED
      BY <1>1, ShortestOf
  <1>3. w # <<>>
    <2>1. Within(<<>>, <<>>)
      BY DEF Within
    <2> QED
      BY <2>1, KeepOfNone
  <1>4. PICK t \in Seq(S), e \in S : w = Append(t, e) /\ t \notin Bad
    BY <1>2, <1>3
  <1>5. Within(Keep(t, A), t) /\ Keep(t, A) \in Seq(S)
    BY <1>4, KeepTyped
  <1>6. Keep(w, A) = IF e \in A THEN Append(Keep(t, A), e) ELSE Keep(t, A)
    BY <1>4, KeepAppends
  <1>7. Within(Keep(t, A), w) /\ Within(Append(Keep(t, A), e), w)
    BY <1>4, <1>5, WithinLonger
  <1>8. Within(Keep(w, A), w)
    BY <1>6, <1>7
  <1> QED
    BY <1>2, <1>8

-----------------------------------------------------------------------------
(* The session cache and its reference *)

Entry == [key : Sessions, ch : Catalog, at : Nat]

\* Each session once, in the order of their last uses.
InOrder(s) ==
  /\ s \in Seq(Entry)
  /\ \A i, j \in 1..Len(s) : i < j => s[i].key # s[j].key /\ s[i].at <= s[j].at
  /\ \A i \in 1..Len(s) : s[i].at <= now

Old(e) == Expired(e, limits.ttl)

\* The two differ in expired entries only, which come first.
Agree(c, u) ==
  \E a, b, l \in Seq(Entry) :
    /\ c = a \o l /\ u = b \o l
    /\ \A e \in EntriesOf(a) \cup EntriesOf(b) : Old(e)
    /\ \A e \in EntriesOf(l) : ~Old(e)

SessionsTyped ==
  /\ now \in Nat
  /\ limits \in [ttl : Nat \ {0}, capacity : Nat \ {0}]

SessionsInv ==
  /\ SessionsTyped
  /\ InOrder(cache) /\ InOrder(uses)
  /\ Len(uses) <= limits.capacity
  /\ Agree(cache, uses)

LEMMA EntriesTyped ==
  ASSUME NEW S, NEW s \in Seq(S)
  PROVE  /\ DOMAIN s = 1..Len(s) /\ Len(s) \in Nat
         /\ EntriesOf(s) \subseteq S
         /\ \A e \in EntriesOf(s) : \E i \in 1..Len(s) : s[i] = e
         /\ \A i \in 1..Len(s) : s[i] \in EntriesOf(s) /\ s[i] \in S
  BY DEF EntriesOf

LEMMA EntryAt ==
  ASSUME NEW S, NEW s \in Seq(S)
  PROVE  \A e \in EntriesOf(s) : \E i \in 1..Len(s) : s[i] = e
  BY DEF EntriesOf

LEMMA EntriesConcat ==
  ASSUME NEW S, NEW s \in Seq(S), NEW t \in Seq(S)
  PROVE  EntriesOf(s \o t) = EntriesOf(s) \cup EntriesOf(t) /\ s \o t \in Seq(S)
  <1> DEFINE u == s \o t
             m == Len(s)
             n == Len(t)
  <1>1. /\ u \in Seq(S) /\ m \in Nat /\ n \in Nat /\ DOMAIN u = 1..m + n /\ DOMAIN s = 1..m /\ DOMAIN t = 1..n
        /\ \A i \in 1..m + n : u[i] = IF i <= m THEN s[i] ELSE t[i - m]
    BY ConcatProperties, LenProperties
  <1> HIDE DEF u, m, n
  <1>2. ASSUME NEW i \in 1..m + n PROVE u[i] \in EntriesOf(s) \cup EntriesOf(t)
    <2>1. CASE i <= m
      <3>1. i \in DOMAIN s /\ u[i] = s[i]
        BY <1>1, <2>1
      <3> QED
        BY <3>1 DEF EntriesOf
    <2>2. CASE ~(i <= m)
      <3>1. i - m \in DOMAIN t /\ u[i] = t[i - m]
        BY <1>1, <2>2
      <3> QED
        BY <3>1 DEF EntriesOf
    <2> QED
      BY <2>1, <2>2
  <1>3. ASSUME NEW i \in 1..m PROVE s[i] \in EntriesOf(u)
    <2>1. i \in DOMAIN u /\ u[i] = s[i]
      BY <1>1
    <2> QED
      BY <2>1 DEF EntriesOf
  <1>4. ASSUME NEW i \in 1..n PROVE t[i] \in EntriesOf(u)
    <2>1. m + i \in DOMAIN u /\ u[m + i] = t[i]
      BY <1>1
    <2> QED
      BY <2>1 DEF EntriesOf
  <1>5. EntriesOf(u) = EntriesOf(s) \cup EntriesOf(t)
    BY <1>1, <1>2, <1>3, <1>4, ZenonT(60) DEF EntriesOf
  <1> QED
    BY <1>1, <1>5 DEF u

\* A part in the same order is in order.
LEMMA WithinInOrder ==
  ASSUME NEW s, InOrder(s), NEW k \in Seq(Entry), Within(k, s)
  PROVE  InOrder(k)
  <1>1. s \in Seq(Entry) /\ \A i \in 1..Len(s) : s[i] \in Entry
    BY EntriesTyped DEF InOrder
  <1>2. ASSUME NEW i \in 1..Len(k), NEW j \in 1..Len(k), i < j
        PROVE  k[i].key # k[j].key /\ k[i].at <= k[j].at
    <2>1. PICK p \in 1..Len(s), q \in 1..Len(s) : p < q /\ s[p] = k[i] /\ s[q] = k[j]
      BY <1>2 DEF Within
    <2>2. s[p].key # s[q].key /\ s[p].at <= s[q].at
      BY <2>1 DEF InOrder
    <2> QED
      BY <2>1, <2>2
  <1>3. ASSUME NEW i \in 1..Len(k) PROVE k[i].at <= now
    <2>1. PICK p \in 1..Len(s) : s[p] = k[i]
      BY DEF Within
    <2>2. s[p].at <= now
      BY DEF InOrder
    <2> QED
      BY <2>1, <2>2
  <1> QED
    BY <1>2, <1>3 DEF InOrder

LEMMA KeepInOrder ==
  ASSUME NEW s, InOrder(s), NEW A
  PROVE  InOrder(Keep(s, A)) /\ Keep(s, A) \in Seq(Entry) /\ Len(Keep(s, A)) <= Len(s)
  <1>1. s \in Seq(Entry)
    BY DEF InOrder
  <1>2. Keep(s, A) \in Seq(Entry) /\ Within(Keep(s, A), s)
    BY <1>1, KeepTyped, KeptWithin
  <1> QED
    BY <1>2, WithinInOrder DEF Within

\* A use of a session that is not there yet is the last.
LEMMA AppendInOrder ==
  ASSUME SessionsTyped, NEW s, InOrder(s), NEW e \in Entry, e.at = now, \A d \in EntriesOf(s) : d.key # e.key
  PROVE  InOrder(Append(s, e)) /\ Append(s, e) \in Seq(Entry)
  <1> DEFINE t == Append(s, e)
             n == Len(s)
  <1>1. s \in Seq(Entry) /\ now \in Nat
    BY DEF InOrder, SessionsTyped
  <1>2. /\ n \in Nat /\ Len(t) = n + 1 /\ t[n + 1] = e /\ \A i \in 1..n : t[i] = s[i]
        /\ t \in Seq(Entry)
    BY <1>1
  <1>3. \A i \in 1..n : s[i].key # e.key /\ s[i].at <= now
    BY <1>1, EntriesTyped DEF InOrder
  <1>4. \A i, j \in 1..n : i < j => s[i].key # s[j].key /\ s[i].at <= s[j].at
    BY DEF InOrder
  <1> HIDE DEF t, n
  <1>5. ASSUME NEW i \in 1..n + 1, NEW j \in 1..n + 1, i < j
        PROVE  t[i].key # t[j].key /\ t[i].at <= t[j].at
    <2>1. i \in 1..n /\ t[i] = s[i]
      BY <1>2, <1>5
    <2>2. CASE j = n + 1
      BY <1>2, <1>3, <2>1, <2>2
    <2>3. CASE j # n + 1
      <3>1. j \in 1..n /\ t[j] = s[j]
        BY <1>2, <2>3
      <3> QED
        BY <1>4, <1>5, <2>1, <3>1
    <2> QED
      BY <2>2, <2>3
  <1>6. ASSUME NEW i \in 1..n + 1 PROVE t[i].at <= now
    <2>1. CASE i = n + 1
      BY <1>1, <1>2, <2>1
    <2>2. CASE i # n + 1
      <3>1. i \in 1..n /\ t[i] = s[i]
        BY <1>2, <2>2
      <3> QED
        BY <1>3, <3>1
    <2> QED
      BY <2>1, <2>2
  <1>7. InOrder(t)
    BY <1>2, <1>5, <1>6 DEF InOrder
  <1> QED
    BY <1>2, <1>7 DEF t

\* The last n of a sequence.
LEMMA LastOfIs ==
  ASSUME NEW s \in Seq(Entry), NEW n \in Nat \ {0}
  PROVE  /\ LastOf(s, n) \in Seq(Entry)
         /\ Len(LastOf(s, n)) = IF Len(s) <= n THEN Len(s) ELSE n
         /\ \A i \in 1..Len(LastOf(s, n)) : LastOf(s, n)[i] = s[i + (Len(s) - Len(LastOf(s, n)))]
  <1> DEFINE k == Len(s)
  <1>1. k \in Nat
    OBVIOUS
  <1>2. CASE k <= n
    BY <1>1, <1>2 DEF LastOf
  <1>3. CASE ~(k <= n)
    <2>1. k - n + 1 \in 1..k + 1 /\ k \in k - n + 1 - 1..k /\ k - (k - n + 1) + 1 = n
      BY <1>1, <1>3
    <2>2. LastOf(s, n) = SubSeq(s, k - n + 1, k)
      BY <1>3 DEF LastOf
    <2>3. /\ SubSeq(s, k - n + 1, k) \in Seq(Entry)
          /\ Len(SubSeq(s, k - n + 1, k)) = n
          /\ \A i \in 1..n : SubSeq(s, k - n + 1, k)[i] = s[i + (k - n)]
      BY <1>1, <1>3, <2>1
    <2> QED
      BY <1>1, <1>3, <2>2, <2>3
  <1> QED
    BY <1>2, <1>3

LEMMA LastOfWithin ==
  ASSUME NEW s \in Seq(Entry), NEW n \in Nat \ {0}
  PROVE  /\ Within(LastOf(s, n), s) /\ EntriesOf(LastOf(s, n)) \subseteq EntriesOf(s)
         /\ Len(LastOf(s, n)) <= n
  <1> DEFINE k == LastOf(s, n)
             d == Len(s) - Len(k)
  <1>1. /\ k \in Seq(Entry) /\ Len(s) \in Nat /\ Len(k) \in Nat /\ Len(k) <= Len(s) /\ Len(k) <= n
        /\ \A i \in 1..Len(k) : k[i] = s[i + d]
    BY LastOfIs
  <1> HIDE DEF k
  <1>2. d \in Nat /\ \A i \in 1..Len(k) : i + d \in 1..Len(s)
    BY <1>1
  <1>3. \A i \in 1..Len(k) : \E p \in 1..Len(s) : s[p] = k[i]
    BY <1>1, <1>2
  <1>4. ASSUME NEW i \in 1..Len(k), NEW j \in 1..Len(k), i < j
        PROVE  \E p, q \in 1..Len(s) : p < q /\ s[p] = k[i] /\ s[q] = k[j]
    <2>1. i + d < j + d /\ i + d \in 1..Len(s) /\ j + d \in 1..Len(s)
      BY <1>2, <1>4
    <2> QED
      BY <1>1, <2>1
  <1>5. Within(k, s)
    BY <1>1, <1>3, <1>4 DEF Within
  <1>6. EntriesOf(k) \subseteq EntriesOf(s)
    <2>1. ASSUME NEW e \in EntriesOf(k) PROVE e \in EntriesOf(s)
      <3>1. PICK i \in 1..Len(k) : k[i] = e
        BY <1>1, EntriesTyped
      <3>2. PICK p \in 1..Len(s) : s[p] = e
        BY <1>3, <3>1
      <3> QED
        BY <3>2, EntriesTyped
    <2> QED
      BY <2>1
  <1> QED
    BY <1>1, <1>5, <1>6 DEF k

LEMMA LastOfConcat ==
  ASSUME NEW a \in Seq(Entry), NEW l \in Seq(Entry), NEW n \in Nat \ {0}
  PROVE  LastOf(a \o l, n) = IF Len(l) >= n THEN LastOf(l, n) ELSE LastOf(a, n - Len(l)) \o l
  <1> DEFINE c == a \o l
             k == LastOf(c, n)
             p == Len(a)
             q == Len(l)
  <1>1. /\ c \in Seq(Entry) /\ p \in Nat /\ q \in Nat /\ Len(c) = p + q
        /\ \A i \in 1..p + q : c[i] = IF i <= p THEN a[i] ELSE l[i - p]
    BY ConcatProperties
  <1>2. /\ k \in Seq(Entry) /\ Len(k) = IF p + q <= n THEN p + q ELSE n
        /\ \A i \in 1..Len(k) : k[i] = c[i + (p + q - Len(k))]
    <2> HIDE DEF c, p, q
    <2>1. /\ k \in Seq(Entry) /\ Len(k) = IF Len(c) <= n THEN Len(c) ELSE n
          /\ \A i \in 1..Len(k) : k[i] = c[i + (Len(c) - Len(k))]
      BY <1>1, LastOfIs
    <2> HIDE DEF k
    <2> QED
      BY <1>1, <2>1
  <1>3. CASE q >= n
    <2> DEFINE m == LastOf(l, n)
    <2>1. /\ m \in Seq(Entry) /\ Len(m) = n
          /\ \A i \in 1..n : m[i] = l[i + (q - n)]
      <3>1. /\ m \in Seq(Entry) /\ Len(m) = IF Len(l) <= n THEN Len(l) ELSE n
            /\ \A i \in 1..Len(m) : m[i] = l[i + (Len(l) - Len(m))]
        BY LastOfIs
      <3> HIDE DEF m
      <3>2. Len(m) = n
        BY <1>1, <1>3, <3>1
      <3> QED
        BY <3>1, <3>2
    <2> HIDE DEF c, k, p, q, m
    <2>2. Len(k) = n
      BY <1>1, <1>2, <1>3
    <2>3. ASSUME NEW i \in 1..n PROVE k[i] = m[i]
      <3>1. i + (p + q - n) \in 1..p + q /\ ~(i + (p + q - n) <= p) /\ i + (p + q - n) - p = i + (q - n)
        BY <1>1, <1>3
      <3>2. k[i] = c[i + (p + q - n)]
        BY <1>2, <2>2
      <3>3. c[i + (p + q - n)] = l[i + (p + q - n) - p]
        BY <1>1, <3>1
      <3> QED
        BY <2>1, <3>1, <3>2, <3>3
    <2>4. k = m
      BY <1>2, <2>1, <2>2, <2>3, SeqEqual
    <2> QED
      BY <1>3, <2>4 DEF k, m, c, q
  <1>4. CASE ~(q >= n)
    <2> DEFINE f == LastOf(a, n - q)
               m == f \o l
               r == Len(f)
    <2>1. n - q \in Nat \ {0}
      BY <1>1, <1>4
    <2>2. /\ f \in Seq(Entry) /\ r \in Nat /\ r = IF p <= n - q THEN p ELSE n - q
          /\ \A i \in 1..r : f[i] = a[i + (p - r)]
      BY <1>1, <2>1, LastOfIs
    <2>3. /\ m \in Seq(Entry) /\ Len(m) = r + q
          /\ \A i \in 1..r + q : m[i] = IF i <= r THEN f[i] ELSE l[i - r]
      BY <2>2, ConcatProperties
    <2> HIDE DEF c, k, p, q, m, f, r
    <2>4. Len(k) = r + q /\ p + q - (r + q) = p - r /\ r <= p
      BY <1>1, <1>2, <1>4, <2>2
    <2>5. ASSUME NEW i \in 1..r + q PROVE k[i] = m[i]
      <3>0. r \in Nat /\ p \in Nat /\ q \in Nat /\ r <= p
        BY <1>1, <2>2, <2>4
      <3>1. i + (p - r) \in 1..p + q /\ k[i] = c[i + (p - r)]
        <4>1. i + (p - r) \in 1..p + q
          BY <3>0
        <4>2. k[i] = c[i + (p + q - Len(k))]
          BY <1>2, <2>4
        <4>3. p + q - Len(k) = p - r
          BY <2>4
        <4> QED
          BY <4>1, <4>2, <4>3
      <3>2. CASE i <= r
        <4>1. i + (p - r) <= p /\ i \in 1..r
          BY <1>1, <2>2, <2>4, <3>2, SMTT(30)
        <4> QED
          BY <1>1, <2>2, <2>3, <3>1, <3>2, <4>1, SMTT(30)
      <3>3. CASE ~(i <= r)
        <4>1. ~(i + (p - r) <= p) /\ i + (p - r) - p = i - r
          BY <1>1, <2>2, <2>4, <3>3
        <4>2. PICK x \in 1..p + q : x = i + (p - r)
          BY <3>1
        <4>3. k[i] = c[x]
          BY <3>1, <4>2, Zenon
        <4>4. c[x] = l[x - p]
          BY <1>1, <4>1, <4>2
        <4>5. x - p = i - r
          BY <3>0, <4>2
        <4>6. m[i] = l[i - r]
          BY <2>3, <3>3
        <4> QED
          BY <4>3, <4>4, <4>5, <4>6, Zenon
      <3> QED
        BY <3>2, <3>3
    <2>6. k = m
      BY <1>2, <2>3, <2>4, <2>5, SeqEqual
    <2> QED
      BY <1>4, <2>6 DEF k, m, c, q, f
  <1> QED
    BY <1>3, <1>4

LEMMA LastAgree ==
  ASSUME NEW c, NEW u, Agree(c, u), NEW n \in Nat \ {0}
  PROVE  Agree(LastOf(c, n), LastOf(u, n))
  <1>1. PICK a \in Seq(Entry), b \in Seq(Entry), l \in Seq(Entry) :
          /\ c = a \o l /\ u = b \o l
          /\ \A e \in EntriesOf(a) \cup EntriesOf(b) : Old(e)
          /\ \A e \in EntriesOf(l) : ~Old(e)
    BY DEF Agree
  <1>2. /\ LastOf(c, n) = IF Len(l) >= n THEN LastOf(l, n) ELSE LastOf(a, n - Len(l)) \o l
        /\ LastOf(u, n) = IF Len(l) >= n THEN LastOf(l, n) ELSE LastOf(b, n - Len(l)) \o l
    BY <1>1, LastOfConcat
  <1>3. CASE Len(l) >= n
    <2> DEFINE m == LastOf(l, n)
    <2>1. m \in Seq(Entry) /\ EntriesOf(m) \subseteq EntriesOf(l)
      BY LastOfIs, LastOfWithin
    <2>2. <<>> \in Seq(Entry) /\ <<>> \o m = m /\ EntriesOf(<<>>) = {}
      BY <2>1, ConcatEmptySeq DEF EntriesOf
    <2>3. LastOf(c, n) = m /\ LastOf(u, n) = m
      BY <1>2, <1>3
    <2> HIDE DEF m
    <2> QED
      BY <1>1, <2>1, <2>2, <2>3 DEF Agree
  <1>4. CASE ~(Len(l) >= n)
    <2> DEFINE x == LastOf(a, n - Len(l))
               y == LastOf(b, n - Len(l))
    <2>1. n - Len(l) \in Nat \ {0}
      BY <1>4
    <2>2. x \in Seq(Entry) /\ y \in Seq(Entry) /\ EntriesOf(x) \subseteq EntriesOf(a) /\ EntriesOf(y) \subseteq EntriesOf(b)
      BY <2>1, LastOfIs, LastOfWithin
    <2>3. LastOf(c, n) = x \o l /\ LastOf(u, n) = y \o l
      BY <1>2, <1>4
    <2> HIDE DEF x, y
    <2> QED
      BY <1>1, <2>2, <2>3 DEF Agree
  <1> QED
    BY <1>3, <1>4

LEMMA KeepAgree ==
  ASSUME NEW c, NEW u, Agree(c, u), NEW A, NEW B,
         \A e \in EntriesOf(c) \cap EntriesOf(u) : e \in A <=> e \in B
  PROVE  Agree(Keep(c, A), Keep(u, B))
  <1>1. PICK a \in Seq(Entry), b \in Seq(Entry), l \in Seq(Entry) :
          /\ c = a \o l /\ u = b \o l
          /\ \A e \in EntriesOf(a) \cup EntriesOf(b) : Old(e)
          /\ \A e \in EntriesOf(l) : ~Old(e)
    BY DEF Agree
  <1>2. EntriesOf(c) = EntriesOf(a) \cup EntriesOf(l) /\ EntriesOf(u) = EntriesOf(b) \cup EntriesOf(l)
    BY <1>1, EntriesConcat
  <1>3. Keep(c, A) = Keep(a, A) \o Keep(l, A) /\ Keep(u, B) = Keep(b, B) \o Keep(l, B)
    <2>1. Keep(a \o l, A) = Keep(a, A) \o Keep(l, A)
      BY KeepConcats, SMTT(30)
    <2>2. Keep(b \o l, B) = Keep(b, B) \o Keep(l, B)
      BY KeepConcats, SMTT(30)
    <2> QED
      BY <1>1, <2>1, <2>2
  <1>4. Keep(l, A) = Keep(l, B)
    BY <1>2, KeepsSame
  <1>5. /\ Keep(a, A) \in Seq(Entry) /\ Keep(b, B) \in Seq(Entry) /\ Keep(l, A) \in Seq(Entry)
        /\ EntriesOf(Keep(a, A)) \subseteq EntriesOf(a) /\ EntriesOf(Keep(b, B)) \subseteq EntriesOf(b)
        /\ EntriesOf(Keep(l, A)) \subseteq EntriesOf(l)
    BY KeepTyped, KeptEntries
  <1> DEFINE x == Keep(a, A)
             y == Keep(b, B)
             z == Keep(l, A)
  <1>6. /\ Keep(c, A) = x \o z /\ Keep(u, B) = y \o z
        /\ x \in Seq(Entry) /\ y \in Seq(Entry) /\ z \in Seq(Entry)
        /\ \A e \in EntriesOf(x) \cup EntriesOf(y) : Old(e)
        /\ \A e \in EntriesOf(z) : ~Old(e)
    BY <1>1, <1>3, <1>4, <1>5
  <1> HIDE DEF x, y, z
  <1> QED
    BY <1>6 DEF Agree

\* Expired entries are no loss.
LEMMA DropAgree ==
  ASSUME NEW c, NEW u, Agree(c, u), NEW A, \A e \in EntriesOf(c) : e \in A \/ Old(e)
  PROVE  Agree(Keep(c, A), u)
  <1>1. PICK a \in Seq(Entry), b \in Seq(Entry), l \in Seq(Entry) :
          /\ c = a \o l /\ u = b \o l
          /\ \A e \in EntriesOf(a) \cup EntriesOf(b) : Old(e)
          /\ \A e \in EntriesOf(l) : ~Old(e)
    BY DEF Agree
  <1>2. EntriesOf(c) = EntriesOf(a) \cup EntriesOf(l)
    BY <1>1, EntriesConcat
  <1>3. EntriesOf(l) \subseteq A
    BY <1>1, <1>2
  <1>4. Keep(c, A) = Keep(a, A) \o Keep(l, A) /\ Keep(l, A) = l
    BY <1>1, <1>3, KeepConcats, KeepsAll, SMTT(30)
  <1> DEFINE x == Keep(a, A)
  <1>5. Keep(c, A) = x \o l /\ x \in Seq(Entry) /\ \A e \in EntriesOf(x) : Old(e)
    BY <1>1, <1>4, KeepTyped, KeptEntries
  <1> HIDE DEF x
  <1> QED
    BY <1>1, <1>5 DEF Agree

LEMMA AppendAgree ==
  ASSUME NEW c, NEW u, Agree(c, u), NEW e \in Entry, ~Old(e)
  PROVE  Agree(Append(c, e), Append(u, e))
  <1>1. PICK a \in Seq(Entry), b \in Seq(Entry), l \in Seq(Entry) :
          /\ c = a \o l /\ u = b \o l
          /\ \A d \in EntriesOf(a) \cup EntriesOf(b) : Old(d)
          /\ \A d \in EntriesOf(l) : ~Old(d)
    BY DEF Agree
  <1> DEFINE z == Append(l, e)
  <1>2. z \in Seq(Entry) /\ EntriesOf(z) = EntriesOf(l) \cup {e}
    BY EntriesAppend
  <1>3. Append(c, e) = a \o z /\ Append(u, e) = b \o z
    <2>1. a \o Append(l, e) = Append(a \o l, e)
      BY ConcatAppends
    <2>2. b \o Append(l, e) = Append(b \o l, e)
      BY ConcatAppends
    <2> QED
      BY <1>1, <2>1, <2>2
  <1>4. \A d \in EntriesOf(z) : ~Old(d)
    BY <1>1, <1>2
  <1> HIDE DEF z
  <1> QED
    BY <1>1, <1>2, <1>3, <1>4 DEF Agree

LEMMA EntryOfIs ==
  ASSUME NEW s, InOrder(s)
  PROVE  /\ \A e \in EntriesOf(s) : e.key \in KeysOf(s) /\ EntryOf(s, e.key) = e
         /\ \A k \in KeysOf(s) : EntryOf(s, k) \in EntriesOf(s) /\ EntryOf(s, k).key = k
  <1>1. s \in Seq(Entry) /\ DOMAIN s = 1..Len(s) /\ Len(s) \in Nat
    BY EntriesTyped DEF InOrder
  <1>2. \A i, j \in 1..Len(s) : s[i].key = s[j].key => i = j
    <2>1. \A i, j \in 1..Len(s) : i < j => s[i].key # s[j].key
      BY DEF InOrder
    <2>2. \A i, j \in 1..Len(s) : i < j \/ i = j \/ j < i
      BY <1>1
    <2> QED
      BY <2>1, <2>2
  <1>3. ASSUME NEW k, NEW i \in 1..Len(s), s[i].key = k
        PROVE  EntryOf(s, k) = s[i]
    <2>1. (CHOOSE j \in DOMAIN s : s[j].key = k) = i
      BY <1>1, <1>2, <1>3
    <2> QED
      BY <2>1 DEF EntryOf
  <1>4. ASSUME NEW e \in EntriesOf(s) PROVE e.key \in KeysOf(s) /\ EntryOf(s, e.key) = e
    <2>1. PICK i \in 1..Len(s) : s[i] = e
      BY <1>1, EntriesTyped
    <2> QED
      BY <1>1, <1>3, <2>1 DEF KeysOf
  <1>5. ASSUME NEW k \in KeysOf(s) PROVE EntryOf(s, k) \in EntriesOf(s) /\ EntryOf(s, k).key = k
    <2>1. PICK i \in 1..Len(s) : s[i].key = k
      BY <1>1 DEF KeysOf
    <2>2. EntryOf(s, k) = s[i]
      BY <1>3, <2>1
    <2> QED
      BY <1>1, <2>1, <2>2 DEF EntriesOf
  <1> QED
    BY <1>4, <1>5

\* What the cache and the reference hold of a session is the same as long as it lives.
LEMMA BoundIs ==
  ASSUME SessionsInv, NEW k
  PROVE  /\ Bound(k) <=> k \in KeysOf(uses) /\ ~Old(EntryOf(uses, k))
         /\ Bound(k) => EntryOf(uses, k) = EntryOf(cache, k)
  <1>1. InOrder(cache) /\ InOrder(uses)
    BY DEF SessionsInv
  <1>2. PICK a \in Seq(Entry), b \in Seq(Entry), l \in Seq(Entry) :
          /\ cache = a \o l /\ uses = b \o l
          /\ \A e \in EntriesOf(a) \cup EntriesOf(b) : Old(e)
          /\ \A e \in EntriesOf(l) : ~Old(e)
    BY DEF SessionsInv, Agree
  <1>3. EntriesOf(cache) = EntriesOf(a) \cup EntriesOf(l) /\ EntriesOf(uses) = EntriesOf(b) \cup EntriesOf(l)
    BY <1>2, EntriesConcat
  <1>4. ASSUME k \in KeysOf(cache), ~Old(EntryOf(cache, k))
        PROVE  k \in KeysOf(uses) /\ EntryOf(uses, k) = EntryOf(cache, k)
    <2>1. EntryOf(cache, k) \in EntriesOf(l) /\ EntryOf(cache, k).key = k
      BY <1>1, <1>2, <1>3, <1>4, EntryOfIs
    <2>2. EntryOf(cache, k) \in EntriesOf(uses)
      BY <1>3, <2>1
    <2> QED
      BY <1>1, <2>1, <2>2, EntryOfIs
  <1>5. ASSUME k \in KeysOf(uses), ~Old(EntryOf(uses, k))
        PROVE  k \in KeysOf(cache) /\ EntryOf(uses, k) = EntryOf(cache, k)
    <2>1. EntryOf(uses, k) \in EntriesOf(l) /\ EntryOf(uses, k).key = k
      BY <1>1, <1>2, <1>3, <1>5, EntryOfIs
    <2>2. EntryOf(uses, k) \in EntriesOf(cache)
      BY <1>3, <2>1
    <2> QED
      BY <1>1, <2>1, <2>2, EntryOfIs
  <1> QED
    BY <1>4, <1>5 DEF Bound, Old

\* At the time t.
LateAt(e, t, ttl) == t - e.at >= ttl

\* What is expired at the time t, and what is not.
Splits(l, x, y, t, ttl) ==
  /\ l = x \o y
  /\ \A e \in EntriesOf(x) : LateAt(e, t, ttl)
  /\ \A e \in EntriesOf(y) : ~LateAt(e, t, ttl)

\* The expired come first.
LEMMA OldGrow ==
  ASSUME NEW a \in Seq(Entry), NEW l \in Seq(Entry), InOrder(a \o l), NEW t \in Nat, NEW ttl \in Nat
  PROVE  \E x, y \in Seq(Entry) : Splits(l, x, y, t, ttl)
  <1> DEFINE n == Len(l)
             Late(i) == LateAt(l[i], t, ttl)
             T == {i \in 1..n : ~Late(i)}
  <1>1. n \in Nat /\ \A i \in 1..n : l[i] \in Entry /\ l[i].at \in Nat
    <2>1. n \in Nat /\ \A i \in 1..n : l[i] \in Entry
      BY EntriesTyped
    <2>2. \A e \in Entry : e.at \in Nat
      BY DEF Entry
    <2> QED
      BY <2>1, <2>2
  <1>2. \A i, j \in 1..n : i < j => l[i].at <= l[j].at
    <2> DEFINE p == Len(a)
    <2>1. /\ p \in Nat /\ Len(a \o l) = p + n
          /\ \A i \in 1..p + n : (a \o l)[i] = IF i <= p THEN a[i] ELSE l[i - p]
      BY ConcatProperties
    <2>2. \A i, j \in 1..p + n : i < j => (a \o l)[i].at <= (a \o l)[j].at
      BY <2>1 DEF InOrder
    <2> HIDE DEF p, n
    <2>3. \A i \in 1..n : p + i \in 1..p + n /\ ~(p + i <= p) /\ (p + i) - p = i
      BY <1>1, <2>1
    <2>4. \A i \in 1..n : p + i \in 1..p + n /\ (a \o l)[p + i] = l[i]
      BY <2>1, <2>3
    <2>5. \A i, j \in 1..n : i < j => p + i < p + j
      BY <1>1, <2>1
    <2> QED
      BY <2>2, <2>4, <2>5
  <1>3. CASE T = {}
    <2>1. \A i \in 1..n : Late(i)
      BY <1>3
    <2>2. \A e \in EntriesOf(l) : LateAt(e, t, ttl)
      BY <2>1, EntriesTyped
    <2>3. l \o <<>> = l /\ <<>> \in Seq(Entry) /\ EntriesOf(<<>>) = {}
      BY ConcatEmptySeq DEF EntriesOf
    <2> QED
      BY <2>2, <2>3 DEF Splits
  <1>4. CASE T # {}
    <2>1. PICK m \in T : \A i \in T : m <= i
      <3>1. T \in SUBSET Nat
        OBVIOUS
      <3> HIDE DEF T
      <3> QED
        BY <1>4, <3>1, LeastOf
    <2> DEFINE x == SubSeq(l, 1, m - 1)
               y == SubSeq(l, m, n)
    <2>2. m \in 1..n /\ ~Late(m)
      OBVIOUS
    <2>3. /\ x \in Seq(Entry) /\ Len(x) = m - 1 /\ \A i \in 1..m - 1 : x[i] = l[i]
          /\ y \in Seq(Entry) /\ Len(y) = n - m + 1 /\ \A i \in 1..n - m + 1 : y[i] = l[m + i - 1]
      BY <1>1, <2>2
    <2>4. x \o y = l
      <3> DEFINE z == x \o y
      <3>1. /\ z \in Seq(Entry) /\ Len(z) = Len(x) + Len(y)
            /\ \A i \in 1..Len(x) + Len(y) : z[i] = IF i <= Len(x) THEN x[i] ELSE y[i - Len(x)]
        BY <2>3, ConcatProperties
      <3> HIDE DEF z, x, y, n
      <3>2. Len(z) = n /\ Len(x) + Len(y) = n
        BY <1>1, <2>2, <2>3, <3>1
      <3>3. ASSUME NEW i \in 1..n PROVE z[i] = l[i]
        <4>1. CASE i <= m - 1
          <5>1. i \in 1..m - 1 /\ i \in 1..Len(x) + Len(y) /\ i <= Len(x)
            BY <2>2, <2>3, <3>2, <4>1
          <5>2. z[i] = x[i] /\ x[i] = l[i]
            BY <2>3, <3>1, <5>1
          <5> QED
            BY <5>2
        <4>2. CASE ~(i <= m - 1)
          <5>1. i - (m - 1) \in 1..n - m + 1 /\ m + (i - (m - 1)) - 1 = i
            BY <1>1, <2>2, <4>2
          <5>2. z[i] = y[i - (m - 1)]
            BY <2>3, <3>1, <3>2, <4>2
          <5>3. y[i - (m - 1)] = l[m + (i - (m - 1)) - 1]
            BY <2>3, <5>1
          <5> QED
            BY <5>1, <5>2, <5>3
        <4> QED
          BY <4>1, <4>2
      <3>4. z = l
        BY <3>1, <3>2, <3>3, SeqEqual DEF n
      <3> QED
        BY <3>4 DEF z
    <2>5. \A i \in 1..m - 1 : Late(i)
      <3>1. ASSUME NEW i \in 1..m - 1 PROVE i \notin T /\ i \in 1..n
        BY <1>1, <2>1, <2>2
      <3> QED
        BY <3>1
    <2>6. \A i \in 1..n - m + 1 : ~LateAt(y[i], t, ttl)
      <3>1. ASSUME NEW i \in 1..n - m + 1 PROVE ~LateAt(y[i], t, ttl)
        <4>1. PICK j \in 1..n : j = m + i - 1 /\ (j = m \/ m < j)
          BY <1>1, <2>2
        <4>2. y[i] = l[j]
          BY <2>3, <4>1
        <4> HIDE DEF n, T, x, y
        <4>3. l[m].at \in Nat /\ l[j].at \in Nat
          BY <1>1, <2>2
        <4>4. l[m].at <= l[j].at
          <5>1. CASE j = m
            BY <4>3, <5>1
          <5>2. CASE m < j
            BY <1>2, <2>2, <5>2
          <5> QED
            BY <4>1, <5>1, <5>2
        <4>5. ~LateAt(l[m], t, ttl)
          BY <2>2, Zenon
        <4>6. \A a1, a2 \in Nat : ~(t - a1 >= ttl) /\ a1 <= a2 => ~(t - a2 >= ttl)
          OBVIOUS
        <4>7. ~LateAt(l[j], t, ttl)
          BY <4>3, <4>4, <4>5, <4>6, Zenon DEF LateAt
        <4> QED
          BY <4>2, <4>7, Zenon
      <3> QED
        BY <3>1
    <2>7. \A e \in EntriesOf(x) : LateAt(e, t, ttl)
      <3> HIDE DEF x
      <3>1. \A e \in EntriesOf(x) : \E i \in 1..m - 1 : x[i] = e
        <4>1. x \in Seq(Entry) /\ Len(x) = m - 1
          BY <2>3
        <4>2. \A e \in EntriesOf(x) : \E i \in 1..Len(x) : x[i] = e
          BY <4>1, EntryAt
        <4> QED
          BY <4>1, <4>2, Zenon
      <3>2. \A i \in 1..m - 1 : LateAt(x[i], t, ttl)
        BY <2>3, <2>5
      <3> QED
        BY <3>1, <3>2, Zenon
    <2>8. \A e \in EntriesOf(y) : ~LateAt(e, t, ttl)
      <3> HIDE DEF y
      <3>1. \A e \in EntriesOf(y) : \E i \in 1..n - m + 1 : y[i] = e
        <4>1. y \in Seq(Entry) /\ Len(y) = n - m + 1
          BY <2>3
        <4>2. \A e \in EntriesOf(y) : \E i \in 1..Len(y) : y[i] = e
          BY <4>1, EntryAt
        <4> QED
          BY <4>1, <4>2, Zenon
      <3> QED
        BY <2>6, <3>1
    <2> QED
      BY <2>3, <2>4, <2>7, <2>8 DEF Splits
  <1> QED
    BY <1>3, <1>4

-----------------------------------------------------------------------------
(* Rendezvous hashing *)

LEMMA ScoresCompare ==
  ASSUME NEW a \in Nat \ {0}, NEW b \in Nat \ {0}, NEW d \in Nat \ {0},
         NEW u \in Nat \ {0}, NEW v \in Nat \ {0}, NEW w \in Nat \ {0},
         a * v <= b * u, b * w <= d * v
  PROVE  a * w <= d * u
  <1>1. a * v \in Int /\ b * u \in Int /\ b * w \in Int /\ d * v \in Int /\ a * w \in Int /\ d * u \in Int
    OBVIOUS
  <1>2. w * (a * v) <= w * (b * u)
    BY <1>1, Times
  <1>3. u * (b * w) <= u * (d * v)
    BY <1>1, Times
  <1>4. w * (a * v) = v * (a * w) /\ w * (b * u) = u * (b * w) /\ u * (d * v) = v * (d * u)
    OBVIOUS
  <1>5. v * (a * w) <= v * (d * u)
    BY <1>2, <1>3, <1>4
  <1> QED
    BY <1>1, <1>5, Cancels

\* Some candidate has the lowest score.
LEMMA RendezvousIs ==
  ASSUME BalancerTyped, NEW members \in SUBSET Catalog, members # {}, NEW k \in Sessions
  PROVE  Rendezvous(k, members) \in members
  <1> DEFINE Score(c, d) == Hash[k][c] * weight[d]
             before(c, d) == Score(c, d) < Score(d, c)
             Before(c, d) == before(c, d) \/ (~before(d, c) /\ c <= d)
             Best(A) == \E c \in A : \A d \in A : Before(c, d)
             Bad == {A \in SUBSET members : A # {} /\ ~Best(A)}
  <1>1. \A c \in members : Hash[k][c] \in Nat \ {0} /\ weight[c] \in Nat \ {0} /\ c \in Int
    <2>1. Hash[k] \in [Catalog -> Nat \ {0}] /\ weight \in [Catalog -> Weights] /\ Weights \subseteq Nat \ {0}
      BY LoadBalancerAssumption DEF BalancerTyped
    <2>2. \A c \in members : c \in Catalog /\ c \in Int
      BY LoadBalancerAssumption DEF Catalog
    <2> QED
      BY <2>1, <2>2
  <1>2. IsFiniteSet(members) /\ Bad \in SUBSET SUBSET members
    BY CatalogSets
  <1>3. \A c, d \in members : Score(c, d) \in Int
    BY <1>1
  <1>4. ASSUME NEW x \in members, NEW c \in members, NEW d \in members,
               Score(x, c) <= Score(c, x), Score(c, d) <= Score(d, c)
        PROVE  Score(x, d) <= Score(d, x)
    BY <1>1, <1>4, ScoresCompare
  <1> HIDE DEF Score
  <1>5. ASSUME NEW x \in members, NEW c \in members, NEW d \in members, Before(x, c), Before(c, d)
        PROVE  Before(x, d)
    <2>1. Score(x, d) \in Int /\ Score(d, x) \in Int /\ Score(x, c) \in Int /\ Score(c, x) \in Int
          /\ Score(c, d) \in Int /\ Score(d, c) \in Int
      BY <1>3
    <2>2. Score(x, c) <= Score(c, x) /\ Score(c, d) <= Score(d, c)
      BY <1>5, <2>1
    <2>3. Score(x, d) <= Score(d, x)
      BY <1>4, <2>2
    <2>4. CASE Score(d, x) <= Score(x, d)
      <3>1. Score(d, c) <= Score(c, d)
        BY <1>4, <2>2, <2>4
      <3>2. Score(c, x) <= Score(x, c)
        BY <1>4, <2>2, <2>4
      <3>3. x <= c /\ c <= d
        BY <1>5, <2>1, <3>1, <3>2
      <3> QED
        BY <1>1, <2>1, <2>3, <3>3
    <2> QED
      BY <2>1, <2>3, <2>4
  <1>6. \A c, d \in members : Before(c, d) \/ Before(d, c)
    BY <1>1, <1>3
  <1>7. Bad = {}
    <2> SUFFICES ASSUME Bad # {} PROVE FALSE
      OBVIOUS
    <2>1. PICK A \in Bad : \A B \in Bad : B \subseteq A => B = A
      <3> HIDE DEF Bad
      <3> QED
        BY <1>2, SmallestOf
    <2>2. PICK x \in A : TRUE
      OBVIOUS
    <2>3. A \subseteq members
      OBVIOUS
    <2> HIDE DEF Before
    <2>4. A \ {x} = {} \/ Best(A \ {x})
      <3>1. A \ {x} \in SUBSET members /\ A \ {x} \subseteq A /\ A \ {x} # A
        BY <2>3
      <3>2. A \ {x} \notin Bad
        BY <2>1, <3>1
      <3> QED
        BY <3>1, <3>2
    <2>5. Before(x, x)
      BY <1>6, <2>3
    <2>6. CASE A \ {x} = {}
      <3>1. \A d \in A : Before(x, d)
        BY <2>5, <2>6
      <3> QED
        BY <3>1
    <2>7. CASE Best(A \ {x})
      <3>1. PICK c \in A \ {x} : \A d \in A \ {x} : Before(c, d)
        BY <2>7
      <3>2. (\A d \in A : Before(c, d)) \/ (\A d \in A : Before(x, d))
        <4>1. Before(c, x) \/ Before(x, c)
          BY <1>6, <2>3
        <4>2. Before(x, c) => \A d \in A \ {x} : Before(x, d)
          BY <1>5, <2>3, <3>1
        <4> QED
          BY <2>5, <3>1, <4>1, <4>2
      <3> QED
        BY <3>1, <3>2
    <2> QED
      BY <2>4, <2>6, <2>7
  <1>8. PICK c \in members : \A d \in members : Before(c, d)
    <2>1. members \notin Bad
      BY <1>7
    <2> QED
      BY <2>1
  <1> QED
    BY <1>8 DEF Rendezvous, Before, Score

-----------------------------------------------------------------------------
(* What a selection does to the cache *)

\* Forgetting an entry shortens a sequence.
LEMMA KeepShorter ==
  ASSUME NEW S, NEW s \in Seq(S), NEW A, NEW e \in EntriesOf(s), e \notin A
  PROVE  Len(Keep(s, A)) < Len(s)
  <1> DEFINE Bad == {t \in Seq(S) : e \in EntriesOf(t) /\ ~(Len(Keep(t, A)) < Len(t))}
  <1> SUFFICES ASSUME Bad # {} PROVE FALSE
    OBVIOUS
  <1>1. Bad \in SUBSET Seq(S)
    OBVIOUS
  <1>2. PICK w \in Bad : w = <<>> \/ \E t \in Seq(S), d \in S : w = Append(t, d) /\ t \notin Bad
    <2> HIDE DEF Bad
    <2> QED
      BY <1>1, ShortestOf
  <1>3. w # <<>>
    BY DEF EntriesOf
  <1>4. PICK t \in Seq(S), d \in S : w = Append(t, d) /\ t \notin Bad
    BY <1>2, <1>3
  <1>5. /\ Keep(t, A) \in Seq(S) /\ Len(t) \in Nat /\ Len(Keep(t, A)) \in Nat /\ Len(Keep(t, A)) <= Len(t)
        /\ Len(w) = Len(t) + 1 /\ EntriesOf(w) = EntriesOf(t) \cup {d}
        /\ Len(Append(Keep(t, A), d)) = Len(Keep(t, A)) + 1
    BY <1>4, KeepTyped, KeptWithin, EntriesAppend DEF Within
  <1>6. Keep(w, A) = IF d \in A THEN Append(Keep(t, A), d) ELSE Keep(t, A)
    BY <1>4, KeepAppends
  <1>7. CASE d \in A
    <2>1. e \in EntriesOf(t)
      BY <1>5, <1>7
    <2>2. Len(Keep(t, A)) < Len(t)
      BY <1>4, <2>1
    <2> QED
      BY <1>5, <1>6, <1>7, <2>2
  <1>8. CASE d \notin A
    BY <1>5, <1>6, <1>8
  <1> QED
    BY <1>7, <1>8

\* Trimming drops expired entries, and then the oldest.
LEMMA TrimmedIs ==
  ASSUME NEW s, InOrder(s), NEW lim
  PROVE  \E A : /\ Trimmed(s, lim) = LastOf(Keep(s, A), lim.capacity)
                /\ \A e \in EntriesOf(s) : e \in A \/ Expired(e, lim.ttl)
  <1> DEFINE gone == {e \in EntriesOf(s) : Expired(e, lim.ttl)}
             stale == Keep(s, gone)
             m == IF Len(stale) < TrimBatch THEN Len(stale) ELSE TrimBatch
             first == SubSeq(stale, 1, m)
             A == {e \in EntriesOf(s) : e.key \notin KeysOf(first)}
  <1>1. Trimmed(s, lim) = LastOf(Keep(s, A), lim.capacity)
    BY DEF Trimmed
  <1>2. s \in Seq(Entry) /\ stale \in Seq(Entry) /\ EntriesOf(stale) \subseteq EntriesOf(s) \cap gone
    BY KeepTyped, KeptEntries DEF InOrder
  <1>3. ASSUME NEW e \in EntriesOf(s), e \notin A PROVE Expired(e, lim.ttl)
    <2> HIDE DEF stale, gone
    <2>1. Len(stale) \in Nat /\ m \in Nat /\ m <= Len(stale)
      BY <1>2, SessionStickyAssumption
    <2> HIDE DEF m
    <2>2. Len(first) = m /\ DOMAIN first = 1..m /\ \A i \in 1..m : first[i] = stale[i]
      BY <1>2, <2>1
    <2>3. PICK i \in 1..m : stale[i].key = e.key
      <3>1. e.key \in KeysOf(first)
        BY <1>3
      <3> QED
        BY <2>2, <3>1 DEF KeysOf
    <2>4. stale[i] \in EntriesOf(stale)
      BY <1>2, <2>1, EntriesTyped
    <2>5. stale[i] = e
      BY <1>2, <2>3, <2>4, EntryOfIs
    <2> QED
      BY <1>2, <2>4, <2>5 DEF gone
  <1> HIDE DEF A
  <1> QED
    BY <1>1, <1>3

LEMMA LastOfAppend ==
  ASSUME NEW s \in Seq(Entry), NEW e \in Entry, NEW n \in Nat \ {0}
  PROVE  e \in EntriesOf(LastOf(Append(s, e), n))
  <1> DEFINE t == Append(s, e)
             l == LastOf(t, n)
  <1>1. t \in Seq(Entry) /\ Len(t) \in Nat \ {0} /\ t[Len(t)] = e
    OBVIOUS
  <1> HIDE DEF t
  <1>2. l \in Seq(Entry) /\ Len(l) \in 1..Len(t) /\ \A i \in 1..Len(l) : l[i] = t[i + (Len(t) - Len(l))]
    BY <1>1, LastOfIs
  <1> HIDE DEF l
  <1>3. Len(l) \in 1..Len(l) /\ Len(l) + (Len(t) - Len(l)) = Len(t)
    BY <1>1, <1>2
  <1>4. l[Len(l)] = e
    BY <1>1, <1>2, <1>3
  <1>5. e \in EntriesOf(l)
    BY <1>2, <1>3, <1>4, EntriesTyped
  <1> QED
    BY <1>5 DEF l, t

LEMMA WithoutIs ==
  ASSUME NEW s, InOrder(s), NEW k
  PROVE  /\ InOrder(Without(s, k)) /\ Without(s, k) \in Seq(Entry) /\ Len(Without(s, k)) <= Len(s)
         /\ \A e \in EntriesOf(Without(s, k)) : e.key # k
         /\ k \in KeysOf(s) => Len(Without(s, k)) < Len(s)
  <1> DEFINE A == {e \in EntriesOf(s) : e.key # k}
  <1>1. s \in Seq(Entry)
    BY DEF InOrder
  <1>2. Without(s, k) = Keep(s, A)
    BY DEF Without
  <1>3. EntriesOf(Keep(s, A)) \subseteq A
    BY <1>1, KeptEntries
  <1>4. ASSUME k \in KeysOf(s) PROVE Len(Keep(s, A)) < Len(s)
    <2>1. EntryOf(s, k) \in EntriesOf(s) /\ EntryOf(s, k) \notin A
      BY <1>4, EntryOfIs
    <2> QED
      BY <1>1, <2>1, KeepShorter
  <1> QED
    BY <1>2, <1>3, <1>4, KeepInOrder

\* Without k there is nothing of k to leave out.
LEMMA WithoutAgain ==
  ASSUME NEW s \in Seq(Entry), NEW k, \A e \in EntriesOf(s) : e.key # k
  PROVE  /\ Without(s, k) = s
         /\ \A e \in Entry : e.key = k => Without(Append(s, e), k) = s
  <1>1. Without(s, k) = s
    BY KeepsAll DEF Without
  <1>2. ASSUME NEW e \in Entry, e.key = k PROVE Without(Append(s, e), k) = s
    <2> DEFINE t == Append(s, e)
               A == {d \in EntriesOf(t) : d.key # k}
    <2>1. EntriesOf(t) = EntriesOf(s) \cup {e}
      BY EntriesAppend
    <2>2. e \notin A /\ EntriesOf(s) \subseteq A
      BY <1>2, <2>1
    <2>3. Keep(t, A) = Keep(s, A)
      <3> HIDE DEF A
      <3> QED
        BY <2>2, KeepAppends
    <2>4. Keep(s, A) = s
      <3> HIDE DEF A
      <3> QED
        BY <2>2, KeepsAll
    <2> QED
      BY <2>3, <2>4 DEF Without
  <1> QED
    BY <1>1, <1>2

UseNow(k, c) == [key |-> k, ch |-> c, at |-> now]

\* A use after a lookup is a use.
LEMMA UseIs ==
  ASSUME SessionsInv, NEW k \in Sessions, NEW c \in Catalog
  PROVE  /\ UseNow(k, c) \in Entry /\ ~Old(UseNow(k, c))
         /\ Use(AfterGet(k), k, c) = Append(Without(cache, k), UseNow(k, c))
         /\ Use(uses, k, c) = Append(Without(uses, k), UseNow(k, c))
         /\ (Bound(k) /\ EntryOf(cache, k).ch = c) => AfterGet(k) = Append(Without(cache, k), UseNow(k, c))
  <1>1. now \in Nat /\ limits.ttl \in Nat \ {0} /\ InOrder(cache)
    BY DEF SessionsInv, SessionsTyped
  <1>2. UseNow(k, c) \in Entry /\ ~Old(UseNow(k, c))
    BY <1>1 DEF UseNow, Entry, Old, Expired
  <1> DEFINE W == Without(cache, k)
             last == EntryOf(cache, k).ch
  <1>3. W \in Seq(Entry) /\ \A e \in EntriesOf(W) : e.key # k
    BY <1>1, WithoutIs
  <1>4. Bound(k) => last \in Catalog
    <2> SUFFICES ASSUME Bound(k) PROVE last \in Catalog
      OBVIOUS
    <2>1. EntryOf(cache, k) \in EntriesOf(cache)
      BY <1>1, EntryOfIs DEF Bound
    <2>2. EntryOf(cache, k) \in Entry
      BY <1>1, <2>1, EntriesTyped DEF InOrder
    <2> QED
      BY <2>2 DEF Entry
  <1>5. AfterGet(k) = IF Bound(k) THEN Append(W, UseNow(k, last)) ELSE W
    BY DEF AfterGet, Use, UseNow
  <1> HIDE DEF W
  <1>6. Without(AfterGet(k), k) = W
    <2>1. CASE Bound(k)
      <3>1. UseNow(k, last) \in Entry /\ UseNow(k, last).key = k
        BY <1>1, <1>4, <2>1 DEF UseNow, Entry
      <3> HIDE DEF last
      <3> QED
        BY <1>3, <1>5, <2>1, <3>1, WithoutAgain
    <2>2. CASE ~Bound(k)
      BY <1>3, <1>5, <2>2, WithoutAgain
    <2> QED
      BY <2>1, <2>2
  <1>7. Use(AfterGet(k), k, c) = Append(Without(AfterGet(k), k), UseNow(k, c))
    BY DEF Use, UseNow
  <1>8. Use(uses, k, c) = Append(Without(uses, k), UseNow(k, c))
    BY DEF Use, UseNow
  <1> QED
    BY <1>2, <1>5, <1>6, <1>7, <1>8 DEF W

-----------------------------------------------------------------------------
(* Actions on the cache *)

\* The selection of channel c for session k.
LEMMA RememberKeeps ==
  ASSUME SessionsInv, NEW k \in Sessions, NEW c \in Catalog, Remember(k, c)
  PROVE  SessionsInv' /\ EntryOf(cache', k).ch = c
  <1> DEFINE e == UseNow(k, c)
             n == limits.capacity
             V == Without(cache, k)
             W == Without(uses, k)
  <1>1. /\ now \in Nat /\ n \in Nat \ {0} /\ SessionsTyped
        /\ InOrder(cache) /\ InOrder(uses) /\ Agree(cache, uses) /\ Len(uses) <= n
    BY DEF SessionsInv, SessionsTyped
  <1>2. now' = now /\ limits' = limits
    BY DEF Remember
  <1>3. e \in Entry /\ ~Old(e) /\ e.key = k /\ e.at = now /\ e.ch = c
    <2>1. e.key = k /\ e.at = now /\ e.ch = c
      BY DEF UseNow
    <2>2. UseNow(k, c) \in Entry /\ ~Old(UseNow(k, c))
      BY UseIs
    <2> QED
      BY <2>1, <2>2
  <1>4. /\ Use(AfterGet(k), k, c) = Append(V, e)
        /\ Use(uses, k, c) = Append(W, e)
        /\ (Bound(k) /\ EntryOf(cache, k).ch = c) => AfterGet(k) = Append(V, e)
    BY UseIs
  <1>5. /\ cache' = IF Bound(k) /\ EntryOf(cache, k).ch = c THEN Append(V, e) ELSE Trimmed(Append(V, e), limits)
        /\ uses' = LastOf(Append(W, e), n)
    BY <1>4 DEF Remember
  <1> HIDE DEF e
  <1>6. /\ V \in Seq(Entry) /\ InOrder(Append(V, e)) /\ Append(V, e) \in Seq(Entry)
        /\ W \in Seq(Entry) /\ InOrder(Append(W, e)) /\ Append(W, e) \in Seq(Entry)
    <2>1. V \in Seq(Entry) /\ InOrder(V) /\ \A d \in EntriesOf(V) : d.key # e.key
      BY <1>1, <1>3, WithoutIs
    <2>2. W \in Seq(Entry) /\ InOrder(W) /\ \A d \in EntriesOf(W) : d.key # e.key
      BY <1>1, <1>3, WithoutIs
    <2> HIDE DEF V, W
    <2>3. InOrder(Append(V, e)) /\ Append(V, e) \in Seq(Entry)
      BY <1>1, <1>3, <2>1, AppendInOrder
    <2>4. InOrder(Append(W, e)) /\ Append(W, e) \in Seq(Entry)
      BY <1>1, <1>3, <2>2, AppendInOrder
    <2> QED
      BY <2>1, <2>2, <2>3, <2>4
  <1>7. Agree(Append(V, e), Append(W, e))
    <2>1. Agree(V, W)
      <3> DEFINE A == {d \in EntriesOf(cache) : d.key # k}
                 B == {d \in EntriesOf(uses) : d.key # k}
      <3>1. V = Keep(cache, A) /\ W = Keep(uses, B)
        BY DEF Without
      <3>2. \A d \in EntriesOf(cache) \cap EntriesOf(uses) : d \in A <=> d \in B
        OBVIOUS
      <3> HIDE DEF A, B, V, W
      <3>3. Agree(Keep(cache, A), Keep(uses, B))
        BY <1>1, <3>2, KeepAgree
      <3> QED
        BY <3>1, <3>3
    <2> HIDE DEF V, W
    <2> QED
      BY <1>3, <2>1, AppendAgree
  <1>8. /\ LastOf(Append(W, e), n) \in Seq(Entry) /\ InOrder(LastOf(Append(W, e), n))
        /\ Len(LastOf(Append(W, e), n)) <= n
    <2> HIDE DEF W, n
    <2> QED
      BY <1>1, <1>6, LastOfIs, LastOfWithin, WithinInOrder
  <1>9. ASSUME NEW s, cache' = s, InOrder(s), Agree(s, LastOf(Append(W, e), n)), e \in EntriesOf(s)
        PROVE  SessionsInv' /\ EntryOf(cache', k).ch = c
    <2>1. EntryOf(s, k) = e
      BY <1>3, <1>9, EntryOfIs
    <2>2. EntryOf(cache', k).ch = c
      BY <1>3, <1>9, <2>1
    <2>3. InOrder(cache)' /\ InOrder(uses)'
      BY <1>2, <1>5, <1>8, <1>9, ZenonT(60) DEF InOrder
    <2>4. Agree(cache, uses)'
      BY <1>2, <1>5, <1>9 DEF Agree, Old, Expired
    <2>5. Len(uses') <= limits'.capacity
      BY <1>2, <1>5, <1>8
    <2>6. SessionsTyped'
      BY <1>1, <1>2 DEF SessionsTyped
    <2> QED
      BY <2>2, <2>3, <2>4, <2>5, <2>6 DEF SessionsInv
  <1>10. CASE Bound(k) /\ EntryOf(cache, k).ch = c
    <2>1. k \in KeysOf(uses)
      BY <1>10, BoundIs
    <2>2. Len(W) < Len(uses) /\ Len(uses) \in Nat
      <3>1. Len(Without(uses, k)) < Len(uses)
        BY <1>1, <2>1, WithoutIs
      <3>2. uses \in Seq(Entry)
        BY <1>1 DEF InOrder
      <3> QED
        BY <3>1, <3>2
    <2> HIDE DEF V, W, n
    <2>3. Len(Append(W, e)) <= n
      BY <1>1, <1>3, <1>6, <2>2
    <2>4. LastOf(Append(W, e), n) = Append(W, e)
      BY <2>3 DEF LastOf
    <2>5. e \in EntriesOf(Append(V, e))
      BY <1>3, <1>6, EntriesAppend
    <2>6. cache' = Append(V, e)
      BY <1>5, <1>10
    <2>7. Agree(Append(V, e), LastOf(Append(W, e), n))
      BY <1>7, <2>4
    <2> QED
      BY <1>6, <1>9, <2>5, <2>6, <2>7
  <1>11. CASE ~(Bound(k) /\ EntryOf(cache, k).ch = c)
    <2> DEFINE t == Append(V, e)
    <2>1. cache' = Trimmed(t, limits) /\ InOrder(t)
      BY <1>5, <1>6, <1>11
    <2> HIDE DEF t
    <2>2. PICK A : /\ Trimmed(t, limits) = LastOf(Keep(t, A), n)
                   /\ \A d \in EntriesOf(t) : d \in A \/ Expired(d, limits.ttl)
      BY <2>1, TrimmedIs
    <2> HIDE DEF V, W, n
    <2>3. Keep(t, A) = Append(Keep(V, A), e) /\ Keep(V, A) \in Seq(Entry)
      <3>1. e \in EntriesOf(t)
        BY <1>3, <1>6, EntriesAppend DEF t
      <3>2. e \in A
        BY <1>3, <2>2, <3>1 DEF Old
      <3> QED
        BY <1>3, <1>6, <3>2, KeepAppends, KeepTyped DEF t
    <2> DEFINE s == LastOf(Keep(t, A), n)
    <2>4. e \in EntriesOf(s)
      <3>1. e \in EntriesOf(LastOf(Append(Keep(V, A), e), n))
        BY <1>1, <1>3, <2>3, LastOfAppend
      <3> QED
        BY <2>3, <3>1
    <2>5. InOrder(s)
      <3>1. InOrder(Keep(t, A)) /\ Keep(t, A) \in Seq(Entry)
        BY <2>1, KeepInOrder
      <3>2. s \in Seq(Entry) /\ Within(s, Keep(t, A))
        BY <1>1, <3>1, LastOfIs, LastOfWithin
      <3> HIDE DEF s
      <3> QED
        BY <3>1, <3>2, WithinInOrder
    <2>6. Agree(s, LastOf(Append(W, e), n))
      <3>1. Agree(t, Append(W, e))
        BY <1>7 DEF t
      <3>2. Agree(Keep(t, A), Append(W, e))
        BY <2>2, <3>1, DropAgree DEF Old
      <3> QED
        BY <1>1, <3>2, LastAgree
    <2>7. cache' = s
      BY <2>1, <2>2
    <2> HIDE DEF s
    <2> QED
      BY <1>9, <2>4, <2>5, <2>6, <2>7
  <1> QED
    BY <1>10, <1>11

LEMMA SessionsRest ==
  ASSUME SessionsInv, UNCHANGED stickyVars
  PROVE  SessionsInv'
  <1>1. now' = now /\ cache' = cache /\ limits' = limits /\ uses' = uses
    BY DEF stickyVars
  <1>2. SessionsTyped' /\ InOrder(cache)' /\ InOrder(uses)' /\ Len(uses') <= limits'.capacity
    BY <1>1, SMTT(30) DEF SessionsInv, SessionsTyped, InOrder
  <1>3. Agree(cache, uses)'
    BY <1>1 DEF SessionsInv, Agree, Old, Expired
  <1> QED
    BY <1>2, <1>3 DEF SessionsInv

LEMMA NothingAgrees == Agree(<<>>, <<>>) /\ InOrder(<<>>)
  <1>1. <<>> \in Seq(Entry) /\ <<>> \o <<>> = <<>> /\ EntriesOf(<<>>) = {}
    BY ConcatEmptySeq DEF EntriesOf
  <1>2. Agree(<<>>, <<>>)
    BY <1>1 DEF Agree
  <1>3. InOrder(<<>>)
    BY DEF InOrder
  <1> QED
    BY <1>2, <1>3

LEMMA ConfigureKeeps ==
  ASSUME SessionsInv, NEW cfg \in Configs, UpdateConfig(cfg)
  PROVE  SessionsInv'
  <1> DEFINE lim == [ttl |-> cfg.ttl, capacity |-> cfg.capacity]
             clear == cfg.strategy # strategy \/ cfg.ttl # limits.ttl
  <1>1. /\ now' = now /\ limits' = lim
        /\ cache' = IF clear THEN <<>> ELSE Trimmed(cache, lim)
        /\ uses' = IF clear THEN <<>> ELSE LastOf(uses, lim.capacity)
    BY DEF UpdateConfig, Configure
  <1>2. cfg.ttl \in Nat \ {0} /\ cfg.capacity \in Nat \ {0}
    BY LoadBalancerAssumption
  <1>3. SessionsTyped'
    BY <1>1, <1>2 DEF SessionsInv, SessionsTyped
  <1>4. CASE clear
    <2>1. cache' = <<>> /\ uses' = <<>>
      BY <1>1, <1>4
    <2>2. InOrder(cache)' /\ InOrder(uses)'
      BY <2>1 DEF InOrder
    <2>3. Agree(cache, uses)'
      <3>1. <<>> \in Seq(Entry) /\ <<>> \o <<>> = <<>> /\ EntriesOf(<<>>) = {}
        BY ConcatEmptySeq DEF EntriesOf
      <3> QED
        BY <2>1, <3>1 DEF Agree
    <2>4. Len(uses') <= limits'.capacity
      BY <1>1, <1>2, <2>1
    <2> QED
      BY <1>3, <2>2, <2>3, <2>4 DEF SessionsInv
  <1>5. CASE ~clear
    <2> DEFINE n == lim.capacity
    <2>1. n \in Nat \ {0} /\ lim.ttl = limits.ttl
      BY <1>2, <1>5
    <2>2. InOrder(cache) /\ InOrder(uses) /\ Agree(cache, uses) /\ uses \in Seq(Entry)
      BY DEF SessionsInv, InOrder
    <2> HIDE DEF lim
    <2>3. PICK A : /\ Trimmed(cache, lim) = LastOf(Keep(cache, A), n)
                   /\ \A d \in EntriesOf(cache) : d \in A \/ Expired(d, lim.ttl)
      BY <2>2, TrimmedIs
    <2> HIDE DEF n
    <2> DEFINE s == LastOf(Keep(cache, A), n)
               u == LastOf(uses, n)
    <2>4. InOrder(s)
      <3>1. InOrder(Keep(cache, A)) /\ Keep(cache, A) \in Seq(Entry)
        BY <2>2, KeepInOrder
      <3>2. s \in Seq(Entry) /\ Within(s, Keep(cache, A))
        BY <2>1, <3>1, LastOfIs, LastOfWithin
      <3> HIDE DEF s
      <3> QED
        BY <3>1, <3>2, WithinInOrder
    <2>5. InOrder(u) /\ Len(u) <= n
      <3>1. u \in Seq(Entry) /\ Within(u, uses) /\ Len(u) <= n
        BY <2>1, <2>2, LastOfIs, LastOfWithin
      <3> HIDE DEF u
      <3> QED
        BY <2>2, <3>1, WithinInOrder
    <2>6. Agree(s, u)
      <3>1. Agree(Keep(cache, A), uses)
        BY <2>1, <2>2, <2>3, DropAgree DEF Old
      <3> QED
        BY <2>1, <3>1, LastAgree
    <2>7. cache' = s /\ uses' = u
      BY <1>1, <1>5, <2>3 DEF n
    <2> HIDE DEF s, u
    <2>8. InOrder(cache)' /\ InOrder(uses)'
      BY <1>1, <2>4, <2>5, <2>7 DEF InOrder
    <2>9. Agree(cache, uses)'
      BY <1>1, <2>1, <2>6, <2>7 DEF Agree, Old, Expired
    <2>10. Len(uses') <= limits'.capacity
      BY <1>1, <2>5, <2>7 DEF n
    <2> QED
      BY <1>3, <2>8, <2>9, <2>10 DEF SessionsInv
  <1> QED
    BY <1>4, <1>5

LEMMA ForgetKeeps ==
  ASSUME SessionsInv, NEW c, Forget(c)
  PROVE  SessionsInv'
  <1> DEFINE A == {d \in EntriesOf(cache) : d.ch # c}
             B == {d \in EntriesOf(uses) : d.ch # c}
             s == Keep(cache, A)
             u == Keep(uses, B)
  <1>1. now' = now /\ limits' = limits /\ cache' = s /\ uses' = u
    BY DEF Forget, ForgetIn
  <1>2. /\ InOrder(cache) /\ InOrder(uses) /\ Agree(cache, uses)
        /\ Len(uses) \in Nat /\ Len(uses) <= limits.capacity /\ limits.capacity \in Nat
    BY DEF SessionsInv, SessionsTyped, InOrder
  <1>3. \A d \in EntriesOf(cache) \cap EntriesOf(uses) : d \in A <=> d \in B
    OBVIOUS
  <1> HIDE DEF A, B
  <1>4. Agree(s, u)
    BY <1>2, <1>3, KeepAgree
  <1>5. InOrder(s) /\ InOrder(u) /\ Len(u) <= Len(uses) /\ u \in Seq(Entry)
    BY <1>2, KeepInOrder
  <1> HIDE DEF s, u
  <1>6. Len(u) <= limits.capacity
    BY <1>2, <1>5
  <1>7. InOrder(cache)' /\ InOrder(uses)'
    BY <1>1, <1>5, SMTT(30) DEF InOrder
  <1>8. Agree(cache, uses)'
    BY <1>1, <1>4 DEF Agree, Old, Expired
  <1>9. SessionsTyped'
    BY <1>1 DEF SessionsInv, SessionsTyped
  <1> QED
    BY <1>1, <1>6, <1>7, <1>8, <1>9 DEF SessionsInv

LEMMA EntriesRegroup == \A s, t, u \in Seq(Entry) : s \o (t \o u) = (s \o t) \o u
  BY ConcatAssociative, SMTT(30)

LEMMA TicksKeep ==
  ASSUME SessionsInv, ClockTicks
  PROVE  SessionsInv'
  <1>1. now' = now + 1 /\ cache' = cache /\ limits' = limits /\ uses' = uses
    BY DEF ClockTicks
  <1>2. now \in Nat /\ limits.ttl \in Nat \ {0} /\ InOrder(cache) /\ InOrder(uses)
    BY DEF SessionsInv, SessionsTyped
  <1>3. SessionsTyped'
    BY <1>1, <1>2 DEF SessionsInv, SessionsTyped
  <1>4. InOrder(cache)' /\ InOrder(uses)'
    <2>1. ASSUME NEW s, InOrder(s)
          PROVE  \A i \in 1..Len(s) : s[i].at <= now + 1
      <3>1. \A i \in 1..Len(s) : s[i] \in Entry /\ s[i].at <= now
        BY <2>1, EntriesTyped DEF InOrder
      <3>2. \A i \in 1..Len(s) : s[i].at \in Nat /\ s[i].at <= now
        BY <3>1 DEF Entry
      <3> QED
        BY <1>2, <3>2
    <2>2. (\A i \in 1..Len(cache) : cache[i].at <= now + 1) /\ \A i \in 1..Len(uses) : uses[i].at <= now + 1
      BY <1>2, <2>1
    <2> QED
      BY <1>1, <1>2, <2>2 DEF InOrder
  <1>5. PICK a \in Seq(Entry), b \in Seq(Entry), l \in Seq(Entry) :
          /\ cache = a \o l /\ uses = b \o l
          /\ \A e \in EntriesOf(a) \cup EntriesOf(b) : Old(e)
          /\ \A e \in EntriesOf(l) : ~Old(e)
    BY DEF SessionsInv, Agree
  <1> DEFINE t == now + 1
             ttl == limits.ttl
  <1>6. PICK x \in Seq(Entry), y \in Seq(Entry) :
          /\ l = x \o y
          /\ \A e \in EntriesOf(x) : LateAt(e, t, ttl)
          /\ \A e \in EntriesOf(y) : ~LateAt(e, t, ttl)
    <2>1. InOrder(a \o l) /\ t \in Nat /\ ttl \in Nat
      BY <1>2, <1>5
    <2>2. PICK x \in Seq(Entry), y \in Seq(Entry) : Splits(l, x, y, t, ttl)
      <3> HIDE DEF t, ttl
      <3> QED
        BY <2>1, OldGrow
    <2> QED
      BY <2>2 DEF Splits
  <1> DEFINE p == a \o x
             q == b \o x
  <1>7. /\ p \in Seq(Entry) /\ q \in Seq(Entry)
        /\ EntriesOf(p) = EntriesOf(a) \cup EntriesOf(x) /\ EntriesOf(q) = EntriesOf(b) \cup EntriesOf(x)
    BY EntriesConcat
  <1>8. cache = p \o y /\ uses = q \o y
    <2>1. a \in Seq(Entry) /\ b \in Seq(Entry) /\ x \in Seq(Entry) /\ y \in Seq(Entry)
      OBVIOUS
    <2>2. a \o (x \o y) = (a \o x) \o y
      BY ONLY EntriesRegroup, <2>1, SMTT(30)
    <2>3. b \o (x \o y) = (b \o x) \o y
      BY ONLY EntriesRegroup, <2>1, SMTT(30)
    <2> QED
      BY <1>5, <1>6, <2>2, <2>3
  <1> HIDE DEF p, q
  <1>9. \A e \in EntriesOf(a) \cup EntriesOf(b) : LateAt(e, t, ttl)
    <2>1. \A e \in EntriesOf(a) \cup EntriesOf(b) : e \in Entry /\ now - e.at >= limits.ttl
      BY <1>5, EntriesTyped DEF Old, Expired
    <2>2. \A e \in EntriesOf(a) \cup EntriesOf(b) : e.at \in Nat /\ now - e.at >= limits.ttl
      BY <2>1 DEF Entry
    <2> QED
      BY <1>2, <2>2, SMTT(30) DEF LateAt
  <1>10. Agree(cache, uses)'
    <2>1. /\ \A e \in EntriesOf(p) \cup EntriesOf(q) : now' - e.at >= limits'.ttl
          /\ \A e \in EntriesOf(y) : ~(now' - e.at >= limits'.ttl)
      <3>1. \A e \in EntriesOf(p) \cup EntriesOf(q) : LateAt(e, t, ttl)
        BY <1>6, <1>7, <1>9, Zenon
      <3>2. now' = t /\ limits'.ttl = ttl
        BY <1>1
      <3> QED
        BY <1>6, <3>1, <3>2, Zenon DEF LateAt
    <2>2. cache' = p \o y /\ uses' = q \o y
      BY <1>1, <1>8
    <2> QED
      BY <1>7, <2>1, <2>2 DEF Agree, Old, Expired
  <1>11. Len(uses') <= limits'.capacity
    BY <1>1 DEF SessionsInv
  <1> QED
    BY <1>3, <1>4, <1>10, <1>11 DEF SessionsInv

LEMMA ChoiceIs ==
  ASSUME BalancerTyped, SessionsInv, NEW k \in scenario.sessions, NEW admitted \in SUBSET Catalog, admitted # {}
  PROVE  k \in Sessions /\ StickyChoice(k, Top(admitted)) \in Catalog
  <1>1. scenario.sessions \subseteq Sessions
    BY LoadBalancerAssumption DEF BalancerTyped
  <1>2. Top(admitted) \subseteq Catalog /\ Top(admitted) # {}
    BY TopOf
  <1>3. Rendezvous(k, Top(admitted)) \in Top(admitted)
    BY <1>1, <1>2, RendezvousIs
  <1>4. StickyChoice(k, Top(admitted)) \in Top(admitted)
    BY <1>3 DEF StickyChoice
  <1> QED
    BY <1>1, <1>2, <1>4

LEMMA SelectStickyKeeps ==
  ASSUME BalancerTyped, SessionsInv, NEW k \in scenario.sessions, NEW admitted \in SUBSET Catalog,
         SelectSticky(k, admitted)
  PROVE  SessionsInv' /\ EntryOf(cache', k).ch = StickyChoice(k, Top(admitted))
  <1>1. admitted # {} /\ Remember(k, StickyChoice(k, Top(admitted)))
    BY DEF SelectSticky
  <1>2. k \in Sessions /\ StickyChoice(k, Top(admitted)) \in Catalog
    BY <1>1, ChoiceIs
  <1> QED
    BY <1>1, <1>2, RememberKeeps

LEMMA SessionsStart ==
  ASSUME BalancerInit
  PROVE  SessionsInv
  <1>1. cache = <<>> /\ uses = <<>> /\ now = 1
    BY DEF BalancerInit
  <1>2. PICK cfg \in Configs : limits = [ttl |-> cfg.ttl, capacity |-> cfg.capacity]
    BY DEF BalancerInit
  <1>3. limits \in [ttl : Nat \ {0}, capacity : Nat \ {0}]
    BY <1>2, LoadBalancerAssumption
  <1>4. Len(<<>>) <= limits.capacity
    BY <1>3
  <1> QED
    BY <1>1, <1>3, <1>4, NothingAgrees DEF SessionsInv, SessionsTyped

LEMMA SessionsSteps ==
  ASSUME BalancerTyped, SessionsInv, [BalancerNext]_balancerVars
  PROVE  SessionsInv'
  <1>1. CASE BalancerTicks
    BY <1>1, TicksKeep DEF BalancerTicks
  <1>2. ASSUME NEW admitted \in SUBSET Catalog, SelectRoundRobin(admitted)
        PROVE  SessionsInv'
    BY <1>2, SessionsRest DEF SelectRoundRobin
  <1>3. ASSUME NEW admitted \in SUBSET Catalog, NEW k \in scenario.sessions, SelectSticky(k, admitted)
        PROVE  SessionsInv'
    BY <1>3, SelectStickyKeeps
  <1>4. ASSUME NEW cfg \in Configs, UpdateConfig(cfg) PROVE SessionsInv'
    BY <1>4, ConfigureKeeps
  <1>5. ASSUME NEW c \in Catalog, RemoveChannel(c) PROVE SessionsInv'
    BY <1>5, ForgetKeeps DEF RemoveChannel
  <1>6. ASSUME NEW c \in Catalog, NEW w \in Weights, Reweight(c, w) PROVE SessionsInv'
    BY <1>6, SessionsRest DEF Reweight
  <1>7. CASE UNCHANGED balancerVars
    BY <1>7, SessionsRest DEF balancerVars
  <1> QED
    BY <1>1, <1>2, <1>3, <1>4, <1>5, <1>6, <1>7 DEF BalancerNext

\* However lookups, writes, clean-up in batches, deletions and reconfiguration
\* interleave, a session goes where a plain LRU cache would send it, for any numbers of
\* channels and sessions, any capacity, lifetime and batch (outcomes.py,
\* session_sticky_get to trim_session_sticky; load_balancer.py, _sticky_select_cached).
THEOREM SessionsGoWhereTheyWere == BalancerSpec => SessionsStay
  <1> DEFINE Stays ==
        \A k \in scenario.sessions, admitted \in SUBSET Catalog :
          LET recent == k \in KeysOf(uses) /\ ~Expired(EntryOf(uses, k), limits.ttl)
              last   == EntryOf(uses, k).ch
          IN SelectSticky(k, admitted) =>
               EntryOf(cache', k).ch =
                 IF recent /\ last \in Top(admitted) THEN last ELSE Rendezvous(k, Top(admitted))
             Safe == BalancerInv /\ SessionsInv
  <1>1. BalancerInit => Safe
    BY BalancerStarts, SessionsStart
  <1>2. Safe /\ [BalancerNext]_balancerVars => Safe'
    BY BalancerSteps, SessionsSteps DEF BalancerInv
  <1>3. Safe => Stays
    <2> SUFFICES ASSUME Safe, NEW k \in scenario.sessions, NEW admitted \in SUBSET Catalog, SelectSticky(k, admitted)
                 PROVE  EntryOf(cache', k).ch =
                          IF /\ k \in KeysOf(uses) /\ ~Expired(EntryOf(uses, k), limits.ttl)
                             /\ EntryOf(uses, k).ch \in Top(admitted)
                          THEN EntryOf(uses, k).ch ELSE Rendezvous(k, Top(admitted))
      OBVIOUS
    <2>1. EntryOf(cache', k).ch = StickyChoice(k, Top(admitted))
      BY SelectStickyKeeps DEF BalancerInv
    <2>2. /\ Bound(k) <=> k \in KeysOf(uses) /\ ~Expired(EntryOf(uses, k), limits.ttl)
          /\ Bound(k) => EntryOf(uses, k) = EntryOf(cache, k)
      BY BoundIs DEF Old
    <2>3. StickyChoice(k, Top(admitted)) =
            IF Bound(k) /\ EntryOf(cache, k).ch \in Top(admitted)
            THEN EntryOf(cache, k).ch ELSE Rendezvous(k, Top(admitted))
      BY DEF StickyChoice
    <2> QED
      BY <2>1, <2>2, <2>3
  <1>4. SessionsStay <=> [][Stays]_balancerVars
    BY PTL DEF SessionsStay
  <1> HIDE DEF Safe, Stays
  <1> QED
    BY <1>1, <1>2, <1>3, <1>4, PTL DEF BalancerSpec
=============================================================================
