---------------------------- MODULE StreamAttempt ----------------------------
(***************************************************************************)
(* The attempt of one channel to serve a streamed request, as the probe    *)
(* loop makes it: endpoint after endpoint (proxy/channel_attempt.py), each *)
(* read to the end of its stream (proxy/stream_executor.py), with what is  *)
(* recorded where.  The executor records what happens once something has   *)
(* been sent on; what happens before is handed off to the attempt, which   *)
(* records it once, when the stream has been closed.                       *)
(*                                                                         *)
(* A step is the code from one await to the next: reading the upstream and *)
(* closing its client are the places where an attempt can be interrupted.  *)
(*                                                                         *)
(* The outcome ledger is as the probe loop sees it (proxy/outcomes.py,     *)
(* probe_targets): for every pair of a model and a channel whether it is   *)
(* degraded, whether it must be left alone, how long ago it first failed   *)
(* and how often it has failed since its last success.  Times are kept     *)
(* relative and stop counting where nothing tells them apart any more, so  *)
(* that behaviours may be infinite and the state finite.                   *)
(***************************************************************************)
EXTENDS Integers

CONSTANTS
  Models, Channels,
  Cap,           \* _BACKOFF_CAP_SECONDS, in ticks
  MaxConsec,     \* failures after which the backoff is Cap
  Endpoints      \* usable endpoints of a channel for this request

ASSUME StreamAttemptAssumption ==
  /\ Cap \in Nat \ {0} /\ MaxConsec \in Nat \ {0}
  /\ Endpoints \in [Channels -> Nat]

VARIABLES
  row,           \* [degraded, permanent, age, consec] of every pair
  stream         \* the attempt of every pair, see Attempt

-----------------------------------------------------------------------------
(* The ledger *)

Pairs == Models \X Channels

Row == [degraded : BOOLEAN, permanent : BOOLEAN, age : 0..Cap, consec : 0..MaxConsec]

Clean == [degraded |-> FALSE, permanent |-> FALSE, age |-> 0, consec |-> 0]

UpTo(n, limit) == IF n > limit THEN limit ELSE n

\* Faulty: every failure dates the period anew.
HitAnew(r, kind) ==
  [degraded  |-> TRUE,
   permanent |-> r.permanent \/ kind = "http_4xx_config",
   age       |-> 0,
   consec    |-> UpTo(r.consec + 1, MaxConsec)]

Hit(r, kind) ==
  [degraded  |-> TRUE,
   permanent |-> r.permanent \/ kind = "http_4xx_config",
   age       |-> IF r.consec = 0 THEN 0 ELSE r.age,
   consec    |-> UpTo(r.consec + 1, MaxConsec)]

RecordSuccess(p)       == row' = [row EXCEPT ![p] = Clean]
RecordFailure(p, kind) == row' = [row EXCEPT ![p] = Hit(@, kind)]

\* A saved configuration of the channel.
ClearPermanent(c) ==
  row' = [p \in Pairs |-> IF p[2] = c THEN [row[p] EXCEPT !.permanent = FALSE] ELSE row[p]]

Older(r) == IF r.degraded THEN [r EXCEPT !.age = UpTo(@ + 1, Cap)] ELSE r

TimePasses == row' = [p \in Pairs |-> Older(row[p])]

-----------------------------------------------------------------------------
(* The attempt *)

Attempt ==
  [stage   : {"none", "reading", "closing", "over"},
   left    : Nat,         \* endpoints still to try, the current one included
   charged : BOOLEAN,     \* failure_recorded
   sent    : {"nothing", "heartbeat", "output"},
   next    : {"none", "end", "limited", "other", "incompatible",
              "transport_failure", "http_4xx_config", "empty"},
                          \* what comes after closing
   result  : {"none", "success", "failure", "timeout", "skipped"},
   blamed  : BOOLEAN,     \* history: a failure was recorded
   unblamed : Int]        \* history: failures met less failures recorded

NoAttempt ==
  [stage |-> "none", left |-> 0, charged |-> FALSE, sent |-> "nothing", next |-> "none",
   result |-> "none", blamed |-> FALSE, unblamed |-> 0]

Over(a, result) ==
  [a EXCEPT !.stage = "over", !.left = 0, !.charged = FALSE, !.sent = "nothing",
            !.next = "none", !.result = result]

Closing(a, next) == [a EXCEPT !.stage = "closing", !.sent = "nothing", !.next = next]

Becomes(p, a) == stream' = [stream EXCEPT ![p] = a]

-----------------------------------------------------------------------------
\* A channel without a usable endpoint fails at once, and nothing is recorded.
Start(p) ==
  /\ stream[p].stage = "none"
  /\ Becomes(p, IF Endpoints[p[2]] = 0 THEN Over(NoAttempt, "failure")
                ELSE [NoAttempt EXCEPT !.stage = "reading", !.left = Endpoints[p[2]]])
  /\ UNCHANGED row

Reading(p) == stream[p].stage = "reading"

Heartbeat(p) ==
  /\ Reading(p) /\ stream[p].sent = "nothing"
  /\ Becomes(p, [stream[p] EXCEPT !.sent = "heartbeat"])
  /\ UNCHANGED row

Output(p) ==
  /\ Reading(p) /\ stream[p].sent # "output"
  /\ Becomes(p, [stream[p] EXCEPT !.sent = "output"])
  /\ UNCHANGED row

Faulted(a) == [a EXCEPT !.unblamed = @ + 1]
Blamed(a)  == [a EXCEPT !.unblamed = @ - 1, !.blamed = TRUE]
\* Faulty: records the failure it hands off.
HandOffRecorded(p, kind) ==
  /\ Reading(p) /\ stream[p].sent # "output"
  /\ kind = "http_4xx_config" => stream[p].sent = "nothing"
  /\ Becomes(p, Closing(Blamed(Faulted(stream[p])), kind))
  /\ RecordFailure(p, kind)

\* Before any output: an error response, a transport or conversion error, or, heartbeats
\* apart, an error event for a first event.  The failure is handed off.
HandOff(p, kind) ==
  /\ Reading(p) /\ stream[p].sent # "output"
  /\ kind = "http_4xx_config" => stream[p].sent = "nothing"
  /\ Becomes(p, Closing(Faulted(stream[p]), kind))
  /\ UNCHANGED row

\* A 429, of the upstream or of the channel's own send limit, or another status
\* that says nothing about the channel.
TurnedAway(p, next) ==
  /\ Reading(p) /\ stream[p].sent = "nothing"
  /\ Becomes(p, Closing(stream[p], next))
  /\ UNCHANGED row

\* The answer has no counterpart in the client's format.  Once something was
\* sent the client gets an error event, and the stream ends like any other.
Mismatch(p) ==
  /\ Reading(p)
  /\ Becomes(p, Closing(stream[p],
       IF stream[p].sent = "nothing" THEN "incompatible" ELSE "end"))
  /\ UNCHANGED row

\* The transport or an error event breaks off a stream of which something was
\* sent, or the body is no stream and no JSON either: an error event is sent,
\* the failure recorded, and the stream ends like any other.
Break(p) ==
  /\ Reading(p)
  /\ Becomes(p, Closing(Blamed(Faulted(stream[p])), "end"))
  /\ RecordFailure(p, "transport_failure")

\* [DONE], the end of a stream of which something was sent, or a body in one piece.
Complete(p) ==
  /\ Reading(p)
  /\ Becomes(p, Closing(stream[p], "end"))
  /\ RecordSuccess(p)

\* The end of a stream of which nothing was sent: the executor records a
\* success, the attempt then takes it for a failure (_EmptyStreamError).
EndEmpty(p) ==
  /\ Reading(p) /\ stream[p].sent = "nothing"
  /\ Becomes(p, Closing(Faulted(stream[p]), "empty"))
  /\ RecordSuccess(p)

NextEndpoint(a) ==
  IF a.left = 1 THEN Over(a, "failure")
  ELSE [a EXCEPT !.stage = "reading", !.left = @ - 1, !.sent = "nothing", !.next = "none"]

\* The executor is done: the attempt deals with how the stream ended.
Closed(p) ==
  LET a == stream[p]
      kind == IF a.next = "http_4xx_config" THEN a.next ELSE "transport_failure" IN
  /\ a.stage = "closing"
  /\ \/ /\ a.next = "end"
        /\ Becomes(p, Over(a, "success"))
        /\ UNCHANGED row
     \/ /\ a.next \in {"limited", "other"}
        /\ Becomes(p, Over(a, "failure"))
        /\ UNCHANGED row
     \/ /\ a.next = "incompatible"
        /\ Becomes(p, NextEndpoint(a))
        /\ UNCHANGED row
     \/ /\ a.next \in {"transport_failure", "http_4xx_config", "empty"}
        /\ IF a.charged
           THEN Becomes(p, NextEndpoint(a)) /\ UNCHANGED row
           ELSE /\ Becomes(p, NextEndpoint(Blamed([a EXCEPT !.charged = TRUE])))
                /\ RecordFailure(p, kind)

\* Faulty: covers the time to the first event only.
TimeoutOfFirst(p) ==
  /\ stream[p].stage \in {"reading", "closing"}
  /\ stream[p].sent # "output"
  /\ Becomes(p, Over(Blamed(Faulted(stream[p])), "timeout"))
  /\ RecordFailure(p, "transport_failure")

\* The time limit of the attempt, wherever it strikes.  The executor takes it for
\* a client that went away and records nothing; the probe loop does.
Timeout(p) ==
  /\ stream[p].stage \in {"reading", "closing"}
  /\ Becomes(p, Over(Blamed(Faulted(stream[p])), "timeout"))
  /\ RecordFailure(p, "transport_failure")

UpstreamActs(p) ==
  \/ Heartbeat(p) \/ Output(p) \/ Mismatch(p) \/ Break(p) \/ Complete(p) \/ EndEmpty(p)
  \/ \E kind \in {"transport_failure", "http_4xx_config"} : HandOff(p, kind)
=============================================================================
