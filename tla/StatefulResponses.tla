------------------------- MODULE StatefulResponses -------------------------
(***************************************************************************)
(* Requests to /v1/responses and the state the proxy keeps of their        *)
(* conversations (routers/proxy_response.py over the FileStore), with the  *)
(* cleanup loop of main.py, changes of the settings, clients that leave    *)
(* and crashes.                                                            *)
(*                                                                         *)
(* A client may go on with a conversation as soon as it has been told the  *)
(* id of its last turn, which of a stream it is before the state is saved. *)
(* The state is read only when the upstream has answered.                  *)
(***************************************************************************)
EXTENDS FileStore, SequencesExt

CONSTANTS
  NoTurn,        \* a conversation starts here
  Streams,       \* the turns that are asked for as streams
  MaxTime        \* bound on the clock

ASSUME ResponsesAssumption ==
  /\ Turns \subseteq Nat /\ Streams \subseteq Turns
  /\ NoTurn \notin Turns /\ NoTurn # Free /\ MaxTime \in Nat

Stages == {"unsent", "asked", "reading", "touching", "streaming", "completed",
           "saving", "writing", "orphaned", "over", "failed"}

VARIABLES
  call,          \* per turn its request: stage, turn before, conversation found
  cleaner,       \* 0, or between the two passes of the cleanup the time of the first
  told,          \* history: turns whose id the client knows
  chain          \* history: the true conversation up to each turn

vars == <<store, call, cleaner, told, chain>>

At(t, stage)  == call[t].at = stage
Goes(t, stage) == call' = [call EXCEPT ![t].at = stage]
Request(stage) == [at |-> stage, prev |-> NoTurn, found |-> <<>>]
Settles(t, stage) == call' = [call EXCEPT ![t] = Request(stage)]

-----------------------------------------------------------------------------
\* Turns are numbered in the order of their requests.
Ask(t, prev) ==
  /\ At(t, "unsent") /\ \A u \in Turns : u < t => ~At(u, "unsent")
  /\ prev \in told \cup {NoTurn}
  /\ call' = [call EXCEPT ![t] = [Request("asked") EXCEPT !.prev = prev]]
  /\ chain' = [chain EXCEPT ![t] = IF prev = NoTurn THEN <<t>> ELSE Append(chain[prev], t)]
  /\ UNCHANGED <<store, cleaner, told>>

Looked(t) == IF t \in Streams THEN "streaming" ELSE "saving"

\* The upstream answers, or refuses.
Answered(t) ==
  /\ At(t, "asked")
  /\ \/ Settles(t, "failed")
     \/ Goes(t, IF call[t].prev = NoTurn THEN Looked(t) ELSE "reading")
  /\ UNCHANGED <<store, cleaner, told, chain>>

\* Faulty: the lock is given back between the read and the write.
LookUnlocked(t) ==
  LET p == call[t].prev IN
  /\ At(t, "reading") /\ lock = Free
  /\ IF Readable(p)
     THEN call' = [call EXCEPT ![t].at = "touching", ![t].found = <<files[p]>>]
     ELSE Goes(t, Looked(t))
  /\ UNCHANGED <<store, cleaner, told, chain>>

\* get_conversation, which holds the lock to the end of its second step.
Look(t) ==
  LET p == call[t].prev IN
  /\ At(t, "reading") /\ lock = Free
  /\ IF Readable(p)
     THEN /\ call' = [call EXCEPT ![t].at = "touching", ![t].found = <<files[p]>>]
          /\ lock' = t
     ELSE Goes(t, Looked(t)) /\ UNCHANGED lock
  /\ UNCHANGED <<now, files, temps, limits, removed, cleaner, told, chain>>

\* An error of the write is swallowed.
WriteBack(t) ==
  /\ At(t, "touching")
  /\ \/ Touch(call[t].prev, call[t].found[1])
     \/ UNCHANGED <<now, files, temps, limits, removed>>
  /\ lock' = Free
  /\ Goes(t, Looked(t))
  /\ UNCHANGED <<cleaner, told, chain>>

\* The completed event goes to the client before the stream ends.
Completes(t) ==
  /\ At(t, "streaming") /\ Goes(t, "completed")
  /\ told' = told \cup {t}
  /\ UNCHANGED <<store, cleaner, chain>>

BreaksOff(t) ==
  /\ At(t, "streaming") /\ Settles(t, "failed")
  /\ UNCHANGED <<store, cleaner, told, chain>>

\* The stream ends, or is closed while its client is handed an event.
StreamEnds(t) ==
  /\ At(t, "completed") /\ Goes(t, "saving")
  /\ UNCHANGED <<store, cleaner, told, chain>>

\* Faulty: the new turn comes first.
ConversationTurned(t) ==
  <<t>> \o (IF call[t].found = <<>> THEN <<>> ELSE call[t].found[1].said)

Conversation(t) == Append(IF call[t].found = <<>> THEN <<>> ELSE call[t].found[1].said, t)

StartSaving(t) ==
  /\ At(t, "saving") /\ lock = Free
  /\ BeginWrite(t, Conversation(t))
  /\ lock' = t /\ Goes(t, "writing")
  /\ UNCHANGED <<cleaner, told, chain>>

Flush(t) ==
  /\ call[t].at \in {"writing", "orphaned"}
  /\ FlushWrite(t)
  /\ UNCHANGED <<call, cleaner, told, chain>>

Released(t) == IF lock = t THEN Free ELSE lock

\* A whole answer is given to the client only now.
Saved(t) ==
  /\ call[t].at \in {"writing", "orphaned"}
  /\ ReplaceFile(t)
  /\ lock' = Released(t) /\ Settles(t, "over")
  /\ told' = IF t \in Streams THEN told ELSE told \cup {t}
  /\ UNCHANGED <<cleaner, chain>>

\* Faulty: an error leaves the lock behind.
NotSavedHeld(t) ==
  /\ call[t].at \in {"writing", "orphaned"}
  /\ FailWrite(t)
  /\ Settles(t, "failed")
  /\ UNCHANGED <<lock, cleaner, told, chain>>

\* Faulty: an error of the write is ignored.
NotSavedIgnored(t) ==
  /\ call[t].at \in {"writing", "orphaned"}
  /\ FailWrite(t)
  /\ lock' = Released(t) /\ Settles(t, "over")
  /\ UNCHANGED <<cleaner, told, chain>>

\* A full disk, or a temporary file that is gone.  Of a stream only the log is
\* told; a whole answer is lost with its state.
NotSaved(t) ==
  /\ call[t].at \in {"writing", "orphaned"}
  /\ FailWrite(t)
  /\ lock' = Released(t) /\ Settles(t, "failed")
  /\ UNCHANGED <<cleaner, told, chain>>

\* The task of a stream is cancelled when its client leaves at an await: it no
\* longer waits for the lock or for its thread, which may have been started.
Leaves(t) ==
  /\ t \in Streams
  /\ \/ call[t].at \in {"streaming", "completed", "saving"} /\ Settles(t, "failed")
        /\ UNCHANGED <<now, files, temps, limits, removed>>
     \/ call[t].at \in {"completed", "saving"} /\ lock = Free /\ Goes(t, "orphaned")
        /\ BeginWrite(t, Conversation(t))
     \/ At(t, "writing") /\ Goes(t, "orphaned")
        /\ UNCHANGED <<now, files, temps, limits, removed>>
  /\ lock' = Released(t)
  /\ UNCHANGED <<cleaner, told, chain>>

-----------------------------------------------------------------------------
CleanExpired ==
  /\ cleaner = 0 /\ cleanup_expired
  /\ cleaner' = now
  /\ UNCHANGED <<call, told, chain>>

EvictOldest ==
  /\ cleaner # 0 /\ evict_lru
  /\ cleaner' = 0
  /\ UNCHANGED <<call, told, chain>>

ChangeSettings ==
  /\ \E setting \in Settings \ {limits} : reload_responses_store(setting)
  /\ UNCHANGED <<call, cleaner, told, chain>>

\* What is on disk stays as it is.
Crash ==
  /\ call' = [t \in Turns |->
       IF At(t, "unsent") \/ At(t, "over") THEN call[t] ELSE Request("failed")]
  /\ lock' = Free /\ cleaner' = 0
  /\ UNCHANGED <<now, files, temps, limits, removed, told, chain>>

Tick ==
  /\ now < MaxTime /\ now' = now + 1
  /\ UNCHANGED <<files, temps, lock, limits, removed, call, cleaner, told, chain>>

-----------------------------------------------------------------------------
Init ==
  /\ StoreInit /\ now = 1
  /\ call = [t \in Turns |-> Request("unsent")]
  /\ cleaner = 0 /\ told = {}
  /\ chain = [t \in Turns |-> <<>>]

\* What goes on by itself once begun: a thread's work, and who waits for the lock.
Proceed(t) ==
  \/ Look(t) \/ WriteBack(t) \/ StreamEnds(t) \/ StartSaving(t) \/ Flush(t) \/ Saved(t) \/ NotSaved(t)

Next ==
  \/ \E t \in Turns :
       \/ \E prev \in Turns \cup {NoTurn} : Ask(t, prev)
       \/ Answered(t) \/ Completes(t) \/ BreaksOff(t) \/ Leaves(t) \/ Proceed(t)
  \/ CleanExpired \/ EvictOldest \/ ChangeSettings \/ Crash \/ Tick

Spec == Init /\ [][Next]_vars

\* Threads end, a stream that has completed ends, and the lock is served in turn.
FairSpec == Spec /\ \A t \in Turns : WF_vars(Proceed(t))

-----------------------------------------------------------------------------
(* Properties *)

\* What is kept of a conversation is a run of turns without a gap that ends with
\* the turn it is kept for: whatever was evicted, expired or not saved before, a
\* conversation may begin late but never skips a turn or mixes in another's
\* (proxy_response.py, _save_response_state).
ConversationUnbroken ==
  \A t \in DOMAIN files :
    files[t].said # <<>> /\ IsSuffix(files[t].said, chain[t])

\* A client that has been given a whole answer, and one that stayed to the end of
\* its stream, can go on from that turn until the cleanup removes it: whatever
\* else is written, read or cleaned up meanwhile (proxy_response.py,
\* post_response and _stateful_stream).
AnswerMeansKept ==
  \A t \in Turns :
    At(t, "over") \/ (t \in told /\ t \notin Streams)
      => t \in DOMAIN files \cup removed

\* What the cleanup has removed does not come back, though a read writes its
\* record back with a new time of access and a cancelled write goes on without
\* the lock (state_store.py, get_conversation, cleanup_expired, evict_lru).
RemovedStaysRemoved == removed \cap DOMAIN files = {}

\* To make room the cleanup removes a readable record only in favour of records
\* that were readable when it began, or were written since: its first pass
\* clears away what has expired, however often it has been used
\* (state_store.py, _cleanup_if_needed).
NoneEvictedForTheDead ==
  [][\A t, u \in Turns :
       /\ t \in DOMAIN files \ DOMAIN files' /\ ~Expired(files[t])
       /\ u \in DOMAIN files' \cap DOMAIN files
       => files[u].expires >= cleaner]_vars

\* The lock always comes back, whoever holds it and whatever becomes of its work,
\* so the conversations that wait for it and the cleanup go on
\* (state_store.py, put, get_conversation).
LockComesBack == []<>(lock = Free)
=============================================================================
