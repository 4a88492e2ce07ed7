---------------------- MODULE StatefulResponsesProofs ----------------------
(***************************************************************************)
(* The state of conversations is neither lost behind the client's back nor *)
(* resurrected, for any set of turns, any limits and any clock.  The       *)
(* argument is about the lock: a read that writes its record back holds it *)
(* from the look to the write, so the cleanup cannot come in between; a    *)
(* cancelled write, which goes on without it, is of a turn that was never  *)
(* on disk before.  Two more parts follow: on conversations without gaps,  *)
(* and on what is evicted between the two passes of the cleanup.           *)
(***************************************************************************)
EXTENDS StatefulResponses, TLAPS

Shape ==
  /\ DOMAIN call = Turns
  /\ \A t \in Turns : call[t] = [at |-> call[t].at, prev |-> call[t].prev, found |-> call[t].found]

\* Who is about to write a record back holds the lock, and the record is there.
LockHeld ==
  \A t \in Turns : At(t, "touching") => lock = t /\ call[t].prev \in DOMAIN files

\* Only turns that are over have ever been on disk, and a turn that is over has.
OverIsKept == \A t \in Turns : At(t, "over") <=> t \in DOMAIN files \cup removed

KnownTurns == DOMAIN files \cup removed \subseteq Turns

\* Whole answers are told when they are over; only streams complete.
ToldWhenOver ==
  \A t \in Turns :
    /\ t \in told /\ t \notin Streams => At(t, "over")
    /\ At(t, "streaming") => t \in Streams

IInv == Shape /\ LockHeld /\ OverIsKept /\ KnownTurns /\ ToldWhenOver /\ RemovedStaysRemoved

-----------------------------------------------------------------------------
\* With and Without add and take away exactly the turns they name.
LEMMA FilesWith ==
  ASSUME NEW f, NEW t, NEW rec
  PROVE  DOMAIN With(f, t, rec) = DOMAIN f \cup {t}
  BY DEF With

LEMMA FilesWithout ==
  ASSUME NEW f, NEW set
  PROVE  DOMAIN Without(f, set) = DOMAIN f \ set
  BY DEF Without

\* A request that moves on changes its own stage and no other's.
LEMMA GoesOn ==
  ASSUME Shape, NEW t \in Turns, NEW stage, Goes(t, stage)
  PROVE  /\ Shape'
         /\ \A u \in Turns : call'[u].at = IF u = t THEN stage ELSE call[u].at
         /\ \A u \in Turns : call'[u].prev = call[u].prev
  BY DEF Shape, Goes

LEMMA SettlesDown ==
  ASSUME Shape, NEW t \in Turns, NEW stage, Settles(t, stage)
  PROVE  /\ Shape'
         /\ \A u \in Turns : call'[u].at = IF u = t THEN stage ELSE call[u].at
         /\ \A u \in Turns : u # t => call'[u].prev = call[u].prev
  BY DEF Shape, Settles, Request

LEMMA InitIInv == Init => IInv
  <1> SUFFICES ASSUME Init PROVE IInv
    OBVIOUS
  <1>1. Shape
    BY DEF Init, Shape, Request
  <1>2. \A t \in Turns : call[t].at = "unsent"
    BY DEF Init, Request
  <1>3. DOMAIN files = {} /\ removed = {} /\ told = {}
    BY DEF Init, StoreInit
  <1> QED
    BY <1>1, <1>2, <1>3 DEF IInv, LockHeld, OverIsKept, KnownTurns, ToldWhenOver,
       RemovedStaysRemoved, At

\* A step that leaves the disk alone, gives no turn the end of a kept one, and
\* takes the lock from nobody who is writing a record back.
LEMMA Quiet ==
  ASSUME IInv, Shape', NEW t \in Turns,
         UNCHANGED <<files, removed>>,
         \A u \in Turns : u # t => call'[u].at = call[u].at /\ call'[u].prev = call[u].prev,
         call[t].at # "over", call'[t].at # "over", call[t].at # "touching",
         call'[t].at = "touching" => lock' = t /\ call'[t].prev \in DOMAIN files,
         lock' = lock \/ lock = Free \/ lock = t,
         told' = told \/ (told' = told \cup {t} /\ t \in Streams),
         call'[t].at = "streaming" => t \in Streams
  PROVE  IInv'
  <1>1. \A u \in Turns : u # t /\ At(u, "touching") => lock = u /\ u # Free
    BY FileStoreAssumption DEF IInv, LockHeld, At
  <1>2. LockHeld'
    BY <1>1 DEF IInv, LockHeld, At
  <1>3. OverIsKept'
    BY DEF IInv, OverIsKept, At
  <1>4. KnownTurns' /\ RemovedStaysRemoved'
    BY DEF IInv, KnownTurns, RemovedStaysRemoved
  <1>5. ToldWhenOver'
    BY DEF IInv, ToldWhenOver, At
  <1> QED
    BY <1>2, <1>3, <1>4, <1>5 DEF IInv

-----------------------------------------------------------------------------
(* The steps of a request *)

LEMMA AskStep ==
  ASSUME IInv, NEW t \in Turns, NEW prev, Ask(t, prev) PROVE IInv'
  <1>1. /\ Shape'
        /\ call'[t].at = "asked"
        /\ \A u \in Turns : u # t => call'[u] = call[u]
    BY DEF IInv, Shape, Ask, Request
  <1>2. call[t].at = "unsent"
    BY DEF Ask, At
  <1>3. UNCHANGED <<files, removed, lock, told>>
    BY DEF Ask, store
  <1> QED
    BY <1>1, <1>2, <1>3, Quiet, SMTT(30)

LEMMA AnsweredStep ==
  ASSUME IInv, NEW t \in Turns, Answered(t) PROVE IInv'
  <1>1. call[t].at = "asked" /\ UNCHANGED <<files, removed, lock, told>>
    BY DEF Answered, At, store
  <1>2. Shape
    BY DEF IInv
  <1>3. CASE Settles(t, "failed")
    BY <1>1, <1>2, <1>3, SettlesDown, Quiet, SMTT(30)
  <1>4. CASE Goes(t, "reading")
    BY <1>1, <1>2, <1>4, GoesOn, Quiet, SMTT(30)
  <1>5. CASE Goes(t, Looked(t))
    <2>1. (Looked(t) = "streaming" /\ t \in Streams) \/ Looked(t) = "saving"
      BY DEF Looked
    <2> QED
      BY <1>1, <1>2, <1>5, <2>1, GoesOn, Quiet
  <1> QED
    BY <1>3, <1>4, <1>5 DEF Answered

LEMMA LookStep ==
  ASSUME IInv, NEW t \in Turns, Look(t) PROVE IInv'
  <1>1. call[t].at = "reading" /\ lock = Free /\ UNCHANGED <<files, removed, told>>
    BY DEF Look, At
  <1>2. Shape
    BY DEF IInv
  <1>3. CASE Readable(call[t].prev)
    <2>1. /\ Shape' /\ call'[t].at = "touching" /\ call'[t].prev = call[t].prev
          /\ \A u \in Turns : u # t => call'[u] = call[u]
      BY <1>2, <1>3 DEF Look, Shape
    <2>2. lock' = t /\ call[t].prev \in DOMAIN files
      BY <1>3 DEF Look, Readable
    <2> QED
      BY <1>1, <2>1, <2>2, Quiet
  <1>4. CASE ~Readable(call[t].prev)
    <2>1. Goes(t, Looked(t)) /\ lock' = lock
      BY <1>4 DEF Look
    <2>2. (Looked(t) = "streaming" /\ t \in Streams) \/ Looked(t) = "saving"
      BY DEF Looked
    <2> QED
      BY <1>1, <1>2, <2>1, <2>2, GoesOn, Quiet
  <1> QED
    BY <1>3, <1>4

\* The record written back is one the lock has kept in its place.
LEMMA WriteBackStep ==
  ASSUME IInv, NEW t \in Turns, WriteBack(t) PROVE IInv'
  <1>1. /\ call[t].at = "touching" /\ lock = t /\ call[t].prev \in DOMAIN files
        /\ lock' = Free /\ UNCHANGED <<removed, told>> /\ Goes(t, Looked(t))
    BY DEF WriteBack, Touch, At, IInv, LockHeld
  <1>2. DOMAIN files' = DOMAIN files
    <2> DEFINE p == call[t].prev
               rec == [call[t].found[1] EXCEPT !.access = now]
    <2>1. CASE Touch(p, call[t].found[1])
      <3>1. files' = With(files, p, rec)
        BY <2>1 DEF Touch
      <3>2. DOMAIN files' = DOMAIN files \cup {p}
        <4> HIDE DEF rec
        <4> QED
          BY <3>1, FilesWith
      <3> QED
        BY <1>1, <3>2
    <2> QED
      BY <2>1 DEF WriteBack
  <1>3. (Looked(t) = "streaming" /\ t \in Streams) \/ Looked(t) = "saving"
    BY DEF Looked
  <1>4. /\ Shape'
        /\ \A u \in Turns : call'[u].at = IF u = t THEN Looked(t) ELSE call[u].at
        /\ \A u \in Turns : call'[u].prev = call[u].prev
    BY <1>1, GoesOn DEF IInv
  <1>5. \A u \in Turns : u # t => call[u].at # "touching"
    BY <1>1 DEF IInv, LockHeld, At
  <1>6. LockHeld'
    BY <1>3, <1>4, <1>5 DEF LockHeld, At
  <1>7. OverIsKept' /\ KnownTurns' /\ RemovedStaysRemoved' /\ ToldWhenOver'
    BY <1>1, <1>2, <1>3, <1>4 DEF IInv, OverIsKept, KnownTurns, RemovedStaysRemoved, ToldWhenOver, At
  <1> QED
    BY <1>4, <1>6, <1>7 DEF IInv

LEMMA StreamStep ==
  ASSUME IInv, NEW t \in Turns, Completes(t) \/ BreaksOff(t) \/ StreamEnds(t) PROVE IInv'
  <1>1. UNCHANGED <<files, removed, lock>> /\ Shape
    BY DEF Completes, BreaksOff, StreamEnds, store, IInv
  <1>2. CASE Completes(t)
    BY <1>1, <1>2, GoesOn, Quiet DEF Completes, At, IInv, ToldWhenOver
  <1>3. CASE BreaksOff(t)
    BY <1>1, <1>3, SettlesDown, Quiet DEF BreaksOff, At
  <1>4. CASE StreamEnds(t)
    BY <1>1, <1>4, GoesOn, Quiet DEF StreamEnds, At
  <1> QED
    BY <1>2, <1>3, <1>4

LEMMA WriteStep ==
  ASSUME IInv, NEW t \in Turns, StartSaving(t) \/ NotSaved(t) \/ Leaves(t) PROVE IInv'
  <1>1. UNCHANGED <<files, removed, told>> /\ Shape
    BY DEF StartSaving, NotSaved, Leaves, BeginWrite, FailWrite, IInv
  <1>2. lock' = lock \/ lock = Free \/ lock = t
    BY DEF StartSaving, NotSaved, Leaves, Released
  <1>3. CASE StartSaving(t)
    BY <1>1, <1>2, <1>3, GoesOn, Quiet DEF StartSaving, At
  <1>4. CASE NotSaved(t)
    BY <1>1, <1>2, <1>4, SettlesDown, Quiet DEF NotSaved, At
  <1>5. CASE Leaves(t)
    <2>1. call[t].at \in {"streaming", "completed", "saving", "writing"}
      BY <1>5 DEF Leaves, At
    <2>2. CASE Settles(t, "failed")
      BY <1>1, <1>2, <2>1, <2>2, SettlesDown, Quiet, SMTT(30)
    <2>3. CASE Goes(t, "orphaned")
      BY <1>1, <1>2, <2>1, <2>3, GoesOn, Quiet
    <2> QED
      BY <1>5, <2>2, <2>3 DEF Leaves
  <1> QED
    BY <1>3, <1>4, <1>5

\* A turn is put on disk once, and has been neither there nor removed before.
LEMMA SavedStep ==
  ASSUME IInv, NEW t \in Turns, Saved(t) PROVE IInv'
  <1>1. /\ call[t].at \in {"writing", "orphaned"} /\ removed' = removed
        /\ DOMAIN files' = DOMAIN files \cup {t} /\ Settles(t, "over")
        /\ told' \in {told, told \cup {t}} /\ lock' = IF lock = t THEN Free ELSE lock
    BY FilesWith DEF Saved, ReplaceFile, Released
  <1>2. /\ Shape'
        /\ \A u \in Turns : call'[u].at = IF u = t THEN "over" ELSE call[u].at
        /\ \A u \in Turns : u # t => call'[u].prev = call[u].prev
    BY <1>1, SettlesDown DEF IInv
  <1>3. t \notin DOMAIN files \cup removed
    BY <1>1 DEF IInv, OverIsKept, At
  <1>4. LockHeld'
    BY <1>1, <1>2 DEF IInv, LockHeld, At
  <1>5. OverIsKept' /\ KnownTurns' /\ RemovedStaysRemoved'
    BY <1>1, <1>2, <1>3 DEF IInv, OverIsKept, KnownTurns, RemovedStaysRemoved, At
  <1>6. ToldWhenOver'
    BY <1>1, <1>2 DEF IInv, ToldWhenOver, At
  <1> QED
    BY <1>2, <1>4, <1>5, <1>6 DEF IInv

-----------------------------------------------------------------------------
(* The cleanup, which finds the lock free, and the rest *)

LEMMA CleanupStep ==
  ASSUME IInv, UNCHANGED <<call, told, lock>>, lock = Free, NEW gone,
         gone \subseteq DOMAIN files,
         files' = Without(files, gone), removed' = removed \cup gone
  PROVE  IInv'
  <1>1. DOMAIN files' = DOMAIN files \ gone
    BY FilesWithout
  <1>2. \A t \in Turns : ~At(t, "touching")
    BY FileStoreAssumption DEF IInv, LockHeld
  <1>3. Shape' /\ LockHeld' /\ ToldWhenOver'
    BY <1>2 DEF IInv, Shape, LockHeld, ToldWhenOver, At
  <1>4. OverIsKept' /\ KnownTurns' /\ RemovedStaysRemoved'
    BY <1>1 DEF IInv, OverIsKept, KnownTurns, RemovedStaysRemoved, At
  <1> QED
    BY <1>3, <1>4 DEF IInv

LEMMA CleanExpiredStep == ASSUME IInv, CleanExpired PROVE IInv'
  <1> DEFINE expired == {t \in DOMAIN files : Expired(files[t])}
  <1>1. /\ lock = Free /\ UNCHANGED <<call, told, lock>> /\ expired \subseteq DOMAIN files
        /\ files' = Without(files, expired) /\ removed' = removed \cup expired
    BY DEF CleanExpired, cleanup_expired
  <1> QED
    BY <1>1, CleanupStep

LEMMA EvictOldestStep == ASSUME IInv, EvictOldest PROVE IInv'
  <1>1. PICK kept \in SUBSET Entries :
          LET gone == {e.t : e \in {x \in Entries \ kept : x.file}} IN
          files' = Without(files, gone) /\ removed' = removed \cup gone
    BY DEF EvictOldest, evict_lru
  <1> DEFINE gone == {e.t : e \in {x \in Entries \ kept : x.file}}
  <1>2. \A e \in Entries : e.file => e.t \in DOMAIN files
    BY DEF Entries
  <1>3. gone \subseteq DOMAIN files
    BY <1>2
  <1>4. lock = Free /\ UNCHANGED <<call, told, lock>>
    BY DEF EvictOldest, evict_lru
  <1> QED
    BY <1>1, <1>3, <1>4, CleanupStep

LEMMA OtherStep ==
  ASSUME IInv, UNCHANGED <<call, told, lock, files, removed>> PROVE IInv'
  BY DEF IInv, Shape, LockHeld, OverIsKept, KnownTurns, ToldWhenOver, RemovedStaysRemoved, At

LEMMA CrashStep == ASSUME IInv, Crash PROVE IInv'
  <1>1. UNCHANGED <<files, removed, told>>
    BY DEF Crash
  <1>2. /\ Shape'
        /\ \A t \in Turns : call'[t].at = IF call[t].at \in {"unsent", "over"}
                                        THEN call[t].at ELSE "failed"
    BY DEF IInv, Crash, Shape, Request, At
  <1> QED
    BY <1>1, <1>2 DEF IInv, LockHeld, OverIsKept, KnownTurns, ToldWhenOver, RemovedStaysRemoved, At

-----------------------------------------------------------------------------
LEMMA NextIInv == IInv /\ [Next]_vars => IInv'
  <1> SUFFICES ASSUME IInv, [Next]_vars PROVE IInv'
    OBVIOUS
  <1>1. ASSUME NEW t \in Turns, NEW prev \in Turns \cup {NoTurn}, Ask(t, prev) PROVE IInv'
    BY <1>1, AskStep
  <1>2. ASSUME NEW t \in Turns, Answered(t) \/ Completes(t) \/ BreaksOff(t) \/ Leaves(t)
        PROVE IInv'
    BY <1>2, AnsweredStep, StreamStep, WriteStep
  <1>3. ASSUME NEW t \in Turns, Proceed(t) PROVE IInv'
    <2>1. CASE Flush(t)
      BY <2>1, OtherStep DEF Flush, FlushWrite
    <2> QED
      BY <1>3, <2>1, LookStep, WriteBackStep, StreamStep, WriteStep, SavedStep DEF Proceed
  <1>4. CASE ChangeSettings \/ Tick \/ UNCHANGED vars
    BY <1>4, OtherStep DEF ChangeSettings, reload_responses_store, Tick, vars, store
  <1> QED
    BY <1>1, <1>2, <1>3, <1>4, CleanExpiredStep, EvictOldestStep, CrashStep DEF Next

LEMMA Inductive == Spec => []IInv
  BY InitIInv, NextIInv, PTL DEF Spec

\* What the cleanup has removed stays removed (state_store.py, get_conversation,
\* cleanup_expired, evict_lru).
THEOREM NothingResurrected == Spec => []RemovedStaysRemoved
  <1>1. IInv => RemovedStaysRemoved
    BY DEF IInv
  <1> QED
    BY Inductive, <1>1, PTL

\* A client that was answered can go on until the cleanup removes the turn
\* (proxy_response.py, post_response and _stateful_stream).
THEOREM AnswersAreKept == Spec => []AnswerMeansKept
  <1>1. IInv => AnswerMeansKept
    BY DEF IInv, OverIsKept, ToldWhenOver, AnswerMeansKept
  <1> QED
    BY Inductive, <1>1, PTL

-----------------------------------------------------------------------------
(* Conversations: what is on disk, in a temporary file or in the hands of a  *)
(* request that read it ends the true conversation of its turn.              *)

\* s is how c ends: IsSuffix, counted from the end.
Ends(s, c) ==
  /\ s \in Seq(Turns) /\ c \in Seq(Turns) /\ s # <<>> /\ Len(s) <= Len(c)
  /\ \A i \in 0..Len(s) - 1 : s[Len(s) - i] = c[Len(c) - i]

LEMMA EndsIsSuffix ==
  ASSUME NEW s, NEW c, Ends(s, c)
  PROVE  s # <<>> /\ IsSuffix(s, c)
  <1> DEFINE r == Reverse(s)
             q == Reverse(c)
  <1>1. /\ s \in Seq(Turns) /\ c \in Seq(Turns) /\ Len(s) \in Nat /\ Len(c) \in Nat
        /\ Len(s) <= Len(c) /\ DOMAIN s = 1..Len(s) /\ DOMAIN c = 1..Len(c)
    BY DEF Ends
  <1>2. /\ r = [i \in 1..Len(s) |-> s[(Len(s) - i) + 1]]
        /\ q = [i \in 1..Len(c) |-> c[(Len(c) - i) + 1]]
    BY DEF Reverse
  <1>3. r \in Seq(Turns) /\ q \in Seq(Turns) /\ Len(r) = Len(s) /\ Len(q) = Len(c)
    <2>1. \A i \in 1..Len(s) : s[(Len(s) - i) + 1] \in Turns
      BY <1>1
    <2>2. \A i \in 1..Len(c) : c[(Len(c) - i) + 1] \in Turns
      BY <1>1
    <2> QED
      BY <1>1, <1>2, <2>1, <2>2
  <1>4. \A i \in 1..Len(s) : r[i] = q[i]
    <2> SUFFICES ASSUME NEW i \in 1..Len(s) PROVE r[i] = q[i]
      OBVIOUS
    <2>1. i - 1 \in 0..Len(s) - 1 /\ i \in 1..Len(c)
      BY <1>1
    <2>2. s[Len(s) - (i - 1)] = c[Len(c) - (i - 1)]
      BY <2>1 DEF Ends
    <2>3. Len(s) - (i - 1) = (Len(s) - i) + 1 /\ Len(c) - (i - 1) = (Len(c) - i) + 1
      BY <1>1
    <2> QED
      BY <1>2, <2>1, <2>2, <2>3
  <1> HIDE DEF r, q
  <1>5. SubSeq(r, 1, Len(r)) = SubSeq(q, 1, Len(r))
    <2>1. /\ DOMAIN SubSeq(r, 1, Len(r)) = 1..Len(r) /\ DOMAIN SubSeq(q, 1, Len(r)) = 1..Len(r)
          /\ \A i \in 1..Len(r) : SubSeq(r, 1, Len(r))[i] = r[i] /\ SubSeq(q, 1, Len(r))[i] = q[i]
          /\ SubSeq(r, 1, Len(r)) \in Seq(Turns) /\ SubSeq(q, 1, Len(r)) \in Seq(Turns)
      BY <1>1, <1>3
    <2> QED
      BY <1>1, <1>3, <1>4, <2>1
  <1>6. IsPrefix(r, q)
    BY <1>1, <1>3, <1>5 DEF IsPrefix
  <1> QED
    BY <1>6 DEF IsSuffix, r, q, Ends

\* A conversation that goes on, and one whose beginning is not known.
LEMMA EndsGoOn ==
  ASSUME NEW s, NEW c, Ends(s, c), NEW t \in Turns
  PROVE  Ends(Append(s, t), Append(c, t))
  <1> DEFINE a == Append(s, t)
             b == Append(c, t)
  <1>1. /\ s \in Seq(Turns) /\ c \in Seq(Turns) /\ Len(s) \in Nat /\ Len(c) \in Nat
        /\ Len(s) <= Len(c)
    BY DEF Ends
  <1>2. /\ a \in Seq(Turns) /\ b \in Seq(Turns) /\ Len(a) = Len(s) + 1 /\ Len(b) = Len(c) + 1
        /\ a[Len(s) + 1] = t /\ b[Len(c) + 1] = t
        /\ \A i \in 1..Len(s) : a[i] = s[i]
        /\ \A i \in 1..Len(c) : b[i] = c[i]
    BY <1>1
  <1> HIDE DEF a, b
  <1>3. \A i \in 0..Len(a) - 1 : a[Len(a) - i] = b[Len(b) - i]
    <2> SUFFICES ASSUME NEW i \in 0..Len(a) - 1 PROVE a[Len(a) - i] = b[Len(b) - i]
      OBVIOUS
    <2>1. CASE i = 0
      BY <1>1, <1>2, <2>1
    <2>2. CASE i # 0
      <3>1. /\ i - 1 \in 0..Len(s) - 1
            /\ Len(a) - i = Len(s) - (i - 1) /\ Len(b) - i = Len(c) - (i - 1)
            /\ Len(s) - (i - 1) \in 1..Len(s) /\ Len(c) - (i - 1) \in 1..Len(c)
        BY <1>1, <1>2, <2>2
      <3>2. s[Len(s) - (i - 1)] = c[Len(c) - (i - 1)]
        BY <3>1 DEF Ends
      <3> QED
        BY <1>2, <3>1, <3>2
    <2> QED
      BY <2>1, <2>2
  <1>4. a # <<>> /\ Len(a) <= Len(b)
    BY <1>1, <1>2
  <1> QED
    BY <1>2, <1>3, <1>4 DEF Ends, a, b

LEMMA EndsAlone ==
  ASSUME NEW t \in Turns, NEW c \in Seq(Turns)
  PROVE  /\ <<t>> \in Seq(Turns) /\ Append(<<>>, t) = <<t>>
         /\ Ends(<<t>>, <<t>>) /\ Ends(<<t>>, Append(c, t)) /\ Append(c, t) \in Seq(Turns)
  <1>1. <<t>> \in Seq(Turns) /\ Len(<<t>>) = 1 /\ <<t>>[1] = t /\ <<t>> # <<>>
        /\ Append(<<>>, t) = <<t>>
    OBVIOUS
  <1> DEFINE b == Append(c, t)
             a == <<t>>
  <1>2. /\ b \in Seq(Turns) /\ Len(b) = Len(c) + 1 /\ b[Len(c) + 1] = t /\ Len(c) \in Nat
    OBVIOUS
  <1>3. a \in Seq(Turns) /\ Len(a) = 1 /\ a[1] = t /\ a # <<>>
    BY <1>1
  <1> HIDE DEF a, b
  <1>4. Ends(a, a)
    BY <1>3 DEF Ends
  <1>5. Ends(a, b)
    <2>1. \A i \in 0..Len(a) - 1 : i = 0
      BY <1>3
    <2> QED
      BY <1>2, <1>3, <2>1 DEF Ends
  <1> QED
    BY <1>1, <1>2, <1>4, <1>5 DEF a, b

Kept(rec, t) == rec \in Record /\ Ends(rec.said, chain[t])

Active(t) == call[t].at \in {"asked", "reading", "touching", "streaming", "completed", "saving"}

\* Only a turn that was asked for is known to a client or has a temporary file.
Known ==
  /\ chain \in [Turns -> Seq(Turns)] /\ now \in Nat /\ limits \in Settings
  /\ told \subseteq Turns /\ DOMAIN temps \subseteq Turns
  /\ \A t \in Turns : At(t, "unsent") => t \notin told \cup DOMAIN temps

\* The turn before is one its client knows, and the conversation goes on from it.
Linked(t) ==
  Active(t) =>
    \/ call[t].prev = NoTurn /\ chain[t] = <<t>>
    \/ call[t].prev \in told /\ chain[t] = Append(chain[call[t].prev], t)

\* What a request has found is kept of the turn before.
Read(t) ==
  /\ At(t, "touching") => call[t].found # <<>>
  /\ call[t].found # <<>> =>
       /\ call[t].prev \in told /\ DOMAIN call[t].found = {1}
       /\ Kept(call[t].found[1], call[t].prev)

OnDisk ==
  /\ \A t \in DOMAIN files : Kept(files[t], t)
  /\ \A t \in DOMAIN temps :
       /\ DOMAIN temps[t] = {"rec", "whole"}
       /\ Kept(temps[t].rec, t)

UInv == IInv /\ Known /\ (\A t \in Turns : Linked(t) /\ Read(t)) /\ OnDisk

\* One request moves on, knowing what it knew, and nothing is written.
LEMMA OneMoves ==
  ASSUME UInv, IInv', NEW t \in Turns, UNCHANGED <<chain, now, limits, files, temps>>,
         \A u \in Turns : u # t => call'[u] = call[u],
         ~At(t, "unsent"), call'[t].at # "unsent",
         told' = told \/ told' = told \cup {t},
         Linked(t)', Read(t)'
  PROVE  UInv'
  <1>1. Known'
    BY DEF UInv, Known, At
  <1>2. \A u \in Turns : u # t => Linked(u)' /\ Read(u)'
    BY SMTT(30) DEF UInv, Linked, Active, Read, Kept, At
  <1>3. OnDisk'
    BY DEF UInv, OnDisk, Kept
  <1> QED
    BY <1>1, <1>2, <1>3 DEF UInv

\* On its way a request forgets nothing; when it settles it forgets all.
LEMMA GoesRemembering ==
  ASSUME UInv, NEW t \in Turns, NEW stage, Goes(t, stage), UNCHANGED chain, told \subseteq told',
         Active(t), stage = "touching" => call[t].found # <<>>
  PROVE  /\ Linked(t)' /\ Read(t)' /\ call'[t].at = stage
         /\ \A u \in Turns : u # t => call'[u] = call[u]
  <1>1. /\ call'[t].at = stage /\ call'[t].prev = call[t].prev /\ call'[t].found = call[t].found
        /\ \A u \in Turns : u # t => call'[u] = call[u]
    BY DEF UInv, IInv, Shape, Goes
  <1> QED
    BY <1>1 DEF UInv, Linked, Active, Read, Kept, At

LEMMA SettlesForgetting ==
  ASSUME UInv, NEW t \in Turns, NEW stage, Settles(t, stage), stage \in {"over", "failed"}
  PROVE  /\ Linked(t)' /\ Read(t)' /\ call'[t].at = stage
         /\ \A u \in Turns : u # t => call'[u] = call[u]
  <1>1. /\ call'[t].at = stage /\ call'[t].found = <<>>
        /\ \A u \in Turns : u # t => call'[u] = call[u]
    BY DEF UInv, IInv, Shape, Settles, Request
  <1> QED
    BY <1>1 DEF Linked, Active, Read, At

LEMMA AskUnbroken ==
  ASSUME UInv, IInv', NEW t \in Turns, NEW prev \in Turns \cup {NoTurn}, Ask(t, prev)
  PROVE  UInv'
  <1>1. /\ At(t, "unsent") /\ prev \in told \cup {NoTurn} /\ prev # t
        /\ UNCHANGED <<now, files, temps, limits, told>>
        /\ call'[t].at = "asked" /\ call'[t].prev = prev /\ call'[t].found = <<>>
        /\ \A u \in Turns : u # t => call'[u] = call[u]
    BY ResponsesAssumption DEF Ask, UInv, IInv, Shape, Request, Known, store, ResponsesAssumption
  <1>2. NoTurn \notin told /\ t \notin told /\ t \notin DOMAIN temps /\ t \notin DOMAIN files
    BY <1>1, ResponsesAssumption DEF UInv, Known, ResponsesAssumption, IInv, OverIsKept, At
  <1>3. /\ chain' \in [Turns -> Seq(Turns)]
        /\ chain'[t] = IF prev = NoTurn THEN <<t>> ELSE Append(chain[prev], t)
        /\ \A u \in Turns : u # t => chain'[u] = chain[u]
    <2>1. chain' = [chain EXCEPT ![t] = IF prev = NoTurn THEN <<t>> ELSE Append(chain[prev], t)]
      BY DEF Ask
    <2>2. prev # NoTurn => chain[prev] \in Seq(Turns)
      BY DEF UInv, Known
    <2>3. <<t>> \in Seq(Turns) /\ (prev # NoTurn => Append(chain[prev], t) \in Seq(Turns))
      BY <2>2
    <2> QED
      BY <2>1, <2>3 DEF UInv, Known
  <1>4. Known'
    BY <1>1, <1>3 DEF UInv, Known, At
  <1>5. Linked(t)' /\ Read(t)'
    BY <1>1, <1>2, <1>3 DEF Linked, Read, At
  <1>6. ASSUME NEW u \in Turns, u # t PROVE Linked(u)' /\ Read(u)'
    <2>2. call'[u] = call[u] /\ chain'[u] = chain[u] /\ told' = told /\ Linked(u) /\ Read(u)
      BY <1>1, <1>3, <1>6 DEF UInv
    <2>3. call[u].prev \in told => chain'[call[u].prev] = chain[call[u].prev]
      BY <1>2, <1>3 DEF UInv, Known
    <2>4. Linked(u)'
      BY <2>2, <2>3 DEF Linked, Active
    <2>5. Read(u)'
      BY <2>2, <2>3 DEF Read, Kept, At
    <2> QED
      BY <2>4, <2>5
  <1>7. OnDisk'
    BY <1>1, <1>2, <1>3 DEF UInv, OnDisk, Kept, Known, IInv, KnownTurns
  <1> QED
    BY <1>4, <1>5, <1>6, <1>7 DEF UInv

LEMMA AnsweredUnbroken ==
  ASSUME UInv, IInv', NEW t \in Turns, Answered(t) PROVE UInv'
  <1>1. At(t, "asked") /\ UNCHANGED <<chain, now, limits, files, temps, told>>
    BY DEF Answered, store
  <1>2. CASE Settles(t, "failed")
    BY <1>1, <1>2, SettlesForgetting, OneMoves DEF At
  <1>3. ASSUME NEW stage \in {"reading", "streaming", "saving"}, Goes(t, stage) PROVE UInv'
    BY <1>1, <1>3, GoesRemembering, OneMoves DEF At, Active
  <1> QED
    BY <1>2, <1>3 DEF Answered, Looked

\* The record found is kept of the turn before, which is not "no turn".
LEMMA LookUnbroken ==
  ASSUME UInv, IInv', NEW t \in Turns, Look(t) PROVE UInv'
  <1>1. At(t, "reading") /\ UNCHANGED <<chain, now, limits, files, temps, told>>
    BY DEF Look
  <1>2. CASE Readable(call[t].prev)
    <2> DEFINE p == call[t].prev
    <2>1. p \in DOMAIN files /\ p \in Turns /\ Kept(files[p], p)
      BY <1>2 DEF Readable, UInv, OnDisk, IInv, KnownTurns
    <2>2. /\ call'[t].at = "touching" /\ call'[t].prev = p /\ call'[t].found = <<files[p]>>
          /\ \A u \in Turns : u # t => call'[u] = call[u]
      BY <1>2, SMTT(30) DEF Look, UInv, IInv, Shape
    <2>3. Linked(t)' /\ p \in told
      BY <1>1, <2>1, <2>2, ResponsesAssumption DEF UInv, Linked, Active, At, ResponsesAssumption
    <2>4. Read(t)'
      <3>1. <<files[p]>> # <<>> /\ DOMAIN <<files[p]>> = {1} /\ <<files[p]>>[1] = files[p]
        OBVIOUS
      <3>2. /\ call'[t].found # <<>> /\ DOMAIN call'[t].found = {1} /\ call'[t].found[1] = files[p]
        BY <2>2, <3>1
      <3> QED
        BY <1>1, <2>1, <2>2, <2>3, <3>2 DEF Read, Kept, At
    <2> QED
      BY <1>1, <2>2, <2>3, <2>4, OneMoves DEF At
  <1>3. CASE ~Readable(call[t].prev)
    <2>1. Goes(t, Looked(t)) /\ Looked(t) \in {"streaming", "saving"}
      BY <1>3 DEF Look, Looked
    <2> QED
      BY <1>1, <2>1, GoesRemembering, OneMoves DEF At, Active
  <1> QED
    BY <1>2, <1>3

\* Only the time of access of the record changes.
LEMMA WriteBackUnbroken ==
  ASSUME UInv, IInv', NEW t \in Turns, WriteBack(t) PROVE UInv'
  <1>1. /\ At(t, "touching") /\ UNCHANGED <<chain, now, limits, temps, told>>
        /\ Goes(t, Looked(t)) /\ Looked(t) \in {"streaming", "saving"}
    BY DEF WriteBack, Touch, Looked
  <1>2. /\ Linked(t)' /\ Read(t)' /\ call'[t].at \in {"streaming", "saving"}
        /\ \A u \in Turns : u # t => call'[u] = call[u]
    BY <1>1, GoesRemembering DEF At, Active
  <1>3. Known'
    BY <1>1, <1>2, SMTT(30) DEF UInv, Known, At
  <1>4. \A u \in Turns : u # t => Linked(u)' /\ Read(u)'
    BY <1>1, <1>2, ZenonT(60) DEF UInv, Linked, Active, Read, Kept, At
  <1>5. OnDisk'
    <2> DEFINE p == call[t].prev
               rec == call[t].found[1]
               new == [rec EXCEPT !.access = now]
    <2>1. CASE Touch(p, rec)
      <3>1. Kept(rec, p)
        BY <1>1 DEF UInv, Read
      <3>2. new \in Record /\ new.said = rec.said
        BY <3>1 DEF Kept, Record, UInv, Known
      <3>3. Kept(new, p)
        BY <3>1, <3>2 DEF Kept
      <3>4. files' = With(files, p, new)
        BY <2>1 DEF Touch
      <3> HIDE DEF new, rec
      <3>5. \A u \in DOMAIN files' : Kept(files'[u], u)
        BY <3>3, <3>4 DEF With, UInv, OnDisk
      <3> QED
        BY <1>1, <3>5 DEF OnDisk, Kept, UInv
    <2>2. CASE UNCHANGED files
      BY <1>1, <2>2 DEF OnDisk, Kept, UInv
    <2> QED
      BY <2>1, <2>2 DEF WriteBack
  <1> QED
    BY <1>3, <1>2, <1>4, <1>5 DEF UInv

LEMMA StreamUnbroken ==
  ASSUME UInv, IInv', NEW t \in Turns, Completes(t) \/ BreaksOff(t) \/ StreamEnds(t) PROVE UInv'
  <1>1. /\ UNCHANGED <<chain, now, limits, files, temps>> /\ told' \in {told, told \cup {t}}
        /\ call[t].at \in {"streaming", "completed"}
    BY DEF Completes, BreaksOff, StreamEnds, store, At
  <1>2. CASE BreaksOff(t)
    BY <1>1, <1>2, SettlesForgetting, OneMoves DEF BreaksOff, At
  <1>3. ASSUME NEW stage \in {"completed", "saving"}, Goes(t, stage) PROVE UInv'
    BY <1>1, <1>3, GoesRemembering, OneMoves DEF At, Active
  <1> QED
    BY <1>2, <1>3 DEF Completes, StreamEnds

\* A turn is written with what was found of the conversation before it.
LEMMA SavesTheEnd ==
  ASSUME UInv, NEW t \in Turns, call[t].at \in {"completed", "saving"}
  PROVE  Conversation(t) \in Seq(Turns) /\ Ends(Conversation(t), chain[t])
  <1>1. \/ call[t].prev = NoTurn /\ chain[t] = <<t>>
        \/ call[t].prev \in told /\ chain[t] = Append(chain[call[t].prev], t)
    BY DEF UInv, Linked, Active
  <1>2. \A u \in told : u \in Turns /\ chain[u] \in Seq(Turns)
    BY SMTT(30) DEF UInv, Known
  <1>3. CASE call[t].found = <<>>
    <2>1. Conversation(t) = <<t>> /\ <<t>> \in Seq(Turns)
      <3>1. <<>> \in Seq(Turns)
        OBVIOUS
      <3> QED
        BY <1>3, <3>1, EndsAlone DEF Conversation
    <2>2. CASE call[t].prev = NoTurn /\ chain[t] = <<t>>
      <3>1. Ends(<<t>>, <<t>>)
        <4>1. <<>> \in Seq(Turns)
          OBVIOUS
        <4> QED
          BY <4>1, EndsAlone
      <3> QED
        BY <2>1, <2>2, <3>1
    <2>3. CASE call[t].prev \in told /\ chain[t] = Append(chain[call[t].prev], t)
      <3>1. chain[call[t].prev] \in Seq(Turns)
        BY <1>2, <2>3
      <3>2. Ends(<<t>>, Append(chain[call[t].prev], t))
        BY <3>1, EndsAlone, Zenon
      <3> QED
        BY <2>1, <2>3, <3>2
    <2> QED
      BY <1>1, <2>2, <2>3
  <1>4. CASE call[t].found # <<>>
    <2> DEFINE p == call[t].prev
               said == call[t].found[1].said
    <2>1. p \in told /\ Ends(said, chain[p])
      BY <1>4 DEF UInv, Read, Kept
    <2>2. p # NoTurn
      BY <1>2, <2>1, ResponsesAssumption, SMTT(30) DEF ResponsesAssumption
    <2>3. Conversation(t) = Append(said, t) /\ chain[t] = Append(chain[p], t)
      BY <1>1, <1>4, <2>2 DEF Conversation
    <2>4. Ends(Append(said, t), Append(chain[p], t))
      BY <2>1, EndsGoOn
    <2> QED
      BY <2>3, <2>4, Zenon DEF Ends
  <1> QED
    BY <1>3, <1>4

\* A temporary file begun, finished, put in its place or given up.
LEMMA WriteUnbroken ==
  ASSUME UInv, IInv', NEW t \in Turns,
         StartSaving(t) \/ Flush(t) \/ Saved(t) \/ NotSaved(t) \/ Leaves(t)
  PROVE  UInv'
  <1>1. UNCHANGED <<chain, now, limits>> /\ told' \in {told, told \cup {t}}
    BY DEF StartSaving, Flush, Saved, NotSaved, Leaves, BeginWrite, FlushWrite, ReplaceFile, FailWrite
  <1>2. ~At(t, "unsent")
    BY DEF StartSaving, Flush, Saved, NotSaved, Leaves, At
  <1>3. /\ call'[t].at # "unsent" /\ Linked(t)' /\ Read(t)'
        /\ \A u \in Turns : u # t => call'[u] = call[u]
    <2>1. CASE call' = call
      BY <1>1, <1>2, <2>1 DEF UInv, Linked, Active, Read, Kept, At
    <2>2. ASSUME NEW stage \in {"over", "failed"}, Settles(t, stage)
          PROVE  /\ Linked(t)' /\ Read(t)' /\ call'[t].at # "unsent"
                 /\ \A u \in Turns : u # t => call'[u] = call[u]
      BY <2>2, SettlesForgetting, SMTT(30)
    <2>3. ASSUME NEW stage \in {"writing", "orphaned"}, Goes(t, stage), told' = told,
                 call[t].at \in {"completed", "saving", "writing"}
          PROVE  /\ Linked(t)' /\ Read(t)' /\ call'[t].at # "unsent"
                 /\ \A u \in Turns : u # t => call'[u] = call[u]
      <3>1. /\ call'[t].at = stage /\ call'[t].prev = call[t].prev /\ call'[t].found = call[t].found
            /\ \A u \in Turns : u # t => call'[u] = call[u]
        BY <2>3, SMTT(30) DEF UInv, IInv, Shape, Goes
      <3> QED
        BY <1>1, <2>3, <3>1 DEF UInv, Linked, Active, Read, Kept, At
    <2> QED
      BY <2>1, <2>2, <2>3, SMTT(30) DEF StartSaving, Flush, Saved, NotSaved, Leaves, At
  <1>4. \A u \in Turns : u # t => Linked(u)' /\ Read(u)'
    BY <1>1, <1>3, ZenonT(60) DEF UInv, Linked, Active, Read, Kept, At
  <1>5. /\ DOMAIN temps' \subseteq DOMAIN temps \cup {t}
        /\ \A u \in DOMAIN temps' :
             /\ DOMAIN temps'[u] = {"rec", "whole"}
             /\ Kept(temps'[u].rec, u)
    <2> DEFINE said == Conversation(t)
               rec  == [said |-> said, expires |-> now + limits.ttl, access |-> now]
    <2>1. CASE BeginWrite(t, Conversation(t)) /\ call[t].at \in {"completed", "saving"}
      <3>1. rec \in Record /\ rec.said = said
        <4>1. said \in Seq(Turns)
          BY <2>1, SavesTheEnd
        <4>2. now \in Nat /\ limits.ttl \in Nat
          BY FileStoreAssumption DEF UInv, Known, FileStoreAssumption
        <4> HIDE DEF said
        <4> QED
          BY <4>1, <4>2 DEF Record
      <3>2. Kept(rec, t)
        BY <2>1, <3>1, SavesTheEnd DEF Kept
      <3>3. temps' = With(temps, t, [rec |-> rec, whole |-> FALSE])
        BY <2>1 DEF BeginWrite
      <3> HIDE DEF rec
      <3> QED
        BY <3>2, <3>3 DEF With, UInv, OnDisk
    <2>2. CASE FlushWrite(t)
      <3>1. temps' = [temps EXCEPT ![t] = [temps[t] EXCEPT !.whole = TRUE]] /\ t \in DOMAIN temps
        BY <2>2 DEF FlushWrite
      <3>2. DOMAIN temps[t] = {"rec", "whole"} /\ Kept(temps[t].rec, t)
        BY <3>1 DEF UInv, OnDisk
      <3>3. /\ DOMAIN [temps[t] EXCEPT !.whole = TRUE] = {"rec", "whole"}
            /\ [temps[t] EXCEPT !.whole = TRUE].rec = temps[t].rec
        BY <3>2
      <3> QED
        BY <3>1, <3>2, <3>3 DEF UInv, OnDisk
    <2>3. CASE temps' = temps \/ temps' = Without(temps, {t})
      BY <2>3 DEF Without, UInv, OnDisk
    <2> QED
      BY <2>1, <2>2, <2>3 DEF StartSaving, Flush, Saved, NotSaved, Leaves, ReplaceFile, FailWrite, At
  <1>6. \A u \in DOMAIN files' : Kept(files'[u], u)
    <2>1. CASE Saved(t)
      <3>1. t \in DOMAIN temps /\ files' = With(files, t, temps[t].rec)
        BY <2>1 DEF Saved, ReplaceFile
      <3>2. Kept(temps[t].rec, t)
        BY <3>1 DEF UInv, OnDisk
      <3> QED
        BY <3>1, <3>2 DEF With, UInv, OnDisk
    <2>2. CASE files' = files
      BY <2>2 DEF UInv, OnDisk
    <2> QED
      BY <2>1, <2>2 DEF StartSaving, Flush, NotSaved, Leaves, BeginWrite, FlushWrite, FailWrite
  <1>7. OnDisk'
    BY <1>1, <1>5, <1>6 DEF OnDisk, Kept
  <1>8. Known'
    BY <1>1, <1>2, <1>3, <1>5 DEF UInv, Known, At
  <1> QED
    BY <1>3, <1>4, <1>7, <1>8 DEF UInv

\* Whatever takes files away, or nothing.
LEMMA RestUnbroken ==
  ASSUME UInv, IInv', UNCHANGED <<call, told, chain>>, now' \in Nat, limits' \in Settings,
         NEW gone, NEW lost, files' = files \/ files' = Without(files, gone),
         temps' = temps \/ temps' = Without(temps, lost)
  PROVE  UInv'
  <1>1. /\ DOMAIN files' \subseteq DOMAIN files /\ \A t \in DOMAIN files' : files'[t] = files[t]
        /\ DOMAIN temps' \subseteq DOMAIN temps /\ \A t \in DOMAIN temps' : temps'[t] = temps[t]
    BY DEF Without
  <1>2. Known'
    BY <1>1, SMTT(30) DEF UInv, Known, At
  <1>3. \A t \in Turns : Linked(t)' /\ Read(t)'
    BY DEF UInv, Linked, Active, Read, Kept, At
  <1>4. OnDisk'
    BY <1>1 DEF UInv, OnDisk, Kept
  <1> QED
    BY <1>2, <1>3, <1>4 DEF UInv

LEMMA CrashUnbroken ==
  ASSUME UInv, IInv', Crash PROVE UInv'
  <1>1. UNCHANGED <<chain, now, limits, files, temps, told>>
    BY DEF Crash
  <1>2. \A t \in Turns :
          \/ call'[t] = call[t] /\ call[t].at \in {"unsent", "over"}
          \/ call'[t].at = "failed" /\ call'[t].found = <<>> /\ call[t].at # "unsent"
    BY DEF Crash, Request, At
  <1>3. Known'
    BY <1>1, <1>2, SMTT(30) DEF UInv, Known, At
  <1>4. \A t \in Turns : Linked(t)' /\ Read(t)'
    BY <1>1, <1>2, ZenonT(60) DEF UInv, Linked, Active, Read, Kept, At
  <1>5. OnDisk'
    BY <1>1 DEF UInv, OnDisk, Kept
  <1> QED
    BY <1>3, <1>4, <1>5 DEF UInv

LEMMA InitUInv == Init => UInv
  <1> SUFFICES ASSUME Init PROVE UInv
    OBVIOUS
  <1>1. /\ \A t \in Turns : call[t].at = "unsent" /\ call[t].found = <<>>
        /\ DOMAIN files = {} /\ DOMAIN temps = {} /\ told = {}
    BY DEF Init, StoreInit, Request
  <1>2. <<>> \in Seq(Turns)
    OBVIOUS
  <1>3. chain \in [Turns -> Seq(Turns)]
    BY <1>2 DEF Init
  <1> QED
    BY <1>1, <1>3, InitIInv DEF Init, StoreInit, UInv, Known, Linked, Active, Read, OnDisk, At

LEMMA NextUInv == UInv /\ [Next]_vars => UInv'
  <1> SUFFICES ASSUME UInv, [Next]_vars PROVE UInv'
    OBVIOUS
  <1>1. IInv'
    BY NextIInv DEF UInv
  <1>2. ASSUME NEW t \in Turns, NEW prev \in Turns \cup {NoTurn}, Ask(t, prev) PROVE UInv'
    BY <1>1, <1>2, AskUnbroken
  <1>3. ASSUME NEW t \in Turns,
               Answered(t) \/ Completes(t) \/ BreaksOff(t) \/ Leaves(t) \/ Proceed(t)
        PROVE UInv'
    BY <1>1, <1>3, AnsweredUnbroken, StreamUnbroken, LookUnbroken, WriteBackUnbroken,
       WriteUnbroken DEF Proceed
  <1>4. now \in Nat /\ limits \in Settings
    BY DEF UInv, Known
  <1>5. CASE CleanExpired
    <2> DEFINE expired == {t \in DOMAIN files : Expired(files[t])}
               dead    == {t \in DOMAIN temps : Dead(t)}
    <2>1. /\ UNCHANGED <<call, told, chain, now, limits>>
          /\ files' = Without(files, expired) /\ temps' = Without(temps, dead)
      BY <1>5 DEF CleanExpired, cleanup_expired
    <2> QED
      BY <1>1, <1>4, <2>1, RestUnbroken
  <1>6. CASE EvictOldest
    <2>1. PICK kept \in SUBSET Entries :
            /\ files' = Without(files, {e.t : e \in {x \in Entries \ kept : x.file}})
            /\ temps' = Without(temps, {e.t : e \in {x \in Entries \ kept : ~x.file}})
      BY <1>6 DEF EvictOldest, evict_lru
    <2>2. UNCHANGED <<call, told, chain, now, limits>>
      BY <1>6 DEF EvictOldest, evict_lru
    <2> QED
      BY <1>1, <1>4, <2>1, <2>2, RestUnbroken
  <1>7. CASE ChangeSettings \/ Tick \/ UNCHANGED vars
    <2>1. UNCHANGED <<call, told, chain, files, temps>> /\ now' \in Nat /\ limits' \in Settings
      BY <1>4, <1>7 DEF ChangeSettings, reload_responses_store, Tick, vars, store
    <2> QED
      BY <1>1, <2>1, RestUnbroken
  <1> QED
    BY <1>1, <1>2, <1>3, <1>5, <1>6, <1>7, CrashUnbroken DEF Next

\* A conversation on disk is a run of turns without a gap that ends with the turn
\* it is kept for, whatever was removed, expired, read back or not saved before
\* (proxy_response.py, _save_response_state).
THEOREM ConversationsAreUnbroken == Spec => []ConversationUnbroken
  <1>1. UInv => ConversationUnbroken
    BY EndsIsSuffix DEF UInv, OnDisk, Kept, ConversationUnbroken
  <1> QED
    BY InitUInv, NextUInv, <1>1, PTL DEF Spec

-----------------------------------------------------------------------------
(* The cleanup's two passes: what the first leaves has not expired by then,  *)
(* in a temporary file or in the hands of a reader either, and what is       *)
(* written later lives longer.                                               *)

Outlives(rec) == rec.expires >= cleaner

Fresh ==
  /\ cleaner \in Nat
  /\ cleaner # 0 =>
       /\ cleaner <= now
       /\ \A t \in DOMAIN files : Outlives(files[t])
       /\ \A t \in DOMAIN temps : Outlives(temps[t].rec)
       /\ \A t \in Turns : At(t, "touching") => Outlives(call[t].found[1])

FInv == UInv /\ Fresh

\* Nothing is written.
LEMMA FreshUnwritten ==
  ASSUME Fresh, UNCHANGED cleaner, now' \in Nat, now <= now', now \in Nat,
         UNCHANGED files, UNCHANGED temps,
         \A t \in Turns : At(t, "touching")' => At(t, "touching") /\ call'[t] = call[t]
  PROVE  Fresh'
  BY DEF Fresh, Outlives, At

LEMMA LookFresh ==
  ASSUME FInv, NEW t \in Turns, Look(t) PROVE Fresh'
  <1>1. UNCHANGED <<cleaner, now, files, temps>>
    BY DEF Look
  <1>2. \A u \in Turns : u # t => call'[u] = call[u]
    BY DEF Look, Goes, FInv, UInv, IInv, Shape
  <1>3. ASSUME cleaner # 0, At(t, "touching")' PROVE Outlives(call'[t].found[1])
    <2> DEFINE p == call[t].prev
    <2>1. Readable(p)
      BY <1>3 DEF Look, Goes, Looked, At, FInv, UInv, IInv, Shape
    <2>2. call' = [call EXCEPT ![t].at = "touching", ![t].found = <<files[p]>>]
      BY <2>1 DEF Look
    <2>3. call'[t].found = <<files[p]>>
      BY <2>2 DEF FInv, UInv, IInv, Shape
    <2>4. Outlives(files[p])
      BY <1>3, <2>1 DEF FInv, Fresh, Readable
    <2> QED
      BY <2>3, <2>4
  <1> QED
    BY <1>1, <1>2, <1>3 DEF FInv, Fresh, Outlives, At

\* The record that goes back is the one that was read.
LEMMA WriteBackFresh ==
  ASSUME FInv, NEW t \in Turns, WriteBack(t) PROVE Fresh' /\ DOMAIN files \subseteq DOMAIN files'
  <1> DEFINE p == call[t].prev
             rec == call[t].found[1]
             new == [rec EXCEPT !.access = now]
  <1>1. At(t, "touching") /\ UNCHANGED <<cleaner, now, temps>>
    BY DEF WriteBack, Touch
  <1>2. rec \in Record /\ (cleaner # 0 => Outlives(rec))
    BY <1>1 DEF FInv, UInv, Read, Kept, Fresh
  <1>3. new.expires = rec.expires
    BY <1>2 DEF Record
  <1>4. files' = With(files, p, new) \/ files' = files
    BY DEF WriteBack, Touch
  <1> HIDE DEF new, rec
  <1>5. /\ DOMAIN files \subseteq DOMAIN files'
        /\ cleaner # 0 => \A u \in DOMAIN files' : Outlives(files'[u])
    BY <1>2, <1>3, <1>4 DEF With, FInv, Fresh, Outlives
  <1>6. \A u \in Turns : At(u, "touching")' => At(u, "touching") /\ call'[u] = call[u]
    BY DEF WriteBack, Goes, Looked, At, FInv, UInv, IInv, Shape
  <1> QED
    BY <1>1, <1>5, <1>6 DEF FInv, Fresh, Outlives

\* What is written from now on lives longer than what the first pass looked at.
LEMMA WriteFresh ==
  ASSUME FInv, NEW t \in Turns,
         StartSaving(t) \/ Flush(t) \/ Saved(t) \/ NotSaved(t) \/ Leaves(t)
  PROVE  Fresh' /\ DOMAIN files \subseteq DOMAIN files'
  <1>1. UNCHANGED <<cleaner, now>> /\ now \in Nat /\ limits.ttl \in Nat
    BY FileStoreAssumption DEF StartSaving, Flush, Saved, NotSaved, Leaves, BeginWrite,
       FlushWrite, ReplaceFile, FailWrite, FInv, UInv, Known, FileStoreAssumption
  <1>2. ASSUME cleaner # 0 PROVE \A u \in DOMAIN temps' : Outlives(temps'[u].rec)
    <2> DEFINE rec == [said |-> Conversation(t), expires |-> now + limits.ttl, access |-> now]
    <2>1. CASE BeginWrite(t, Conversation(t))
      <3>1. temps' = With(temps, t, [rec |-> rec, whole |-> FALSE])
        BY <2>1 DEF BeginWrite
      <3>2. Outlives(rec)
        BY <1>1, <1>2 DEF FInv, Fresh, Outlives
      <3> HIDE DEF rec
      <3> QED
        BY <1>2, <3>1, <3>2 DEF With, FInv, Fresh
    <2>2. CASE FlushWrite(t)
      <3>1. temps' = [temps EXCEPT ![t] = [temps[t] EXCEPT !.whole = TRUE]] /\ t \in DOMAIN temps
        BY <2>2 DEF FlushWrite
      <3>2. [temps[t] EXCEPT !.whole = TRUE].rec = temps[t].rec
        BY <3>1 DEF FInv, UInv, OnDisk
      <3> QED
        BY <1>2, <3>1, <3>2 DEF FInv, Fresh
    <2>3. CASE temps' = temps \/ temps' = Without(temps, {t})
      BY <1>2, <2>3 DEF Without, FInv, Fresh
    <2> QED
      BY <2>1, <2>2, <2>3 DEF StartSaving, Flush, Saved, NotSaved, Leaves, ReplaceFile, FailWrite
  <1>3. /\ DOMAIN files \subseteq DOMAIN files'
        /\ cleaner # 0 => \A u \in DOMAIN files' : Outlives(files'[u])
    <2>1. CASE Saved(t)
      BY <2>1 DEF Saved, ReplaceFile, With, FInv, Fresh
    <2>2. CASE files' = files
      BY <2>2 DEF FInv, Fresh
    <2> QED
      BY <2>1, <2>2 DEF StartSaving, Flush, NotSaved, Leaves, BeginWrite, FlushWrite, FailWrite
  <1>4. \A u \in Turns : At(u, "touching")' => At(u, "touching") /\ call'[u] = call[u]
    <2>1. \A u \in Turns : u # t => call'[u] = call[u]
      BY DEF StartSaving, Flush, Saved, NotSaved, Leaves, Goes, Settles, FInv, UInv, IInv, Shape
    <2>2. call'[t].at # "touching"
      BY DEF StartSaving, Flush, Saved, NotSaved, Leaves, Goes, Settles, Request, At,
         FInv, UInv, IInv, Shape
    <2> QED
      BY <2>1, <2>2 DEF At
  <1> QED
    BY <1>1, <1>2, <1>3, <1>4 DEF FInv, Fresh, Outlives, At

\* Steps that neither look nor write.
LEMMA IdleFresh ==
  ASSUME FInv, NEW t \in Turns, NEW prev \in Turns \cup {NoTurn},
         Ask(t, prev) \/ Answered(t) \/ Completes(t) \/ BreaksOff(t) \/ StreamEnds(t)
  PROVE  Fresh' /\ files' = files
  <1>1. UNCHANGED <<cleaner, now, files, temps>> /\ now \in Nat
    BY DEF Ask, Answered, Completes, BreaksOff, StreamEnds, store, FInv, UInv, Known
  <1>2. \A u \in Turns : u # t => call'[u] = call[u]
    BY DEF Ask, Answered, Completes, BreaksOff, StreamEnds, Goes, Settles,
       FInv, UInv, IInv, Shape
  <1>3. call'[t].at # "touching"
    BY DEF Ask, Answered, Completes, BreaksOff, StreamEnds, Goes, Settles, Request, Looked, At,
       FInv, UInv, IInv, Shape
  <1> QED
    BY <1>1, <1>2, <1>3, FreshUnwritten DEF FInv, At

\* The first pass finds the lock free, so nobody has a record in hand.
LEMMA CleanFresh ==
  ASSUME FInv, CleanExpired
  PROVE  Fresh' /\ \A t \in DOMAIN files \ DOMAIN files' : Expired(files[t])
  <1> DEFINE expired == {t \in DOMAIN files : Expired(files[t])}
             dead    == {t \in DOMAIN temps : Dead(t)}
  <1>1. /\ lock = Free /\ cleaner' = now /\ UNCHANGED <<now, call>> /\ now \in Nat
        /\ files' = Without(files, expired) /\ temps' = Without(temps, dead)
    BY DEF CleanExpired, cleanup_expired, FInv, UInv, Known
  <1>2. \A t \in Turns : ~At(t, "touching")
    BY <1>1, FileStoreAssumption DEF FInv, UInv, IInv, LockHeld, FileStoreAssumption
  <1>3. /\ DOMAIN files' = DOMAIN files \ expired
        /\ \A t \in DOMAIN files' : files'[t] = files[t] /\ ~Expired(files[t])
    BY <1>1 DEF Without
  <1>4. \A t \in DOMAIN temps' :
          t \in DOMAIN temps /\ temps'[t] = temps[t] /\ ~Expired(temps[t].rec)
    BY <1>1 DEF Without, Dead
  <1>5. \A t \in DOMAIN files' : files'[t].expires >= now
    BY <1>1, <1>3 DEF Expired, FInv, UInv, OnDisk, Kept, Record
  <1>6. \A t \in DOMAIN temps' : temps'[t].rec.expires >= now
    BY <1>1, <1>4 DEF Expired, FInv, UInv, OnDisk, Kept, Record
  <1>7. Fresh'
    BY <1>1, <1>2, <1>5, <1>6 DEF Fresh, Outlives, At
  <1>8. \A t \in DOMAIN files \ DOMAIN files' : Expired(files[t])
    BY <1>3
  <1> QED
    BY <1>7, <1>8

LEMMA OthersFresh ==
  ASSUME FInv, EvictOldest \/ ChangeSettings \/ Crash \/ Tick \/ UNCHANGED vars
  PROVE  Fresh'
  <1>1. now \in Nat
    BY DEF FInv, UInv, Known
  <1>2. CASE EvictOldest \/ Crash
    BY <1>2 DEF EvictOldest, Crash, Fresh
  <1>3. CASE ChangeSettings \/ Tick \/ UNCHANGED vars
    <2>1. UNCHANGED <<cleaner, call, files, temps>> /\ now' \in Nat /\ now <= now'
      BY <1>1, <1>3 DEF ChangeSettings, reload_responses_store, Tick, vars, store
    <2> QED
      BY <1>1, <2>1, FreshUnwritten DEF FInv, At
  <1> QED
    BY <1>2, <1>3

\* Only the two passes of the cleanup take records away.
LEMMA OnlyTheCleanupRemoves ==
  ASSUME FInv, [Next]_vars
  PROVE  /\ Fresh'
         /\ \/ DOMAIN files \subseteq DOMAIN files'
            \/ CleanExpired
            \/ EvictOldest
  <1>1. ASSUME NEW t \in Turns, NEW prev \in Turns \cup {NoTurn}, Ask(t, prev)
        PROVE  Fresh' /\ DOMAIN files \subseteq DOMAIN files'
    BY <1>1, IdleFresh
  <1>2. ASSUME NEW t \in Turns,
               Answered(t) \/ Completes(t) \/ BreaksOff(t) \/ Leaves(t) \/ Proceed(t)
        PROVE  Fresh' /\ DOMAIN files \subseteq DOMAIN files'
    <2>1. CASE Answered(t) \/ Completes(t) \/ BreaksOff(t) \/ StreamEnds(t)
      <3>1. NoTurn \in Turns \cup {NoTurn}
        OBVIOUS
      <3> QED
        BY <2>1, <3>1, IdleFresh
    <2>2. CASE Look(t)
      BY <2>2, LookFresh DEF Look
    <2>3. CASE WriteBack(t)
      BY <2>3, WriteBackFresh
    <2>4. CASE StartSaving(t) \/ Flush(t) \/ Saved(t) \/ NotSaved(t) \/ Leaves(t)
      BY <2>4, WriteFresh
    <2> QED
      BY <1>2, <2>1, <2>2, <2>3, <2>4 DEF Proceed
  <1>3. CASE CleanExpired
    BY <1>3, CleanFresh
  <1>4. CASE EvictOldest
    BY <1>4, OthersFresh
  <1>5. CASE ChangeSettings \/ Crash \/ Tick \/ UNCHANGED vars
    <2>1. files' = files
      BY <1>5 DEF ChangeSettings, reload_responses_store, Crash, Tick, vars, store
    <2> QED
      BY <1>5, <2>1, OthersFresh
  <1> QED
    BY <1>1, <1>2, <1>3, <1>4, <1>5 DEF Next

LEMMA InitFInv == Init => FInv
  BY InitUInv DEF Init, FInv, Fresh

LEMMA NextFInv == FInv /\ [Next]_vars => FInv'
  BY NextUInv, OnlyTheCleanupRemoves DEF FInv

\* No readable record is evicted in favour of one that had expired when the
\* cleanup began, though records are read, written back and saved between its two
\* passes and cancelled writes go on (state_store.py, _cleanup_if_needed).
THEOREM NoneIsEvictedForTheDead == Spec => NoneEvictedForTheDead
  <1> DEFINE Step == \A t, u \in Turns :
       /\ t \in DOMAIN files \ DOMAIN files' /\ ~Expired(files[t])
       /\ u \in DOMAIN files' \cap DOMAIN files
       => files[u].expires >= cleaner
  <1>1. FInv /\ [Next]_vars => [Step]_vars
    <2> SUFFICES ASSUME FInv, [Next]_vars, NEW t \in Turns, NEW u \in Turns,
                        t \in DOMAIN files \ DOMAIN files', ~Expired(files[t]),
                        u \in DOMAIN files' \cap DOMAIN files
                 PROVE  files[u].expires >= cleaner
      OBVIOUS
    <2>1. ~CleanExpired
      BY CleanFresh
    <2>2. EvictOldest
      BY <2>1, OnlyTheCleanupRemoves
    <2>3. cleaner # 0
      BY <2>2 DEF EvictOldest
    <2> QED
      BY <2>3 DEF FInv, Fresh, Outlives
  <1> QED
    BY InitFInv, NextFInv, <1>1, PTL DEF Spec, NoneEvictedForTheDead
=============================================================================
