----------------------------- MODULE FileStore -----------------------------
(***************************************************************************)
(* The files that hold the state of Responses conversations                *)
(* (state_store.py, response_state.py).  Every operation runs its file     *)
(* work in a thread while it holds one lock; but a caller that is          *)
(* cancelled gives the lock back while its thread works on.                *)
(*                                                                         *)
(* A record is written to a temporary file first, which a crash, a full    *)
(* disk or a thread still at work leaves in the directory, where the       *)
(* cleanup comes upon it.                                                  *)
(***************************************************************************)
EXTENDS Integers, Sequences, FiniteSets

CONSTANTS
  Turns,         \* response ids; a turn of a conversation is known by its own
  Settings,      \* limits an administrator can set: [ttl, capacity]
  Free           \* nobody holds the lock

ASSUME FileStoreAssumption ==
  /\ Settings \subseteq [ttl: Nat, capacity: Nat \ {0}]
  /\ Free \notin Turns

VARIABLES
  now,           \* the wall clock
  files,         \* the records on disk
  temps,         \* temporary files: the record, and whether all of it is there
  lock,          \* the turn, or the cleaner, that holds the lock
  limits,        \* ttl and capacity in force
  removed        \* history: turns the cleanup has removed

store == <<now, files, temps, lock, limits, removed>>

Record == [said: Seq(Turns), expires: Nat, access: Nat]

Expired(rec) == rec.expires < now
Readable(t)  == t \in DOMAIN files /\ ~Expired(files[t])

With(f, t, rec) == [u \in DOMAIN f \cup {t} |-> IF u = t THEN rec ELSE f[u]]
Without(f, set) == [u \in DOMAIN f \ set |-> f[u]]

-----------------------------------------------------------------------------
(* put: the lock is the caller's from the first step to the last, unless it  *)
(* is cancelled.                                                             *)
BeginWrite(t, said) ==
  /\ t \notin DOMAIN temps
  /\ temps' = With(temps, t, [rec |-> [said |-> said, expires |-> now + limits.ttl,
                                       access |-> now],
                              whole |-> FALSE])
  /\ UNCHANGED <<now, files, limits, removed>>

FlushWrite(t) ==
  /\ t \in DOMAIN temps /\ ~temps[t].whole
  /\ temps' = [temps EXCEPT ![t].whole = TRUE]
  /\ UNCHANGED <<now, files, lock, limits, removed>>

ReplaceFile(t) ==
  /\ t \in DOMAIN temps /\ temps[t].whole
  /\ files' = With(files, t, temps[t].rec)
  /\ temps' = Without(temps, {t})
  /\ UNCHANGED <<now, limits, removed>>

\* What was written of a file that could not be finished stays; one that could
\* not be put in its place, or is gone, leaves nothing.
FailWrite(t) ==
  /\ temps' = IF t \in DOMAIN temps /\ temps[t].whole THEN Without(temps, {t}) ELSE temps
  /\ UNCHANGED <<now, files, limits, removed>>

\* get_conversation reads the record and writes it back with the time of access.
Touch(t, rec) ==
  /\ files' = With(files, t, [rec EXCEPT !.access = now])
  /\ UNCHANGED <<now, temps, limits, removed>>

-----------------------------------------------------------------------------
Dead(t) == t \in DOMAIN temps /\ (~temps[t].whole \/ Expired(temps[t].rec))

\* Faulty: what is in use is not expired.
cleanup_expired_unused ==
  LET expired == {t \in DOMAIN files : Expired(files[t]) /\ files[t].access < now - 1} IN
  /\ lock = Free
  /\ files' = Without(files, expired)
  /\ temps' = Without(temps, {t \in DOMAIN temps : Dead(t)})
  /\ removed' = removed \cup expired
  /\ UNCHANGED <<now, lock, limits>>

cleanup_expired ==
  LET expired == {t \in DOMAIN files : Expired(files[t])} IN
  /\ lock = Free
  /\ files' = Without(files, expired)
  /\ temps' = Without(temps, {t \in DOMAIN temps : Dead(t)})
  /\ removed' = removed \cup expired
  /\ UNCHANGED <<now, lock, limits>>

\* A temporary file counts as a record, and as the oldest if it cannot be read.
Entries ==
  {[file |-> TRUE, t |-> t, age |-> now - files[t].access] : t \in DOMAIN files} \cup
  {[file |-> FALSE, t |-> t,
    age |-> IF temps[t].whole THEN now - temps[t].rec.access ELSE now + 1] : t \in DOMAIN temps}

\* Of records as old as each other any may go.
evict_lru ==
  /\ lock = Free
  /\ \E kept \in SUBSET Entries :
       LET gone == {e.t : e \in {x \in Entries \ kept : x.file}} IN
       /\ Cardinality(kept) = IF Cardinality(Entries) < limits.capacity
                              THEN Cardinality(Entries) ELSE limits.capacity
       /\ \A k \in kept, e \in Entries \ kept : k.age <= e.age
       /\ files' = Without(files, gone)
       /\ temps' = Without(temps, {e.t : e \in {x \in Entries \ kept : ~x.file}})
       /\ removed' = removed \cup gone
  /\ UNCHANGED <<now, lock, limits>>

\* reload_responses_store, after a change of the settings: no lock is taken.
reload_responses_store(setting) ==
  /\ limits' = setting
  /\ UNCHANGED <<now, files, temps, lock, removed>>

StoreInit ==
  /\ files = <<>> /\ temps = <<>> /\ lock = Free /\ removed = {}
  /\ limits \in Settings
=============================================================================
