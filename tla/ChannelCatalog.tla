--------------------------- MODULE ChannelCatalog ---------------------------
(***************************************************************************)
(* The catalog of channels and model groups (channel_catalog.py): one JSON *)
(* file, a cached snapshot of it that is used while the signature of the   *)
(* file is the one remembered with it, and one lock around every           *)
(* operation.  The file can also be edited by hand.                        *)
(*                                                                         *)
(* A cached snapshot may turn too old at any time.  Every write of the     *)
(* file is atomic (atomic_json.py) and has a signature of its own.         *)
(***************************************************************************)
EXTENDS Integers

CONSTANTS
  Channels, Groups,
  Urls, Names,   \* what an administrator changes: endpoints, names of groups
  Absent,        \* not in the catalog
  Missing,       \* there is no file
  Corrupt,       \* the file is not JSON
  None,          \* nothing: no snapshot, no legacy configuration, no request
  Legacies       \* what lb_config of an older file may be

Ids      == Channels \cup Groups
Keys(id) == IF id \in Channels THEN Urls ELSE Names

Entries  == [key: Urls \cup Names, on: BOOLEAN]
Listings == {e \in [Ids -> Entries \cup {Absent}] : \A id \in Ids : e[id] = Absent \/ e[id].key \in Keys(id)}

\* odd: entries that cannot be parsed; old: an older schema; legacy: lb_config.
Contents == [entries: Listings, odd: BOOLEAN, old: BOOLEAN, legacy: Legacies \cup {None}]

\* What stands for nothing is none of the things it stands in for.
ASSUME CatalogAssumption ==
  /\ Absent \notin Entries /\ Missing # Corrupt
  /\ Missing \notin Contents /\ Corrupt \notin Contents
  /\ None \notin Nat /\ None \notin Listings

VARIABLES
  file,          \* what the file says
  signature,     \* its time of change and size: a number of its own per write
  cache,         \* the snapshot in memory and the signature remembered with it
  op,            \* the operation that holds the lock
  truth,         \* history: the entries after all changes that were committed
  raced          \* history: an edit by hand fell into an operation's window

catalog == <<file, signature, cache, op, truth, raced>>

Empty   == [entries |-> [id \in Ids |-> Absent], odd |-> FALSE, old |-> FALSE, legacy |-> None]
Sig     == IF file = Missing THEN None ELSE signature
Read    == IF file = Missing THEN Empty ELSE file
Said(f) == IF f \in {Missing, Corrupt} THEN f ELSE [entries |-> f.entries, odd |-> f.odd]
NoOp    == [at |-> "none", ask |-> None, got |-> None, was |-> None]

\* Faulty: what cannot be parsed is dropped.
_serialize_parsed(raw, entries) == [raw EXCEPT !.entries = entries, !.old = FALSE, !.odd = FALSE]

\* A snapshot has only what can be parsed; the file keeps the rest.
_serialize_snapshot(raw, entries) == [raw EXCEPT !.entries = entries, !.old = FALSE]

-----------------------------------------------------------------------------
Clash(entries, id, key) ==
  id \in Groups /\ \E g \in Groups \ {id} : entries[g] # Absent /\ entries[g].key = key

\* The entries an operation asks for; None if it has nothing to do or may not.
Changed(ask, entries) ==
  LET e == entries[ask.id] IN
  CASE ask.kind = "snapshot" -> None
    [] ask.kind = "add" ->
         IF e # Absent \/ Clash(entries, ask.id, ask.key) THEN None
         ELSE [entries EXCEPT ![ask.id] = [key |-> ask.key, on |-> TRUE]]
    [] ask.kind = "update" ->
         IF e = Absent \/ Clash(entries, ask.id, ask.key) THEN None
         ELSE [entries EXCEPT ![ask.id].key = ask.key]
    [] ask.kind = "toggle" ->
         IF e = Absent THEN None ELSE [entries EXCEPT ![ask.id].on = ~@]
    [] ask.kind = "delete" ->
         IF e = Absent THEN None ELSE [entries EXCEPT ![ask.id] = Absent]

\* What an operation goes on with when it has the snapshot.
Settle(ask, content) ==
  LET entries == Changed(ask, content.entries) IN
  op' = IF entries = None THEN NoOp
        ELSE [at |-> "writing", ask |-> ask, got |-> _serialize_snapshot(content, entries),
              was |-> content.entries[ask.id]]

\* The lock is free and the snapshot in memory is the file's.
Hit(ask) ==
  /\ op = NoOp /\ cache # None /\ cache.signature = Sig
  /\ Settle(ask, cache.content)
  /\ UNCHANGED <<file, signature, cache, truth, raced>>

\* A snapshot that is too old or not the file's is of no use again.
Miss(ask) ==
  /\ op = NoOp
  /\ op' = [NoOp EXCEPT !.at = "loading", !.ask = ask]
  /\ cache' = None
  /\ UNCHANGED <<file, signature, truth, raced>>

\* A corrupt file is backed up and refused.
ReadCorrupt ==
  /\ op.at = "loading" /\ file = Corrupt /\ op' = NoOp
  /\ UNCHANGED <<file, signature, cache, truth, raced>>

ReadFile ==
  /\ op.at = "loading" /\ file # Corrupt
  /\ op' = [op EXCEPT !.got = Read, !.at = IF file = Missing \/ Read.old THEN "migrating" ELSE "read"]
  /\ raced' = FALSE
  /\ UNCHANGED <<file, signature, cache, truth>>

Put(content) ==
  /\ file' = content /\ signature' = signature + 1
  /\ raced' = FALSE
  /\ truth' = IF raced THEN Said(content) ELSE truth

\* A file that is missing or of an older schema is written anew.
Migrate ==
  LET content == _serialize_snapshot(op.got, op.got.entries) IN
  /\ op.at = "migrating" /\ Put(content)
  /\ op' = [op EXCEPT !.at = "read", !.got = content]
  /\ UNCHANGED cache

\* The signature is taken now, not when the file was read.
Remember ==
  /\ op.at = "read"
  /\ cache' = [content |-> op.got, signature |-> Sig]
  /\ Settle(op.ask, op.got)
  /\ UNCHANGED <<file, signature, truth, raced>>

Write ==
  /\ op.at = "writing"
  /\ file' = op.got /\ signature' = signature + 1
  /\ truth' = IF raced THEN Said(op.got)
              ELSE [truth EXCEPT !.entries = Changed(op.ask, @)]
  /\ raced' = FALSE
  /\ op' = [op EXCEPT !.at = "written"]
  /\ UNCHANGED cache

\* Faulty: the snapshot is changed though the file is not.
WriteFailsLate ==
  /\ op.at \in {"migrating", "writing"} /\ op' = NoOp
  /\ cache' = [content |-> op.got, signature |-> Sig]
  /\ UNCHANGED <<file, signature, truth, raced>>

WriteFails ==
  /\ op.at \in {"migrating", "writing"} /\ op' = NoOp
  /\ UNCHANGED <<file, signature, cache, truth, raced>>

\* Memory and signature follow the file; then the change takes effect.
Commit ==
  /\ op.at = "written"
  /\ cache' = [content |-> op.got, signature |-> Sig]
  /\ UNCHANGED <<file, signature, truth, raced>>

-----------------------------------------------------------------------------
\* An edit by hand that no operation has under way sees is overwritten, or taken
\* for the snapshot in memory until that is too old.
Edit(content) ==
  /\ file' = content /\ signature' = signature + 1
  /\ truth' = IF content = Missing THEN Said(Empty) ELSE Said(content)
  /\ raced' = (raced \/ op.at \in {"migrating", "read", "writing", "written"})
  /\ UNCHANGED <<cache, op>>

\* take_legacy_lb_config, when the process starts; it writes only if it must.
take_legacy_lb_config ==
  /\ file # Corrupt
  /\ LET found  == Read
         content == [found EXCEPT !.old = FALSE, !.legacy = None]
         writes == file = Missing \/ found.old \/ found.legacy # None IN
     /\ file' = content
     /\ signature' = IF writes THEN signature + 1 ELSE signature
     /\ cache' = [content |-> content, signature |-> signature']
  /\ raced' = FALSE /\ truth' = truth
  /\ UNCHANGED op

CatalogInit ==
  /\ signature = 0 /\ cache = None /\ op = NoOp /\ raced = FALSE
  /\ truth = Said(Read)
=============================================================================
