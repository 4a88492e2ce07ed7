------------------------ MODULE AdministrationProofs ------------------------
(***************************************************************************)
(* What an administrator changes is neither lost nor half in force, for    *)
(* any catalog, any settings, any number of requests, edits by hand and    *)
(* crashes.  Three arguments: about the catalog's file and its snapshot,   *)
(* about the settings in memory and in their file, and about the line for  *)
(* the lock of the pool of clients.                                        *)
(***************************************************************************)
EXTENDS Administration, TLAPS

Hands == {"migrating", "read", "writing", "written"}

CatalogTyped ==
  /\ file \in Contents \cup {Missing, Corrupt} /\ signature \in Nat
  /\ DOMAIN op = {"at", "ask", "got", "was"}
  /\ op.at \in {"none", "loading", "effects"} \cup Hands
  /\ op.at # "none" => op.ask \in Asks
  /\ op.at \in Hands => op.got \in Contents
  /\ cache # None => cache.content \in Contents /\ cache.signature \in Nat \cup {None}
  /\ up # "up" => op.at = "none"

\* What an operation has in hand goes with the file, unless that was edited meanwhile.
OpSound ==
  /\ op.at \in {"loading", "migrating", "read"} => cache = None
  /\ ~raced /\ op.at = "migrating" => op.got = Read
  /\ ~raced /\ op.at \in {"read", "written"} => file = op.got
  /\ ~raced /\ op.at = "writing" =>
       /\ file \in Contents
       /\ Changed(op.ask, file.entries) \in Listings
       /\ op.got = _serialize_snapshot(file, Changed(op.ask, file.entries))

\* Signatures only grow.  A snapshot without one was remembered when the file had
\* just been removed, or is about to be replaced.
CacheSound ==
  cache # None =>
    /\ cache.signature \in Nat => cache.signature <= signature
    /\ ~raced /\ cache.signature = None => op.at = "written"

CInv == CatalogTyped /\ OpSound /\ CacheSound /\ CommittedStays /\ SnapshotIsFile

-----------------------------------------------------------------------------
(* Contents of the file and what an operation makes of them *)

LEMMA AskParts ==
  ASSUME NEW ask \in Asks
  PROVE  \/ ask.kind = "snapshot"
         \/ ask.kind \in {"toggle", "delete"} /\ ask.id \in Ids
         \/ ask.kind \in {"add", "update"} /\ ask.id \in Ids /\ ask.key \in Keys(ask.id)
  <1>1. CASE ask = [kind |-> "snapshot", id |-> None, key |-> None]
    BY <1>1
  <1>2. CASE ask \in [kind: {"toggle", "delete"}, id: Ids, key: {None}]
    BY <1>2
  <1>3. CASE ask \in UNION {[kind: {"add", "update"}, id: {id}, key: Keys(id)] : id \in Ids}
    <2>1. PICK id \in Ids : ask \in [kind: {"add", "update"}, id: {id}, key: Keys(id)]
      BY <1>3
    <2> QED
      BY <2>1
  <1> QED
    BY <1>1, <1>2, <1>3 DEF Asks

\* Every operation asks for entries that may be, or for none.
LEMMA ChangedIsListing ==
  ASSUME NEW ask \in Asks, NEW entries \in Listings
  PROVE  Changed(ask, entries) \in Listings \cup {None}
  <1> DEFINE e == entries[ask.id]
  <1>1. /\ entries \in [Ids -> Entries \cup {Absent}]
        /\ \A id \in Ids : entries[id] = Absent \/ entries[id].key \in Keys(id)
    BY DEF Listings
  <1>2. \A id \in Ids, x \in Entries \cup {Absent} :
          (x = Absent \/ x.key \in Keys(id)) => [entries EXCEPT ![id] = x] \in Listings
    BY <1>1 DEF Listings
  <1>3. CASE ask.kind = "snapshot"
    BY <1>3 DEF Changed
  <1>4. CASE ask.kind \in {"toggle", "delete"} /\ ask.id \in Ids
    <2>1. CASE e = Absent
      BY <1>4, <2>1 DEF Changed
    <2>2. CASE e # Absent /\ ask.kind = "toggle"
      <3> DEFINE x == [e EXCEPT !.on = ~@]
      <3>1. e \in Entries /\ e.key \in Keys(ask.id)
        BY <1>1, <1>4, <2>2
      <3>2. x \in Entries /\ x.key = e.key
        BY <3>1 DEF Entries
      <3>3. Changed(ask, entries) = [entries EXCEPT ![ask.id] = x]
        BY <1>4, <2>2 DEF Changed
      <3> HIDE DEF x
      <3>4. [entries EXCEPT ![ask.id] = x] \in Listings
        BY <1>2, <1>4, <3>1, <3>2
      <3> QED
        BY <3>3, <3>4
    <2>3. CASE e # Absent /\ ask.kind = "delete"
      <3>1. Changed(ask, entries) = [entries EXCEPT ![ask.id] = Absent]
        BY <1>4, <2>3 DEF Changed
      <3>2. \A id \in Ids : [entries EXCEPT ![id] = Absent] \in Listings
        BY <1>2
      <3>3. [entries EXCEPT ![ask.id] = Absent] \in Listings
        BY <1>4, <3>2
      <3> QED
        BY <3>1, <3>3
    <2> QED
      BY <1>4, <2>1, <2>2, <2>3
  <1>5. CASE ask.kind \in {"add", "update"} /\ ask.id \in Ids /\ ask.key \in Keys(ask.id)
    <2>1. ask.key \in Urls \cup Names
      BY <1>5 DEF Keys
    <2>2. CASE Changed(ask, entries) = None
      BY <2>2
    <2>3. CASE ask.kind = "add" /\ Changed(ask, entries) # None
      <3> DEFINE x == [key |-> ask.key, on |-> TRUE]
      <3>1. x \in Entries /\ x.key = ask.key
        BY <2>1 DEF Entries
      <3>2. Changed(ask, entries) = [entries EXCEPT ![ask.id] = x]
        BY <2>3 DEF Changed
      <3> HIDE DEF x
      <3>4. [entries EXCEPT ![ask.id] = x] \in Listings
        BY <1>2, <1>5, <3>1
      <3> QED
        BY <3>2, <3>4
    <2>4. CASE ask.kind = "update" /\ Changed(ask, entries) # None
      <3> DEFINE x == [e EXCEPT !.key = ask.key]
      <3>1. e # Absent /\ Changed(ask, entries) = [entries EXCEPT ![ask.id] = x]
        BY <2>4 DEF Changed
      <3>2. e \in Entries
        BY <1>1, <1>5, <3>1
      <3>3. x \in Entries /\ x.key = ask.key
        BY <2>1, <3>2 DEF Entries
      <3> HIDE DEF x
      <3>4. [entries EXCEPT ![ask.id] = x] \in Listings
        BY <1>2, <1>5, <3>2, <3>3
      <3> QED
        BY <3>1, <3>4
    <2> QED
      BY <1>5, <2>2, <2>3, <2>4
  <1> QED
    BY <1>3, <1>4, <1>5, AskParts

\* Only the entries change, and the schema is the present one.
LEMMA Serialized ==
  ASSUME NEW raw \in Contents, NEW entries \in Listings
  PROVE  LET content == _serialize_snapshot(raw, entries) IN
         /\ content \in Contents /\ content.entries = entries /\ ~content.old
         /\ content.odd = raw.odd /\ content.legacy = raw.legacy
  BY DEF _serialize_snapshot, Contents

LEMMA ContentsAreSaid ==
  ASSUME NEW content \in Contents
  PROVE  /\ content # Missing /\ content # Corrupt /\ content.entries \in Listings
         /\ Said(content) = [entries |-> content.entries, odd |-> content.odd]
  BY CatalogAssumption DEF CatalogAssumption, Said, Contents

LEMMA ReadIsContents ==
  ASSUME CatalogTyped, file # Corrupt
  PROVE  /\ Read \in Contents
         /\ file # Missing => Read = file
         /\ file = Missing => Read = Empty /\ ~Empty.old
  <1>1. Empty \in Contents /\ ~Empty.old
    <2>1. [id \in Ids |-> Absent] \in Listings
      BY DEF Listings
    <2> QED
      BY <2>1 DEF Empty, Contents
  <1> QED
    BY <1>1 DEF CatalogTyped, Read

\* What an operation does with the snapshot it has.
LEMMA Settled ==
  ASSUME NEW ask \in Asks, NEW content \in Contents, Settle(ask, content)
  PROVE  /\ DOMAIN op' = {"at", "ask", "got", "was"} /\ op'.at \in {"none", "writing"}
         /\ op'.at = "writing" =>
              /\ op'.ask = ask /\ op'.got \in Contents
              /\ Changed(ask, content.entries) \in Listings
              /\ op'.got = _serialize_snapshot(content, Changed(ask, content.entries))
  <1> DEFINE entries == Changed(ask, content.entries)
  <1>1. content.entries \in Listings
    BY ContentsAreSaid
  <1>2. CASE entries = None
    BY <1>2 DEF Settle, NoOp
  <1>3. CASE entries # None
    <2>1. entries \in Listings
      BY <1>1, <1>3, ChangedIsListing
    <2>2. _serialize_snapshot(content, entries) \in Contents
      BY <2>1, Serialized
    <2>3. op' = [at |-> "writing", ask |-> ask, got |-> _serialize_snapshot(content, entries),
                 was |-> content.entries[ask.id]]
      BY <1>3 DEF Settle
    <2> QED
      BY <2>1, <2>2, <2>3
  <1> QED
    BY <1>2, <1>3

-----------------------------------------------------------------------------
(* The steps of the catalog *)

LEMMA HitStep ==
  ASSUME CInv, up = "up", up' = up, NEW ask \in Asks, Hit(ask) PROVE CInv'
  <1>1. /\ CatalogTyped /\ OpSound /\ CacheSound /\ CommittedStays /\ SnapshotIsFile
        /\ op.at = "none" /\ cache # None /\ cache.signature = Sig
        /\ UNCHANGED <<file, signature, cache, truth, raced>>
        /\ cache.content \in Contents /\ Settle(ask, cache.content)
    BY DEF CInv, CatalogTyped, Hit, NoOp
  <1>2. /\ DOMAIN op' = {"at", "ask", "got", "was"} /\ op'.at \in {"none", "writing"}
        /\ op'.at = "writing" =>
             /\ op'.ask = ask /\ op'.got \in Contents
             /\ Changed(ask, cache.content.entries) \in Listings
             /\ op'.got = _serialize_snapshot(cache.content, Changed(ask, cache.content.entries))
    BY <1>1, Settled
  <1>3. CatalogTyped'
    BY <1>1, <1>2 DEF CatalogTyped, Hands
  <1>4. ~raced => cache.content = file /\ file \in Contents
    BY <1>1, CatalogAssumption DEF SnapshotIsFile, CacheSound, Read, Sig, CatalogAssumption
  <1>5. OpSound'
    BY <1>1, <1>2, <1>4 DEF OpSound
  <1>6. CacheSound' /\ CommittedStays' /\ SnapshotIsFile'
    BY <1>1, <1>2 DEF CacheSound, CommittedStays, SnapshotIsFile, Read, Sig
  <1> QED
    BY <1>3, <1>5, <1>6 DEF CInv

\* Nothing but the operation's stage changes, or the snapshot is given up.
LEMMA WithoutSnapshot ==
  ASSUME CInv, DOMAIN op' = {"at", "ask", "got", "was"}, op'.at \in {"none", "loading", "effects"},
         op'.at # "none" => op'.ask \in Asks, cache' = None, UNCHANGED <<file, signature, truth>>,
         up' # "up" => op'.at = "none"
  PROVE  CInv'
  <1>1. CatalogTyped'
    BY DEF CInv, CatalogTyped, Hands
  <1>2. OpSound' /\ CacheSound' /\ SnapshotIsFile'
    BY DEF OpSound, CacheSound, SnapshotIsFile
  <1>3. CommittedStays'
    BY DEF CInv, CommittedStays, Read, Said, Empty
  <1> QED
    BY <1>1, <1>2, <1>3 DEF CInv

LEMMA MissStep ==
  ASSUME CInv, up = "up", up' = up, NEW ask \in Asks, Miss(ask) PROVE CInv'
  <1>1. DOMAIN op' = {"at", "ask", "got", "was"} /\ op'.at = "loading" /\ op'.ask = ask
    BY DEF Miss, NoOp
  <1> QED
    BY <1>1, WithoutSnapshot DEF Miss

\* An operation that fails leaves file and snapshot as they are.
LEMMA GivenUpStep ==
  ASSUME CInv, up' = up, op' = NoOp, op.at \in {"loading", "migrating", "writing"},
         UNCHANGED <<file, signature, cache, truth, raced>>
  PROVE  CInv'
  <1>1. DOMAIN op' = {"at", "ask", "got", "was"} /\ op'.at = "none"
    BY DEF NoOp
  <1>2. CatalogTyped'
    BY <1>1 DEF CInv, CatalogTyped, Hands
  <1>3. OpSound' /\ CacheSound'
    BY <1>1 DEF CInv, OpSound, CacheSound
  <1>4. SnapshotIsFile' /\ CommittedStays'
    BY DEF CInv, CommittedStays, SnapshotIsFile, Read, Sig
  <1> QED
    BY <1>2, <1>3, <1>4 DEF CInv

LEMMA ReadFileStep ==
  ASSUME CInv, up' = up, ReadFile PROVE CInv'
  <1>1. /\ CatalogTyped /\ OpSound /\ CommittedStays
        /\ op.at = "loading" /\ file # Corrupt /\ cache = None
        /\ UNCHANGED <<file, signature, cache, truth>>
    BY DEF CInv, ReadFile, OpSound
  <1>2. /\ Read \in Contents /\ (file # Missing => Read = file)
    BY <1>1, ReadIsContents
  <1>3. /\ DOMAIN op' = {"at", "ask", "got", "was"} /\ op'.ask = op.ask /\ op'.got = Read
        /\ op'.at = IF file = Missing \/ Read.old THEN "migrating" ELSE "read"
    BY <1>1 DEF ReadFile, CatalogTyped
  <1>4. CatalogTyped'
    BY <1>1, <1>2, <1>3 DEF CatalogTyped, Hands
  <1>5. Read' = Read
    BY <1>1 DEF Read, Empty
  <1>6. OpSound' /\ CacheSound' /\ SnapshotIsFile'
    BY <1>1, <1>2, <1>3, <1>5 DEF OpSound, CacheSound, SnapshotIsFile
  <1>7. CommittedStays'
    BY <1>1, <1>5 DEF CommittedStays
  <1> QED
    BY <1>4, <1>6, <1>7 DEF CInv

\* A new schema says the same.
LEMMA MigrateStep ==
  ASSUME CInv, up' = up, Migrate PROVE CInv'
  <1> DEFINE content == _serialize_snapshot(op.got, op.got.entries)
  <1>1. /\ CatalogTyped /\ OpSound /\ CommittedStays
        /\ op.at = "migrating" /\ op.got \in Contents /\ cache = None /\ cache' = cache
        /\ file' = content /\ signature' = signature + 1 /\ raced' = FALSE
        /\ truth' = IF raced THEN Said(content) ELSE truth
        /\ op' = [op EXCEPT !.at = "read", !.got = content]
    BY DEF CInv, Migrate, Put, OpSound, CatalogTyped, Hands
  <1>2. /\ content \in Contents /\ content.entries = op.got.entries /\ content.odd = op.got.odd
    BY <1>1, ContentsAreSaid, Serialized
  <1> HIDE DEF content
  <1>3. /\ DOMAIN op' = {"at", "ask", "got", "was"} /\ op'.ask = op.ask /\ op'.got = content
        /\ op'.at = "read"
    BY <1>1 DEF CatalogTyped
  <1>4. CatalogTyped'
    BY <1>1, <1>2, <1>3 DEF CatalogTyped, Hands
  <1>5. file' # Missing /\ Read' = content
    BY <1>1, <1>2, ContentsAreSaid DEF Read
  <1>6. OpSound' /\ CacheSound' /\ SnapshotIsFile'
    BY <1>1, <1>3, <1>5 DEF OpSound, CacheSound, SnapshotIsFile
  <1>7. CommittedStays'
    <2>1. ~raced => Said(op.got) = truth
      BY <1>1 DEF OpSound, CommittedStays
    <2>2. Said(content) = Said(op.got)
      BY <1>1, <1>2, ContentsAreSaid
    <2>3. Said(content) = truth'
      BY <1>1, <2>1, <2>2
    <2> QED
      BY <1>5, <2>3 DEF CommittedStays, Said
  <1> QED
    BY <1>4, <1>6, <1>7 DEF CInv

LEMMA RememberStep ==
  ASSUME CInv, up = "up", up' = up, Remember PROVE CInv'
  <1>1. /\ CatalogTyped /\ OpSound /\ CommittedStays
        /\ op.at = "read" /\ op.got \in Contents /\ op.ask \in Asks /\ Settle(op.ask, op.got)
        /\ cache' = [content |-> op.got, signature |-> Sig]
        /\ UNCHANGED <<file, signature, truth, raced>>
    BY DEF CInv, Remember, CatalogTyped, Hands
  <1>2. /\ DOMAIN op' = {"at", "ask", "got", "was"} /\ op'.at \in {"none", "writing"}
        /\ op'.at = "writing" =>
             /\ op'.ask = op.ask /\ op'.got \in Contents
             /\ Changed(op.ask, op.got.entries) \in Listings
             /\ op'.got = _serialize_snapshot(op.got, Changed(op.ask, op.got.entries))
    BY <1>1, Settled
  <1>3. ~raced => file = op.got /\ file # Missing
    BY <1>1, ContentsAreSaid DEF OpSound
  <1>4. Sig \in Nat \cup {None} /\ (Sig \in Nat => Sig = signature) /\ (Sig = None => file = Missing)
    BY <1>1, CatalogAssumption DEF Sig, CatalogTyped, CatalogAssumption
  <1>5. CatalogTyped'
    BY <1>1, <1>2, <1>4 DEF CatalogTyped, Hands
  <1>6. OpSound'
    BY <1>1, <1>2, <1>3 DEF OpSound
  <1>7. CacheSound'
    BY <1>1, <1>3, <1>4 DEF CacheSound, CatalogTyped
  <1>8. SnapshotIsFile' /\ CommittedStays'
    BY <1>1, <1>3 DEF SnapshotIsFile, CommittedStays, Read, Sig
  <1> QED
    BY <1>5, <1>6, <1>7, <1>8 DEF CInv

\* The snapshot in memory has the signature of an earlier file, or none, while the
\* new file is there.
LEMMA WriteStep ==
  ASSUME CInv, up' = up, Write PROVE CInv'
  <1>1. /\ CatalogTyped /\ OpSound /\ CacheSound /\ CommittedStays
        /\ op.at = "writing" /\ op.got \in Contents
        /\ file' = op.got /\ signature' = signature + 1 /\ raced' = FALSE
        /\ truth' = (IF raced THEN Said(op.got) ELSE [truth EXCEPT !.entries = Changed(op.ask, truth.entries)])
        /\ op' = [op EXCEPT !.at = "written"] /\ cache' = cache /\ signature \in Nat
    BY DEF CInv, Write, CatalogTyped, Hands
  <1>2. /\ DOMAIN op' = {"at", "ask", "got", "was"} /\ op'.ask = op.ask /\ op'.got = op.got
        /\ op'.at = "written"
    BY <1>1 DEF CatalogTyped
  <1>3. CatalogTyped'
    BY <1>1, <1>2 DEF CatalogTyped, Hands
  <1>4. file' # Missing /\ Read' = op.got /\ Sig' = signature + 1
    BY <1>1, ContentsAreSaid DEF Read, Sig
  <1>5. OpSound'
    BY <1>1, <1>2 DEF OpSound
  <1>6. CacheSound'
    BY <1>1, <1>2 DEF CacheSound
  <1>7. SnapshotIsFile'
    <2>1. ASSUME cache # None PROVE cache.signature # signature + 1
      <3>1. CASE cache.signature \in Nat
        BY <1>1, <2>1, <3>1 DEF CacheSound
      <3>2. CASE cache.signature = None
        BY <1>1, <3>2, CatalogAssumption DEF CatalogAssumption
      <3> QED
        BY <1>1, <2>1, <3>1, <3>2 DEF CatalogTyped
    <2> QED
      BY <1>1, <1>4, <2>1 DEF SnapshotIsFile
  <1>8. CommittedStays'
    <2>1. CASE raced
      BY <1>1, <1>4, <2>1 DEF CommittedStays, Said
    <2>2. CASE ~raced
      <3> DEFINE entries == Changed(op.ask, file.entries)
      <3>1. /\ file \in Contents /\ entries \in Listings
            /\ op.got = _serialize_snapshot(file, entries)
        BY <1>1, <2>2 DEF OpSound
      <3>2. truth = [entries |-> file.entries, odd |-> file.odd]
        BY <1>1, <3>1, ContentsAreSaid DEF CommittedStays, Read
      <3> HIDE DEF entries
      <3>3. op.got.entries = entries /\ op.got.odd = file.odd
        BY <3>1, Serialized
      <3>4. truth' = [entries |-> entries, odd |-> file.odd]
        BY <1>1, <2>2, <3>2 DEF entries
      <3>5. truth' = Said(op.got)
        BY <1>1, <3>3, <3>4, ContentsAreSaid
      <3> QED
        BY <1>4, <3>5 DEF CommittedStays, Said
    <2> QED
      BY <2>1, <2>2
  <1> QED
    BY <1>3, <1>5, <1>6, <1>7, <1>8 DEF CInv

\* The snapshot follows the file, which is there.
LEMMA CommitStep ==
  ASSUME CInv, up = "up", up' = up, Commit, DOMAIN op' = {"at", "ask", "got", "was"},
         op'.at \in {"none", "effects"}, op'.at = "effects" => op'.ask = op.ask
  PROVE  CInv'
  <1>1. /\ CatalogTyped /\ OpSound /\ CommittedStays
        /\ op.at = "written" /\ op.got \in Contents /\ op.ask \in Asks
        /\ cache' = [content |-> op.got, signature |-> Sig]
        /\ UNCHANGED <<file, signature, truth, raced>>
    BY DEF CInv, Commit, CatalogTyped, Hands
  <1>2. ~raced => file = op.got /\ file # Missing
    BY <1>1, ContentsAreSaid DEF OpSound
  <1>3. Sig \in Nat \cup {None} /\ (Sig \in Nat => Sig = signature) /\ (Sig = None => file = Missing)
    BY <1>1, CatalogAssumption DEF Sig, CatalogTyped, CatalogAssumption
  <1>4. CatalogTyped'
    BY <1>1, <1>3 DEF CatalogTyped, Hands
  <1>5. OpSound' /\ CacheSound'
    BY <1>1, <1>2, <1>3 DEF OpSound, CacheSound, CatalogTyped
  <1>6. SnapshotIsFile' /\ CommittedStays'
    BY <1>1, <1>2 DEF SnapshotIsFile, CommittedStays, Read, Sig
  <1> QED
    BY <1>4, <1>5, <1>6 DEF CInv

\* An operation that has put its change into effect is over.
LEMMA EffectsStep ==
  ASSUME CInv, up = "up", up' = up, op.at = "effects", op' = NoOp,
         UNCHANGED <<file, signature, cache, truth, raced>>
  PROVE  CInv'
  <1>1. DOMAIN op' = {"at", "ask", "got", "was"} /\ op'.at = "none"
    BY DEF NoOp
  <1>2. CatalogTyped'
    BY <1>1 DEF CInv, CatalogTyped, Hands
  <1>3. OpSound' /\ CacheSound'
    BY <1>1 DEF CInv, OpSound, CacheSound
  <1>4. SnapshotIsFile' /\ CommittedStays'
    BY DEF CInv, CommittedStays, SnapshotIsFile, Read, Sig
  <1> QED
    BY <1>2, <1>3, <1>4 DEF CInv

\* A file edited by hand has a signature no snapshot has; an operation that does
\* not see it is marked.
LEMMA EditStep ==
  ASSUME CInv, up' = up, NEW content \in Files, Edit(content) PROVE CInv'
  <1>1. /\ CatalogTyped /\ OpSound /\ CacheSound
        /\ file' = content /\ signature' = signature + 1
        /\ truth' = IF content = Missing THEN Said(Empty) ELSE Said(content)
        /\ ~raced' => ~raced /\ op.at \notin Hands
        /\ cache' = cache /\ op' = op /\ signature \in Nat
    BY DEF CInv, Edit, CatalogTyped, Hands
  <1>2. CatalogTyped'
    BY <1>1, AdministrationAssumption DEF CatalogTyped, AdministrationAssumption
  <1>3. OpSound'
    BY <1>1 DEF OpSound, Hands
  <1>4. CacheSound'
    BY <1>1 DEF CacheSound, Hands
  <1>5. SnapshotIsFile'
    <2>1. ASSUME cache # None PROVE cache.signature # signature + 1
      <3>1. CASE cache.signature \in Nat
        BY <1>1, <2>1, <3>1 DEF CacheSound
      <3>2. CASE cache.signature = None
        BY <1>1, <3>2, CatalogAssumption DEF CatalogAssumption
      <3> QED
        BY <1>1, <2>1, <3>1, <3>2 DEF CatalogTyped
    <2>2. cache # None /\ ~raced' => cache.signature # None
      BY <1>1 DEF CacheSound, Hands
    <2> QED
      BY <1>1, <2>1, <2>2 DEF SnapshotIsFile, Sig
  <1>6. CommittedStays'
    BY <1>1 DEF CommittedStays, Read, Said, Empty
  <1> QED
    BY <1>2, <1>3, <1>4, <1>5, <1>6 DEF CInv

\* The settings an older file held are taken out of it, and no entry with them.
LEMMA TakeLegacyStep ==
  ASSUME CInv, up = "down", up' = "saving", take_legacy_lb_config PROVE CInv'
  <1> DEFINE content == [Read EXCEPT !.old = FALSE, !.legacy = None]
  <1>1. /\ CatalogTyped /\ CommittedStays /\ file # Corrupt
        /\ file' = content /\ signature' \in {signature, signature + 1}
        /\ cache' = [content |-> content, signature |-> signature']
        /\ raced' = FALSE /\ truth' = truth /\ op' = op /\ op.at = "none" /\ signature \in Nat
    BY DEF CInv, take_legacy_lb_config, CatalogTyped
  <1>2. /\ content \in Contents /\ content.entries = Read.entries /\ content.odd = Read.odd
    <2>1. Read \in Contents
      BY <1>1, ReadIsContents
    <2> QED
      BY <2>1 DEF Contents
  <1>3. Said(content) = truth
    <2>1. Read \in Contents
      BY <1>1, ReadIsContents
    <2> QED
      BY <1>1, <1>2, <2>1, ContentsAreSaid DEF CommittedStays
  <1>4. content # Missing
    BY <1>2, ContentsAreSaid
  <1> HIDE DEF content
  <1>5. CatalogTyped'
    BY <1>1, <1>2 DEF CatalogTyped, Hands
  <1>6. OpSound' /\ CacheSound'
    BY <1>1, CatalogAssumption DEF OpSound, CacheSound, CatalogAssumption
  <1>7. SnapshotIsFile' /\ CommittedStays'
    BY <1>1, <1>3, <1>4 DEF SnapshotIsFile, CommittedStays, Read, Said
  <1> QED
    BY <1>5, <1>6, <1>7 DEF CInv

\* Every other step leaves the catalog alone while the process is up.
LEMMA ElsewhereStep ==
  ASSUME CInv, UNCHANGED catalog, up' = up \/ up' = "up" \/ op.at = "none" PROVE CInv'
  <1>1. UNCHANGED <<file, signature, cache, op, truth, raced>>
    BY DEF catalog
  <1>2. CatalogTyped /\ OpSound /\ CacheSound /\ CommittedStays /\ SnapshotIsFile
    BY DEF CInv
  <1>3. Read' = Read /\ Sig' = Sig
    BY <1>1 DEF Read, Sig, Empty
  <1>4. CatalogTyped'
    BY <1>1, <1>2 DEF CatalogTyped
  <1>5. OpSound' /\ CacheSound'
    BY <1>1, <1>2, <1>3 DEF OpSound, CacheSound
  <1>6. CommittedStays' /\ SnapshotIsFile'
    BY <1>1, <1>2, <1>3 DEF CommittedStays, SnapshotIsFile, Said
  <1> QED
    BY <1>4, <1>5, <1>6 DEF CInv

LEMMA CatalogInits == ASSUME Init PROVE CInv
  <1>1. /\ file \in Contents \cup {Missing, Corrupt}
        /\ signature = 0 /\ cache = None /\ op = NoOp /\ raced = FALSE /\ truth = Said(Read)
    BY AdministrationAssumption DEF Init, CatalogInit, AdministrationAssumption
  <1>2. CatalogTyped
    BY <1>1 DEF CatalogTyped, NoOp, Hands
  <1>3. OpSound /\ CacheSound /\ CommittedStays /\ SnapshotIsFile
    BY <1>1 DEF OpSound, CacheSound, CommittedStays, SnapshotIsFile, NoOp
  <1> QED
    BY <1>2, <1>3 DEF CInv

LEMMA CatalogSteps == ASSUME CInv, [Next]_vars PROVE CInv'
  <1>1. CASE Operate
    <2>1. PICK ask \in Asks : Hit(ask) \/ Miss(ask)
      BY <1>1 DEF Operate
    <2> QED
      BY <1>1, <2>1, HitStep, MissStep DEF Operate, Up
  <1>2. CASE FileWork
    <2>1. up = "up" /\ up' = up
      BY <1>2 DEF FileWork, Up
    <2>2. CASE ReadCorrupt \/ WriteFails
      BY <2>1, <2>2, GivenUpStep DEF ReadCorrupt, WriteFails
    <2> QED
      BY <1>2, <2>1, <2>2, ReadFileStep, MigrateStep, RememberStep, WriteStep DEF FileWork
  <1>3. CASE CommitChange
    <2>1. up = "up" /\ up' = up /\ Commit
      BY <1>3 DEF CommitChange, Up
    <2>2. op' = NoOp \/ op' = [op EXCEPT !.at = "effects"]
      BY <1>3 DEF CommitChange
    <2>3. DOMAIN op' = {"at", "ask", "got", "was"} /\ op'.at \in {"none", "effects"}
          /\ (op'.at = "effects" => op'.ask = op.ask)
      BY <2>2 DEF CInv, CatalogTyped, NoOp
    <2> QED
      BY <2>1, <2>3, CommitStep
  <1>4. CASE apply_channel_change
    BY <1>4, EffectsStep DEF apply_channel_change, Up
  <1>5. CASE EditFile
    BY <1>5, EditStep DEF EditFile
  <1>6. CASE Start
    BY <1>6, TakeLegacyStep DEF Start
  <1>7. CASE Crash
    <2>1. DOMAIN NoOp = {"at", "ask", "got", "was"} /\ NoOp.at = "none"
      BY DEF NoOp
    <2> QED
      BY <1>7, <2>1, WithoutSnapshot DEF Crash
  <1>8. CASE Started \/ UNCHANGED vars
    BY <1>8, ElsewhereStep DEF Started, vars
  <1>9. CASE \/ Update \/ \E u \in Updates : Saved(u) \/ NotSaved(u) \/ Invalidate(u)
             \/ \E r \in Requests : Choose(r) \/ AskClient(r) \/ GetClient(r) \/ Answered(r)
             \/ CleanUp \/ \E task \in retiring : Retire(task)
             \/ Tick
    <2>1. CASE Update \/ \E u \in Updates : Saved(u) \/ NotSaved(u) \/ Invalidate(u)
      BY <2>1, ElsewhereStep, SMTT(30) DEF Update, Saved, NotSaved, Invalidate, Up
    <2>2. CASE \E r \in Requests : Choose(r) \/ AskClient(r) \/ GetClient(r) \/ Answered(r)
      BY <2>2, ElsewhereStep DEF Choose, AskClient, GetClient, Answered, Up
    <2>3. CASE CleanUp \/ (\E task \in retiring : Retire(task)) \/ Tick
      BY <2>3, ElsewhereStep DEF CleanUp, Retire, Tick, Up
    <2> QED
      BY <1>9, <2>1, <2>2, <2>3
  <1> QED
    BY <1>1, <1>2, <1>3, <1>4, <1>5, <1>6, <1>7, <1>8, <1>9 DEF Next

LEMMA CatalogInvariant == Spec => []CInv
  <1> QED
    BY CatalogInits, CatalogSteps, PTL DEF Spec

\* No change that was committed is lost: whatever is written, fails to be written
\* or is edited by hand, the file says what `truth` tells (channel_catalog.py,
\* _load_locked, _commit_locked, take_legacy_lb_config).
THEOREM CommittedChangesStay == Spec => []CommittedStays
  <1>1. CInv => CommittedStays
    BY DEF CInv
  <1> QED
    BY <1>1, CatalogInvariant, PTL

\* A snapshot with the file's signature is the file's, though the signature was
\* taken after the file had been read (channel_catalog.py, _load_locked).
THEOREM SnapshotsAreTheFile == Spec => []SnapshotIsFile
  <1>1. CInv => SnapshotIsFile
    BY DEF CInv
  <1> QED
    BY <1>1, CatalogInvariant, PTL

-----------------------------------------------------------------------------
(* The settings *)

NobodyWrites == \A u \in Updates : ~UpdateAt(u, "writing")
NobodyUpdates == \A u \in Updates : update[u].at \in {"idle", "done"}

SettingsTyped ==
  /\ disk \in [timeout: Timeouts, limit: Limits] /\ settings \in [timeout: Timeouts, limit: Limits]
  /\ DOMAIN update = Updates
  /\ \A u \in Updates :
       /\ DOMAIN update[u] = {"at", "change", "before"}
       /\ update[u].at \in {"idle", "writing", "invalidating", "done"}
  /\ up \in {"down", "saving", "up"}

\* Only what the one writer changes is in memory before it is in the file.
WriterSound ==
  /\ \A u, v \in Updates : UpdateAt(u, "writing") /\ UpdateAt(v, "writing") => u = v
  /\ \A u \in Updates : UpdateAt(u, "writing") =>
       /\ update[u].change \in Changes /\ update[u].before = disk
       /\ settings = Merged(disk, update[u].change)
  /\ up # "up" => NobodyUpdates
  /\ up = "saving" => settings.timeout = disk.timeout
  /\ up = "up" /\ NobodyWrites => settings = disk

InForce == REQUEST_TIMEOUT = disk.timeout /\ in_force = disk.limit

SettingsSound == SettingsTyped /\ WriterSound /\ InForce

LEMMA MergedIsSettings ==
  ASSUME NEW old \in [timeout: Timeouts, limit: Limits], NEW change \in Changes
  PROVE  Merged(old, change) \in [timeout: Timeouts, limit: Limits]
  BY SettingsAssumption DEF SettingsAssumption, Merged

LEMMA UpdateStep ==
  ASSUME SettingsSound, up = "up", up' = up, NEW u \in Updates, NEW change \in Changes,
         BeginUpdate(u, change)
  PROVE  SettingsSound'
  <1>1. /\ SettingsTyped /\ WriterSound /\ InForce /\ NobodyWrites /\ settings = disk
        /\ settings' = Merged(settings, change)
        /\ update' = [update EXCEPT ![u] = [at |-> "writing", change |-> change, before |-> settings]]
        /\ UNCHANGED <<disk, REQUEST_TIMEOUT, in_force>>
    BY DEF SettingsSound, BeginUpdate, WriterSound, NobodyWrites
  <1>2. /\ DOMAIN update' = Updates /\ \A v \in Updates \ {u} : update'[v] = update[v]
        /\ update'[u] = [at |-> "writing", change |-> change, before |-> settings]
    BY <1>1 DEF SettingsTyped
  <1>3. SettingsTyped'
    BY <1>1, <1>2, MergedIsSettings DEF SettingsTyped
  <1>4. \A v \in Updates : (UpdateAt(v, "writing"))' => v = u
    BY <1>1, <1>2 DEF UpdateAt, NobodyWrites
  <1>5. WriterSound'
    <2>1. ~NobodyWrites'
      BY <1>2 DEF NobodyWrites, UpdateAt
    <2>2. settings' = Merged(disk', change)
      BY <1>1 DEF Merged
    <2>3. update'[u].change = change /\ update'[u].before = disk'
      BY <1>1, <1>2
    <2> HIDE <1>1
    <2>4. Merged(disk, update[u].change)' = settings'
      BY <2>2, <2>3 DEF Merged
    <2> QED
      BY <1>4, <2>1, <2>3, <2>4, up' = "up" DEF WriterSound
  <1>6. InForce'
    BY <1>1 DEF InForce
  <1> QED
    BY <1>3, <1>5, <1>6 DEF SettingsSound

\* A step after which nobody writes and memory and file agree.
LEMMA AgreedStep ==
  ASSUME SettingsSound,
         DOMAIN update' = Updates,
         \A v \in Updates : DOMAIN update'[v] = {"at", "change", "before"}
                            /\ update'[v].at \in {"idle", "invalidating", "done"},
         settings' \in [timeout: Timeouts, limit: Limits], disk' = settings',
         REQUEST_TIMEOUT' = disk'.timeout, in_force' = disk'.limit, up' = "up"
  PROVE  SettingsSound'
  <1>1. \A v \in Updates : ~(UpdateAt(v, "writing"))'
    BY DEF UpdateAt
  <1>2. SettingsTyped'
    BY DEF SettingsSound, SettingsTyped
  <1>3. WriterSound' /\ InForce'
    BY <1>1 DEF WriterSound, InForce
  <1> QED
    BY <1>2, <1>3 DEF SettingsSound

\* The others stay as they are, and none of them writes.
LEMMA WriterEnds ==
  ASSUME SettingsSound, NEW u \in Updates, UpdateAt(u, "writing"),
         Ends(u) \/ Moves(u, "invalidating")
  PROVE  /\ DOMAIN update' = Updates
         /\ \A v \in Updates : DOMAIN update'[v] = {"at", "change", "before"}
                               /\ update'[v].at \in {"idle", "invalidating", "done"}
  <1>1. SettingsTyped /\ WriterSound
    BY DEF SettingsSound
  <1>2. \A v \in Updates \ {u} : update[v].at # "writing"
    BY <1>1 DEF WriterSound, UpdateAt
  <1>3. DOMAIN update' = Updates /\ \A v \in Updates \ {u} : update'[v] = update[v]
    BY <1>1 DEF SettingsTyped, Ends, Moves
  <1>4. DOMAIN update'[u] = {"at", "change", "before"} /\ update'[u].at \in {"invalidating", "done"}
    <2>1. CASE Ends(u)
      BY <1>1, <2>1 DEF SettingsTyped, Ends, NotBegun
    <2>2. CASE Moves(u, "invalidating")
      <3>1. update'[u] = [update[u] EXCEPT !.at = "invalidating"]
        BY <1>1, <2>2 DEF SettingsTyped, Moves
      <3> QED
        BY <1>1, <3>1 DEF SettingsTyped
    <2> QED
      BY <2>1, <2>2
  <1> QED
    BY <1>1, <1>2, <1>3, <1>4 DEF SettingsTyped

LEMMA SavedStep ==
  ASSUME SettingsSound, up = "up", up' = up, NEW u \in Updates, UpdateSaved(u),
         Ends(u) \/ Moves(u, "invalidating")
  PROVE  SettingsSound'
  <1>1. /\ DOMAIN update' = Updates
        /\ \A v \in Updates : DOMAIN update'[v] = {"at", "change", "before"}
                              /\ update'[v].at \in {"idle", "invalidating", "done"}
    BY WriterEnds DEF UpdateSaved
  <1>2. /\ settings' = settings /\ disk' = settings'
        /\ REQUEST_TIMEOUT' = disk'.timeout /\ in_force' = disk'.limit
    BY DEF UpdateSaved
  <1>3. settings' \in [timeout: Timeouts, limit: Limits]
    BY <1>2 DEF SettingsSound, SettingsTyped
  <1> QED
    BY <1>1, <1>2, <1>3, AgreedStep

LEMMA NotSavedStep ==
  ASSUME SettingsSound, up = "up", up' = up, NEW u \in Updates, UpdateNotSaved(u)
  PROVE  SettingsSound'
  <1>1. /\ DOMAIN update' = Updates
        /\ \A v \in Updates : DOMAIN update'[v] = {"at", "change", "before"}
                              /\ update'[v].at \in {"idle", "invalidating", "done"}
    BY WriterEnds DEF UpdateNotSaved
  <1>2. /\ settings' = disk /\ disk' = disk
        /\ REQUEST_TIMEOUT' = disk'.timeout /\ in_force' = disk'.limit
    BY DEF SettingsSound, WriterSound, InForce, UpdateNotSaved
  <1>3. settings' \in [timeout: Timeouts, limit: Limits]
    BY <1>2 DEF SettingsSound, SettingsTyped
  <1> QED
    BY <1>1, <1>2, <1>3, AgreedStep

LEMMA InvalidateStep ==
  ASSUME SettingsSound, up = "up", up' = up, NEW u \in Updates, UpdateAt(u, "invalidating"), Ends(u),
         UNCHANGED <<settings, disk, REQUEST_TIMEOUT, in_force>>
  PROVE  SettingsSound'
  <1>1. SettingsTyped /\ WriterSound /\ InForce
    BY DEF SettingsSound
  <1>2. DOMAIN update' = Updates /\ \A v \in Updates \ {u} : update'[v] = update[v]
    BY <1>1 DEF SettingsTyped, Ends
  <1>3. DOMAIN update'[u] = {"at", "change", "before"} /\ update'[u].at = "done"
    BY <1>1 DEF SettingsTyped, Ends, NotBegun
  <1>4. SettingsTyped'
    BY <1>1, <1>2, <1>3 DEF SettingsTyped
  <1>5. \A v \in Updates : (UpdateAt(v, "writing"))' = UpdateAt(v, "writing")
    BY <1>2, <1>3 DEF UpdateAt
  <1>6. NobodyWrites' = NobodyWrites
    BY <1>5 DEF NobodyWrites
  <1>7. WriterSound'
    <2>1. ASSUME NEW v \in Updates, (UpdateAt(v, "writing"))'
          PROVE  v # u /\ UpdateAt(v, "writing") /\ update'[v] = update[v]
      BY <1>2, <1>5, <2>1 DEF UpdateAt
    <2>2. ASSUME NEW v \in Updates, (UpdateAt(v, "writing"))'
          PROVE  /\ update'[v].change \in Changes /\ update'[v].before = disk'
                 /\ settings' = (Merged(disk, update[v].change))'
      BY <1>1, <2>1, <2>2 DEF WriterSound, Merged
    <2>3. up' = "up"
      OBVIOUS
    <2> QED
      BY <1>1, <1>5, <1>6, <2>2, <2>3 DEF WriterSound
  <1>8. InForce'
    BY <1>1 DEF InForce
  <1> QED
    BY <1>4, <1>7, <1>8 DEF SettingsSound

\* What an old catalog held of the settings is a limit.
LEMMA ReadSettingsStep ==
  ASSUME CatalogTyped, SettingsSound, up = "down", up' = "saving",
         ReadSettings(IF file \in {Missing, Corrupt} THEN None ELSE file.legacy, None)
  PROVE  SettingsSound'
  <1> DEFINE legacy == IF file \in {Missing, Corrupt} THEN None ELSE file.legacy
  <1>1. /\ SettingsTyped /\ WriterSound /\ InForce /\ NobodyUpdates
        /\ settings' = (IF legacy # None /\ disk.limit = DefaultLimit
                         THEN [disk EXCEPT !.limit = legacy] ELSE disk)
        /\ REQUEST_TIMEOUT' = disk.timeout
        /\ UNCHANGED <<disk, in_force, update>>
    BY DEF SettingsSound, WriterSound, ReadSettings
  <1>2. legacy # None => legacy \in Limits
    BY AdministrationAssumption DEF CatalogTyped, Contents, AdministrationAssumption
  <1> HIDE DEF legacy
  <1>3. settings' \in [timeout: Timeouts, limit: Limits] /\ settings'.timeout = disk.timeout
    BY <1>1, <1>2 DEF SettingsTyped
  <1>4. SettingsTyped'
    BY <1>1, <1>3 DEF SettingsTyped
  <1>5. WriterSound'
    BY <1>1, <1>3 DEF WriterSound, NobodyUpdates, UpdateAt
  <1>6. InForce'
    BY <1>1 DEF InForce
  <1> QED
    BY <1>4, <1>5, <1>6 DEF SettingsSound

LEMMA SaveSettingsStep ==
  ASSUME SettingsSound, up = "saving", up' = "up", SaveSettings PROVE SettingsSound'
  <1>1. /\ SettingsTyped /\ WriterSound /\ InForce /\ NobodyUpdates
        /\ disk' = settings' /\ in_force' = disk'.limit
        /\ UNCHANGED <<settings, REQUEST_TIMEOUT, update>>
    BY DEF SettingsSound, WriterSound, SaveSettings
  <1>2. REQUEST_TIMEOUT' = disk'.timeout
    BY <1>1 DEF WriterSound, InForce
  <1>3. \A v \in Updates : DOMAIN update'[v] = {"at", "change", "before"}
                          /\ update'[v].at \in {"idle", "invalidating", "done"}
    BY <1>1 DEF SettingsTyped, NobodyUpdates
  <1> QED
    BY <1>1, <1>2, <1>3, AgreedStep DEF SettingsTyped

\* An update that had begun is over when the process dies, wherever it was.
LEMMA UpdatesDie ==
  ASSUME SettingsSound, up' = "down",
         update' = [u \in Updates |->
           IF UpdateAt(u, "idle") THEN NotBegun ELSE [NotBegun EXCEPT !.at = "done"]],
         UNCHANGED <<settings, disk, REQUEST_TIMEOUT, in_force>>
  PROVE  SettingsSound'
  <1>1. \A u \in Updates : /\ DOMAIN update'[u] = {"at", "change", "before"}
                          /\ update'[u].at \in {"idle", "done"}
    BY DEF NotBegun
  <1>2. SettingsTyped'
    BY <1>1 DEF SettingsSound, SettingsTyped
  <1>3. WriterSound' /\ InForce'
    BY <1>1 DEF SettingsSound, WriterSound, InForce, NobodyUpdates, UpdateAt
  <1> QED
    BY <1>2, <1>3 DEF SettingsSound

LEMMA SettingsInits == ASSUME Init PROVE SettingsSound
  <1>1. /\ disk \in [timeout: Timeouts, limit: Limits] /\ settings = disk
        /\ REQUEST_TIMEOUT = disk.timeout /\ in_force = disk.limit
        /\ update = [u \in Updates |-> NotBegun] /\ up = "down"
    BY SettingsAssumption DEF Init, SettingsInit, SettingsAssumption
  <1>2. \A u \in Updates : DOMAIN update[u] = {"at", "change", "before"} /\ update[u].at = "idle"
    BY <1>1 DEF NotBegun
  <1> QED
    BY <1>1, <1>2 DEF SettingsSound, SettingsTyped, WriterSound, InForce, NobodyUpdates, UpdateAt

LEMMA SettingsSteps == ASSUME CatalogTyped, SettingsSound, [Next]_vars PROVE SettingsSound'
  <1>1. CASE Update
    BY <1>1, UpdateStep DEF Update, Up
  <1>2. CASE \E u \in Updates : Saved(u)
    BY <1>2, SavedStep DEF Saved, Up
  <1>3. CASE \E u \in Updates : NotSaved(u)
    BY <1>3, NotSavedStep DEF NotSaved, Up
  <1>4. CASE \E u \in Updates : Invalidate(u)
    BY <1>4, InvalidateStep DEF Invalidate, Up
  <1>5. CASE Start
    BY <1>5, ReadSettingsStep DEF Start
  <1>6. CASE Started
    BY <1>6, SaveSettingsStep DEF Started
  <1>7. CASE Crash
    BY <1>7, UpdatesDie DEF Crash
  <1>8. CASE \/ Operate \/ FileWork \/ CommitChange \/ apply_channel_change \/ EditFile
             \/ \E r \in Requests : Choose(r) \/ AskClient(r) \/ GetClient(r) \/ Answered(r)
             \/ CleanUp \/ \E task \in retiring : Retire(task)
             \/ Tick \/ UNCHANGED vars
    <2>1. UNCHANGED <<settings, disk, REQUEST_TIMEOUT, in_force, update, up>>
      <3>1. CASE Operate \/ FileWork \/ CommitChange \/ apply_channel_change \/ EditFile
        BY <3>1, SMTT(30) DEF Operate, FileWork, CommitChange, apply_channel_change, EditFile, Up, settingsVars
      <3>2. CASE \E r \in Requests : Choose(r) \/ AskClient(r) \/ GetClient(r) \/ Answered(r)
        BY <3>2 DEF Choose, AskClient, GetClient, Answered, Up, settingsVars
      <3>3. CASE CleanUp \/ (\E task \in retiring : Retire(task)) \/ Tick \/ UNCHANGED vars
        BY <3>3 DEF CleanUp, Retire, Tick, Up, vars, settingsVars
      <3> QED
        BY <1>8, <3>1, <3>2, <3>3
    <2>2. SettingsTyped' /\ InForce'
      BY <2>1 DEF SettingsSound, SettingsTyped, InForce
    <2>3. WriterSound'
      BY <2>1 DEF SettingsSound, WriterSound, NobodyWrites, NobodyUpdates, UpdateAt, Merged
    <2> QED
      BY <2>2, <2>3 DEF SettingsSound
  <1> QED
    BY <1>1, <1>2, <1>3, <1>4, <1>5, <1>6, <1>7, <1>8 DEF Next

\* Whichever writes fail and whenever the process dies, the settings in memory, in
\* the file and in force are the same but while a change is written (config.py,
\* update_settings, _init_settings_sync).
THEOREM SettingsAlwaysAgree == Spec => []SettingsAgree
  <1>1. Init => CInv /\ SettingsSound
    BY CatalogInits, SettingsInits
  <1>2. CInv /\ SettingsSound /\ [Next]_vars => CInv' /\ SettingsSound'
    BY CatalogSteps, SettingsSteps DEF CInv
  <1>3. SettingsSound => SettingsAgree
    BY DEF SettingsSound, WriterSound, InForce, SettingsAgree, NobodyWrites
  <1> QED
    BY <1>1, <1>2, <1>3, PTL DEF Spec

-----------------------------------------------------------------------------
(* The pool of clients and the line for its lock *)

Callers == Requests \cup Updates \cup {Catalog} \cup Tasks

RequestsTyped ==
  /\ request \in [Requests -> [at: {"ready", "chosen", "queued", "using", "over"},
                               url: Endpoints \cup {None}, timeout: Nat, client: Nat, waited: Nat]]
  /\ \A r \in Requests :
       /\ request[r].at \in {"chosen", "queued", "using"} => request[r].url \in Endpoints
       /\ request[r].at = "using" => request[r].client \in DOMAIN clients
       /\ request[r].at # "using" => request[r].waited = 0

PoolTyped ==
  /\ clients \in Seq([timeout: Nat, open: BOOLEAN, hasty: BOOLEAN])
  /\ pool \in [Endpoints -> DOMAIN clients \cup {NoClient}]
  /\ \A u, v \in Endpoints : pool[u] = pool[v] /\ pool[u] # NoClient => u = v
  /\ retiring \subseteq [clients: SUBSET DOMAIN clients, left: Nat \cup {Asleep}]

\* A request or an update stands in line once, and only while it waits.
Lined ==
  /\ line \in Seq(Callers)
  /\ \A i, j \in 1..Len(line) : line[i] = line[j] /\ line[i] \in Requests \cup Updates => i = j
  /\ \A i \in 1..Len(line) :
       /\ line[i] \in Requests => request[line[i]].at = "queued"
       /\ line[i] \in Updates => UpdateAt(line[i], "invalidating")
  /\ \A r \in Requests : request[r].at = "queued" => \E i \in 1..Len(line) : line[i] = r

\* A timeout that is not the one in force stands before an invalidation.
Later(queue, k) == \E j \in k..Len(queue) : queue[j] \in Updates

TimeoutSound ==
  /\ \A i \in 1..Len(line) : line[i] \in Requests =>
       request[line[i]].timeout = REQUEST_TIMEOUT \/ Later(line, i + 1)
  /\ \A u \in Cached(pool) : clients[pool[u]].timeout = REQUEST_TIMEOUT \/ Later(line, 1)

Pooled(n)   == \E u \in Endpoints : pool[u] = n
Using(r, n) == request[r].at = "using" /\ request[r].client = n

\* A task that closes clients sleeps at least as long as they may be waited for.
RetireSound ==
  /\ \A task \in retiring : \A n \in task.clients :
       /\ ~Pooled(n)
       /\ task.left # Asleep /\ ~clients[n].hasty =>
            \A r \in Requests : Using(r, n) => task.left + request[r].waited >= clients[n].timeout
  /\ \A n \in DOMAIN clients : ~clients[n].open =>
       /\ ~Pooled(n)
       /\ ~clients[n].hasty =>
            \A r \in Requests : Using(r, n) => request[r].waited >= clients[n].timeout

ClientsSound == RequestsTyped /\ PoolTyped /\ RetireSound
PInv == ClientsSound /\ Lined /\ TimeoutSound

-----------------------------------------------------------------------------
(* Clients given out, taken out and closed *)

LEMMA Relabelled ==
  ASSUME NEW n \in Nat, NEW S, NEW f \in [1..n -> S]
  PROVE  f \in Seq(S) /\ DOMAIN f = 1..n /\ Len(f) = n
  OBVIOUS

LEMMA Elements ==
  ASSUME NEW S, NEW s \in Seq(S)
  PROVE  DOMAIN s = 1..Len(s) /\ Len(s) \in Nat /\ \A i \in DOMAIN s : s[i] \in S
  OBVIOUS

LEMMA ClientFields ==
  ASSUME PoolTyped
  PROVE  /\ DOMAIN clients = 1..Len(clients) /\ Len(clients) \in Nat
         /\ \A n \in DOMAIN clients :
              /\ clients[n] \in [timeout: Nat, open: BOOLEAN, hasty: BOOLEAN]
              /\ clients[n].timeout \in Nat
  <1>1. clients \in Seq([timeout: Nat, open: BOOLEAN, hasty: BOOLEAN])
    BY DEF PoolTyped
  <1>2. \A n \in DOMAIN clients : clients[n] \in [timeout: Nat, open: BOOLEAN, hasty: BOOLEAN]
    BY <1>1, Elements
  <1> QED
    BY <1>1, <1>2, Elements

\* A task has the clients that are taken out, which are in the pool no more.
LEMMA TakenOut ==
  ASSUME ClientsSound, NEW set, pool' = Taken(set),
         retiring' = Retired({pool[u] : u \in set \cap Cached(pool)}), UNCHANGED <<clients, request>>
  PROVE  /\ ClientsSound'
         /\ \A u \in Endpoints : pool'[u] = IF u \in set THEN NoClient ELSE pool[u]
  <1> DEFINE gone == {pool[u] : u \in set \cap Cached(pool)}
             made == [clients |-> gone, left |-> Asleep]
  <1>1. RequestsTyped /\ PoolTyped /\ RetireSound
    BY DEF ClientsSound
  <1>2. /\ pool' \in [Endpoints -> DOMAIN clients \cup {NoClient}]
        /\ \A u \in Endpoints : pool'[u] = IF u \in set THEN NoClient ELSE pool[u]
    BY <1>1 DEF PoolTyped, Taken
  <1>3. \A task \in retiring' : task \in retiring \/ task = made
    BY DEF Retired
  <1>4. gone \subseteq DOMAIN clients
    BY <1>1 DEF PoolTyped, Cached
  <1>5. \A n \in gone : ~Pooled(n)'
    <2>1. SUFFICES ASSUME NEW u \in set \cap Cached(pool), NEW v \in Endpoints, pool'[v] = pool[u]
                   PROVE  FALSE
      BY DEF Pooled
    <2>2. pool[u] # NoClient /\ u \in Endpoints
      BY DEF Cached
    <2>3. v \notin set /\ pool[v] = pool[u]
      BY <1>2, <2>1, <2>2
    <2> QED
      BY <1>1, <2>2, <2>3 DEF PoolTyped
  <1>6. \A n \in DOMAIN clients : ~Pooled(n) => ~Pooled(n)'
    <2>1. \A n \in DOMAIN clients : n # NoClient
      BY <1>1, PoolAssumption DEF PoolTyped, PoolAssumption
    <2> QED
      BY <1>2, <2>1 DEF Pooled
  <1> HIDE DEF gone
  <1>7. PoolTyped'
    <2>1. made \in [clients: SUBSET DOMAIN clients, left: Nat \cup {Asleep}]
      BY <1>4
    <2>2. retiring' \subseteq [clients: SUBSET DOMAIN clients, left: Nat \cup {Asleep}]
      BY <1>1, <1>3, <2>1 DEF PoolTyped
    <2>3. \A u, v \in Endpoints : pool'[u] = pool'[v] /\ pool'[u] # NoClient => u = v
      BY <1>1, <1>2 DEF PoolTyped
    <2> QED
      BY <1>1, <1>2, <2>2, <2>3 DEF PoolTyped
  <1>8. RequestsTyped'
    BY <1>1 DEF RequestsTyped
  <1>9. RetireSound'
    <2>1. ASSUME NEW task \in retiring', NEW n \in task.clients
          PROVE  /\ ~Pooled(n)'
                 /\ task.left # Asleep /\ ~clients'[n].hasty =>
                      \A r \in Requests : Using(r, n)' => task.left + request'[r].waited >= clients'[n].timeout
      <3>1. CASE task = made
        BY <1>5, <2>1, <3>1
      <3>2. CASE task \in retiring
        <4>1. n \in DOMAIN clients /\ ~Pooled(n)
          BY <1>1, <2>1, <3>2 DEF PoolTyped, RetireSound
        <4> QED
          BY <1>1, <1>6, <2>1, <3>2, <4>1 DEF RetireSound, Using
      <3> QED
        BY <1>3, <2>1, <3>1, <3>2
    <2>2. ASSUME NEW n \in DOMAIN clients', ~clients'[n].open
          PROVE  /\ ~Pooled(n)'
                 /\ ~clients'[n].hasty =>
                      \A r \in Requests : Using(r, n)' => request'[r].waited >= clients'[n].timeout
      BY <1>1, <1>6, <2>2, SMTT(30) DEF RetireSound, Using
    <2> QED
      BY <2>1, <2>2 DEF RetireSound
  <1> QED
    BY <1>2, <1>7, <1>8, <1>9 DEF ClientsSound

\* The pool gives a request the client it has, or a new one and retires another.
LEMMA GivenOut ==
  ASSUME ClientsSound, NEW r \in Requests, request[r].at \in {"chosen", "queued"}, NEW timeout \in Nat,
         GetOld(request[r].url) \/ GetNew(request[r].url, timeout),
         request' = [request EXCEPT ![r].at = "using", ![r].client = pool'[request[r].url],
                                    ![r].timeout = 0]
  PROVE  /\ ClientsSound'
         /\ \A u \in Cached(pool)' :
              clients'[pool'[u]].timeout = timeout
                \/ (u \in Cached(pool) /\ clients'[pool'[u]].timeout = clients[pool[u]].timeout)
         /\ \A q \in Requests \ {r} : request'[q] = request[q]
         /\ request'[r].at = "using"
  <1> DEFINE url == request[r].url
             new == [timeout |-> timeout, open |-> TRUE, hasty |-> FALSE]
             id  == Len(clients) + 1
  <1>1. RequestsTyped /\ PoolTyped /\ RetireSound /\ url \in Endpoints
    BY DEF ClientsSound, RequestsTyped
  <1>2. DOMAIN clients = 1..Len(clients) /\ Len(clients) \in Nat /\ NoClient \notin Nat
    BY <1>1, PoolAssumption DEF PoolTyped, PoolAssumption
  <1>3. /\ \A q \in Requests \ {r} : request'[q] = request[q]
        /\ request'[r].at = "using" /\ request'[r].client = pool'[url] /\ request'[r].url = url
        /\ request'[r].waited = 0 /\ request[r].waited = 0
    BY <1>1, SMTT(30) DEF RequestsTyped
  <1>4. pool'[url] \in Nat =>
          request' \in [Requests -> [at: {"ready", "chosen", "queued", "using", "over"},
                         url: Endpoints \cup {None}, timeout: Nat, client: Nat, waited: Nat]]
    <2> DEFINE Kinds == [at: {"ready", "chosen", "queued", "using", "over"},
                         url: Endpoints \cup {None}, timeout: Nat, client: Nat, waited: Nat]
               served == [request[r] EXCEPT !.at = "using", !.client = pool'[url], !.timeout = 0]
    <2>1. request \in [Requests -> Kinds] /\ request[r] \in Kinds
      BY <1>1 DEF RequestsTyped
    <2>2. request' = [request EXCEPT ![r] = served]
      BY <2>1
    <2>3. pool'[url] \in Nat => served \in Kinds
      BY <2>1
    <2> HIDE DEF served, Kinds
    <2>4. served \in Kinds => request' \in [Requests -> Kinds]
      BY ONLY <2>1, <2>2, SMTT(30)
    <2> QED
      BY <2>3, <2>4 DEF Kinds
  <1>5. \A q \in Requests \ {r}, n \in Nat : Using(q, n)' = Using(q, n)
    BY <1>3 DEF Using
  <1>6. \A n \in Nat : Using(r, n)' => n = pool'[url]
    BY <1>3 DEF Using
  <1> HIDE DEF url
  <1>7. CASE GetOld(url)
    <2>1. pool[url] # NoClient /\ UNCHANGED <<pool, clients, retiring>>
      BY <1>7 DEF GetOld
    <2>2. pool'[url] \in DOMAIN clients /\ Pooled(pool[url])
      BY <1>1, <2>1 DEF PoolTyped, Pooled
    <2>3. RequestsTyped'
      <3>1. clients' = clients /\ pool'[url] \in Nat /\ pool'[url] \in DOMAIN clients
        BY <1>2, <2>1, <2>2
      <3>2. \A q \in Requests \ {r} : request'[q] = request[q]
        BY <1>3
      <3>3. request'[r].at = "using" /\ request'[r].client \in DOMAIN clients
              /\ request'[r].url = url /\ url \in Endpoints
        BY <1>1, <1>3, <3>1
      <3> DEFINE Good(f, q) ==
            /\ f[q].at \in {"chosen", "queued", "using"} => f[q].url \in Endpoints
            /\ f[q].at = "using" => f[q].client \in DOMAIN clients
            /\ f[q].at # "using" => f[q].waited = 0
      <3>4. \A q \in Requests : Good(request, q)
        BY <1>1 DEF RequestsTyped
      <3>5. Good(request', r)
        BY <3>3
      <3>6. \A q \in Requests \ {r} : Good(request', q)
        BY <3>2, <3>4
      <3>7. \A q \in Requests : Good(request', q)
        <4> HIDE DEF Good
        <4> QED
          BY <3>5, <3>6
      <3>8. request' \in [Requests -> [at: {"ready", "chosen", "queued", "using", "over"},
                                       url: Endpoints \cup {None}, timeout: Nat, client: Nat, waited: Nat]]
        BY <1>4, <3>1
      <3>9. DOMAIN clients' = DOMAIN clients
        BY <3>1
      <3> QED
        BY ONLY <3>7, <3>8, <3>9, SMTT(30) DEF RequestsTyped
    <2>4. PoolTyped'
      BY <1>1, <2>1 DEF PoolTyped
    <2>5. \A n \in Nat : Pooled(n)' = Pooled(n)
      BY <2>1 DEF Pooled
    <2>6. \A n \in Nat : ~Pooled(n) => ~Using(r, n)'
      BY <1>6, <2>1, <2>2, SMTT(30)
    <2>7. RetireSound'
      <3>1. ASSUME NEW n \in DOMAIN clients, ~Pooled(n), NEW q \in Requests, Using(q, n)'
            PROVE  Using(q, n) /\ request'[q] = request[q]
        <4>1. n \in Nat
          BY <1>2
        <4>2. q # r
          BY <2>6, <3>1, <4>1, SMTT(30)
        <4> QED
          BY <1>3, <1>5, <3>1, <4>1, <4>2
      <3>2. ASSUME NEW task \in retiring', NEW n \in task.clients
            PROVE  /\ ~Pooled(n)'
                   /\ task.left # Asleep /\ ~clients'[n].hasty =>
                        \A q \in Requests : Using(q, n)' => task.left + request'[q].waited >= clients'[n].timeout
        <4>1. task \in retiring /\ n \in DOMAIN clients /\ n \in Nat /\ ~Pooled(n)
          BY <1>1, <1>2, <2>1, <3>2 DEF PoolTyped, RetireSound
        <4> QED
          BY <1>1, <2>1, <2>5, <3>1, <3>2, <4>1 DEF RetireSound
      <3>3. ASSUME NEW n \in DOMAIN clients', ~clients'[n].open
            PROVE  /\ ~Pooled(n)'
                   /\ ~clients'[n].hasty =>
                        \A q \in Requests : Using(q, n)' => request'[q].waited >= clients'[n].timeout
        <4>1. n \in DOMAIN clients /\ n \in Nat /\ ~Pooled(n)
          BY <1>1, <1>2, <2>1, <3>3 DEF RetireSound
        <4> QED
          BY <1>1, <2>1, <2>5, <3>1, <3>3, <4>1 DEF RetireSound
      <3> QED
        BY <3>2, <3>3 DEF RetireSound
    <2>8. \A u \in Cached(pool)' : u \in Cached(pool) /\ clients'[pool'[u]].timeout = clients[pool[u]].timeout
      BY <2>1, SMTT(30) DEF Cached
    <2> QED
      BY <1>3, <2>3, <2>4, <2>7, <2>8 DEF ClientsSound
  <1>8. CASE GetNew(url, timeout)
    <2> DEFINE after == [pool EXCEPT ![url] = id]
    <2>1. /\ pool[url] = NoClient /\ clients' = Append(clients, new)
          /\ \/ pool' = after /\ retiring' = retiring
             \/ \E v \in Cached(pool) :
                  pool' = [after EXCEPT ![v] = NoClient] /\ retiring' = Retired({pool[v]})
      BY <1>8 DEF GetNew
    <2>2. /\ DOMAIN clients' = 1..id /\ id \in Nat /\ id \notin DOMAIN clients
          /\ \A n \in DOMAIN clients : clients'[n] = clients[n]
          /\ clients'[id] = new
          /\ clients' \in Seq([timeout: Nat, open: BOOLEAN, hasty: BOOLEAN])
      BY <1>1, <1>2, <2>1 DEF PoolTyped
    <2> HIDE DEF id, new
    <2>3. after \in [Endpoints -> Nat \cup {NoClient}] /\ after[url] = id
          /\ \A u \in Endpoints \ {url} : after[u] = pool[u]
      BY <1>1, <1>2, <2>2 DEF PoolTyped
    <2> HIDE DEF after
    <2>4. PICK evicted \in SUBSET (Endpoints \ {url}) :
            /\ \A u \in Endpoints : pool'[u] = IF u \in evicted THEN NoClient ELSE after[u]
            /\ DOMAIN pool' = Endpoints /\ pool' \in [Endpoints -> Nat \cup {NoClient}]
            /\ evicted \subseteq Cached(pool)
            /\ retiring' \subseteq retiring \cup {[clients |-> {pool[v]}, left |-> Asleep] : v \in evicted}
      <3>1. CASE pool' = after /\ retiring' = retiring
        <4>1. WITNESS {} \in SUBSET (Endpoints \ {url})
        <4> QED
          BY <2>3, <3>1
      <3>2. ASSUME NEW v \in Cached(pool), pool' = [after EXCEPT ![v] = NoClient], retiring' = Retired({pool[v]})
            PROVE  \E evicted \in SUBSET (Endpoints \ {url}) :
                      /\ \A u \in Endpoints : pool'[u] = IF u \in evicted THEN NoClient ELSE after[u]
                      /\ DOMAIN pool' = Endpoints /\ pool' \in [Endpoints -> Nat \cup {NoClient}]
                      /\ evicted \subseteq Cached(pool)
                      /\ retiring' \subseteq retiring \cup {[clients |-> {pool[w]}, left |-> Asleep] : w \in evicted}
        <4>1. v \in Endpoints \ {url}
          BY <2>1, <3>2 DEF Cached
        <4>2. {v} \in SUBSET (Endpoints \ {url})
          BY <4>1
        <4>3. retiring' = retiring \cup {[clients |-> {pool[v]}, left |-> Asleep]}
          BY <3>2 DEF Retired
        <4>4. \A u \in Endpoints : pool'[u] = IF u \in {v} THEN NoClient ELSE after[u]
          BY <2>3, <3>2, <4>1
        <4>5. DOMAIN pool' = Endpoints /\ pool' \in [Endpoints -> Nat \cup {NoClient}]
          BY <2>3, <3>2, <4>1
        <4>6. {v} \subseteq Cached(pool)
          BY <3>2
        <4>7. WITNESS {v} \in SUBSET (Endpoints \ {url})
        <4> QED
          BY <4>3, <4>4, <4>5, <4>6
      <3> QED
        BY <2>1, <3>1, <3>2
    <2>5. \A u \in Endpoints :
            pool'[u] = (IF u = url THEN id ELSE IF u \in evicted THEN NoClient ELSE pool[u])
      <3>1. \A u \in Endpoints : pool'[u] = IF u \in evicted THEN NoClient ELSE after[u]
        BY <2>4
      <3>2. url \notin evicted
        OBVIOUS
      <3>3. pool'[url] = id
        BY <1>1, <2>3, <3>1, <3>2
      <3>4. \A u \in Endpoints \ {url} : u \notin evicted => pool'[u] = pool[u]
        BY <2>3, <3>1
      <3> QED
        BY <3>1, <3>3, <3>4
    <2>6. /\ \A n \in DOMAIN clients : ~Pooled(n) => ~Pooled(n)'
          /\ \A v \in evicted : pool[v] \in DOMAIN clients
          /\ \A v \in evicted, n \in DOMAIN clients : n = pool[v] => ~Pooled(n)'
      <3>1. \A v \in evicted : pool[v] \in DOMAIN clients
        BY <1>1, <2>4 DEF PoolTyped, Cached
      <3>2. \A n \in DOMAIN clients : ~Pooled(n) => ~Pooled(n)'
        BY <1>2, <2>2, <2>5, SMTT(30) DEF Pooled
      <3>3. ASSUME NEW v \in evicted, NEW u \in Endpoints, pool'[u] = pool[v] PROVE FALSE
        <4>1. u # url /\ u \notin evicted /\ pool[u] = pool[v]
          BY <1>2, <2>2, <2>5, <3>1, <3>3
        <4>2. v \in Endpoints /\ pool[v] # NoClient
          BY <2>4 DEF Cached
        <4> QED
          BY <1>1, <4>1, <4>2 DEF PoolTyped
      <3> QED
        BY <3>1, <3>2, <3>3 DEF Pooled
    <2>7. PoolTyped'
      <3>1. pool' \in [Endpoints -> DOMAIN clients' \cup {NoClient}]
        <4>1. DOMAIN clients \subseteq DOMAIN clients' /\ id \in DOMAIN clients'
          BY <1>2, <2>2 DEF id
        <4>2. \A u \in Endpoints : pool'[u] \in DOMAIN clients' \cup {NoClient}
          BY <1>1, <2>5, <4>1 DEF PoolTyped
        <4>3. pool' \in [Endpoints -> Nat \cup {NoClient}]
          BY <2>4
        <4> QED
          BY <4>2, <4>3
      <3>2. \A u, v \in Endpoints : pool'[u] = pool'[v] /\ pool'[u] # NoClient => u = v
        <4> SUFFICES ASSUME NEW u \in Endpoints, NEW v \in Endpoints,
                            pool'[u] = pool'[v], pool'[u] # NoClient
                     PROVE  u = v
          OBVIOUS
        <4>1. id # NoClient /\ id \notin DOMAIN clients
          BY <1>2 DEF id
        <4>2. \A w \in Endpoints : pool[w] # id
          BY <1>1, <4>1 DEF PoolTyped
        <4>3. \A w \in Endpoints :
                \/ w = url /\ pool'[w] = id
                \/ w # url /\ pool'[w] \in {pool[w], NoClient}
          BY <2>5
        <4>4. CASE u = url \/ v = url
          BY <4>1, <4>2, <4>3, <4>4
        <4>5. CASE u # url /\ v # url
          <5>1. pool[u] = pool[v] /\ pool[u] # NoClient
            BY <4>3, <4>5
          <5> QED
            BY <1>1, <5>1 DEF PoolTyped
        <4> QED
          BY <4>4, <4>5
      <3>3. \A v \in evicted : [clients |-> {pool[v]}, left |-> Asleep] \in [clients: SUBSET DOMAIN clients', left: Nat \cup {Asleep}]
        <4>1. \A v \in evicted : pool[v] \in DOMAIN clients'
          BY <1>2, <2>2, <2>6 DEF id
        <4> QED
          BY <4>1
      <3>4. \A task \in retiring : task \in [clients: SUBSET DOMAIN clients', left: Nat \cup {Asleep}]
        <4>1. DOMAIN clients \subseteq DOMAIN clients'
          BY <1>2, <2>2, SMTT(30) DEF id
        <4> QED
          BY <1>1, <4>1 DEF PoolTyped
      <3> QED
        BY <2>2, <2>4, <3>1, <3>2, <3>3, <3>4 DEF PoolTyped
    <2>8. RequestsTyped'
      <3>1. pool'[url] = id
        BY <1>1, <2>5
      <3>2. DOMAIN clients \subseteq DOMAIN clients' /\ id \in DOMAIN clients'
        BY <1>2, <2>2 DEF id
      <3> QED
        BY <1>1, <1>3, <1>4, <2>2, <3>1, <3>2, ZenonT(60) DEF RequestsTyped
    <2>9. \A q \in Requests, n \in DOMAIN clients : Using(q, n)' => Using(q, n) /\ request'[q] = request[q]
      <3> TAKE q \in Requests, n \in DOMAIN clients
      <3>1. n \in Nat /\ n # id
        BY <1>2, <2>2
      <3>2. pool'[url] = id
        BY <1>1, <2>5
      <3>3. CASE q = r
        BY <1>6, <3>1, <3>2, <3>3
      <3>4. CASE q # r
        BY <1>3, <1>5, <3>1, <3>4, ZenonT(60)
      <3> QED
        BY <3>3, <3>4
    <2>10. RetireSound'
      <3>1. ASSUME NEW task \in retiring', NEW n \in task.clients
            PROVE  /\ ~Pooled(n)'
                   /\ task.left # Asleep /\ ~clients'[n].hasty =>
                        \A q \in Requests : Using(q, n)' => task.left + request'[q].waited >= clients'[n].timeout
        <4>1. CASE task \in retiring
          <5>1. n \in DOMAIN clients /\ ~Pooled(n)
            BY <1>1, <3>1, <4>1 DEF PoolTyped, RetireSound
          <5> QED
            BY <1>1, <2>2, <2>6, <2>9, <3>1, <4>1, <5>1 DEF RetireSound
        <4>2. ASSUME NEW v \in evicted, task = [clients |-> {pool[v]}, left |-> Asleep]
              PROVE  task.left = Asleep /\ ~Pooled(n)'
          <5>1. n = pool[v] /\ n \in DOMAIN clients /\ task.left = Asleep
            BY <2>6, <3>1, <4>2
          <5> QED
            BY <2>6, <5>1
        <4> QED
          BY <2>4, <3>1, <4>1, <4>2
      <3>2. ASSUME NEW n \in DOMAIN clients', ~clients'[n].open
            PROVE  /\ ~Pooled(n)'
                   /\ ~clients'[n].hasty =>
                        \A q \in Requests : Using(q, n)' => request'[q].waited >= clients'[n].timeout
        <4>1. n \in DOMAIN clients
          BY <1>2, <2>2, <3>2 DEF new, id
        <4> QED
          BY <1>1, <2>2, <2>6, <2>9, <3>2, <4>1 DEF RetireSound
      <3> QED
        BY <3>1, <3>2 DEF RetireSound
    <2>11. \A u \in Cached(pool)' :
             clients'[pool'[u]].timeout = timeout
               \/ (u \in Cached(pool) /\ clients'[pool'[u]].timeout = clients[pool[u]].timeout)
      <3>1. clients'[id].timeout = timeout
        BY <2>2 DEF new
      <3>2. \A u \in Endpoints : pool[u] # NoClient => clients'[pool[u]] = clients[pool[u]]
        BY <1>1, <2>2 DEF PoolTyped
      <3> QED
        BY <2>5, <3>1, <3>2 DEF Cached
    <2> QED
      BY <1>3, <2>7, <2>8, <2>10, <2>11 DEF ClientsSound
  <1> QED
    BY <1>7, <1>8 DEF url

\* A request that is not at a client before or after leaves the clients as they are.
LEMMA ElsewhereThan ==
  ASSUME ClientsSound, UNCHANGED <<pool, clients, retiring>>, RequestsTyped',
         \A r \in Requests : request'[r].at = "using" => request'[r] = request[r]
  PROVE  ClientsSound'
  <1>1. PoolTyped /\ RetireSound
    BY DEF ClientsSound
  <1>2. PoolTyped'
    BY <1>1 DEF PoolTyped
  <1>3. RetireSound'
    BY <1>1 DEF RetireSound, Pooled, Using
  <1> QED
    BY <1>2, <1>3 DEF ClientsSound

\* A task that runs for the first time sleeps for the timeout in force at least;
\* where a client's own is longer it is marked.
LEMMA SleepStep ==
  ASSUME ClientsSound, NEW task \in retiring, NEW timeout \in Nat, Sleep(task, timeout), request' = request
  PROVE  ClientsSound' /\ \A n \in DOMAIN clients : clients'[n].timeout = clients[n].timeout
  <1> DEFINE delay == _retired_client_close_delay_seconds(timeout)
             slept == [task EXCEPT !.left = delay]
             Client == [timeout: Nat, open: BOOLEAN, hasty: BOOLEAN]
  <1>1. RequestsTyped /\ PoolTyped /\ RetireSound
    BY DEF ClientsSound
  <1>2. task \in [clients: SUBSET DOMAIN clients, left: Nat \cup {Asleep}]
    BY <1>1 DEF PoolTyped
  <1>3. delay \in Nat /\ delay >= timeout
    BY PoolAssumption DEF PoolAssumption, _retired_client_close_delay_seconds
  <1>4. /\ retiring' = (retiring \ {task}) \cup {slept}
        /\ clients' = [n \in DOMAIN clients |->
             IF n \in task.clients /\ timeout < clients[n].timeout
             THEN [clients[n] EXCEPT !.hasty = TRUE] ELSE clients[n]]
        /\ pool' = pool
    BY DEF Sleep
  <1> HIDE DEF delay
  <1>5. /\ slept \in [clients: SUBSET DOMAIN clients, left: Nat \cup {Asleep}]
        /\ slept.clients = task.clients /\ slept.left = delay
    BY <1>2, <1>3
  <1> HIDE DEF slept
  <1>6. DOMAIN clients = 1..Len(clients) /\ Len(clients) \in Nat
        /\ \A n \in DOMAIN clients : clients[n] \in Client
    BY <1>1, ClientFields
  <1>7. \A n \in DOMAIN clients :
          /\ clients'[n] \in Client /\ clients'[n].timeout = clients[n].timeout
          /\ clients'[n].open = clients[n].open
          /\ ~clients'[n].hasty => ~clients[n].hasty /\ (n \in task.clients => timeout >= clients[n].timeout)
    <2> TAKE n \in DOMAIN clients
    <2>1. clients[n].timeout \in Nat
      BY <1>6
    <2>2. CASE n \in task.clients /\ timeout < clients[n].timeout
      <3>1. clients'[n] = [clients[n] EXCEPT !.hasty = TRUE]
        BY <1>4, <2>2
      <3> QED
        BY <1>6, <3>1
    <2>3. CASE ~(n \in task.clients /\ timeout < clients[n].timeout)
      <3>1. clients'[n] = clients[n]
        BY <1>4, <2>3
      <3> QED
        BY <1>6, <2>1, <2>3, <3>1
    <2> QED
      BY <2>2, <2>3
  <1>8. clients' \in Seq(Client) /\ DOMAIN clients' = DOMAIN clients
    <2>1. clients' \in [1..Len(clients) -> Client]
      BY <1>4, <1>6, <1>7
    <2> QED
      BY <1>6, <2>1, Relabelled
  <1>9. RequestsTyped' /\ PoolTyped'
    BY <1>1, <1>4, <1>5, <1>8 DEF RequestsTyped, PoolTyped
  <1>10. \A n : Pooled(n)' = Pooled(n)
    BY <1>4 DEF Pooled
  <1>11. \A r \in Requests, n \in DOMAIN clients : Using(r, n)' = Using(r, n) /\ request'[r].waited = request[r].waited
    BY DEF Using
  <1>12. RetireSound'
    <2>1. ASSUME NEW t \in retiring', NEW n \in t.clients
          PROVE  /\ ~Pooled(n)'
                 /\ t.left # Asleep /\ ~clients'[n].hasty =>
                      \A r \in Requests : Using(r, n)' => t.left + request'[r].waited >= clients'[n].timeout
      <3>1. CASE t \in retiring
        <4>1. n \in DOMAIN clients
          BY <1>1, <2>1, <3>1 DEF PoolTyped
        <4> QED
          BY <1>1, <1>7, <1>10, <1>11, <2>1, <3>1, <4>1 DEF RetireSound
      <3>2. CASE t = slept
        <4>1. n \in DOMAIN clients /\ n \in task.clients /\ t.left = delay
          BY <1>2, <1>5, <2>1, <3>2
        <4>2. ~Pooled(n)'
          BY <1>1, <1>10, <4>1 DEF RetireSound
        <4>3. ASSUME ~clients'[n].hasty, NEW r \in Requests
              PROVE  delay + request'[r].waited >= clients'[n].timeout
          <5>1. request[r].waited \in Nat /\ clients[n].timeout \in Nat
            BY <1>1, <1>6, <4>1 DEF RequestsTyped
          <5>2. timeout >= clients[n].timeout /\ clients'[n].timeout = clients[n].timeout
            BY <1>7, <4>1, <4>3
          <5> QED
            BY <1>3, <1>11, <4>1, <5>1, <5>2
        <4> QED
          BY <4>1, <4>2, <4>3
      <3> QED
        BY <1>4, <2>1, <3>1, <3>2
    <2>2. ASSUME NEW n \in DOMAIN clients', ~clients'[n].open
          PROVE  /\ ~Pooled(n)'
                 /\ ~clients'[n].hasty =>
                      \A r \in Requests : Using(r, n)' => request'[r].waited >= clients'[n].timeout
      BY <1>1, <1>7, <1>8, <1>10, <1>11, <2>2 DEF RetireSound
    <2> QED
      BY <2>1, <2>2 DEF RetireSound
  <1> QED
    BY <1>7, <1>9, <1>12 DEF ClientsSound

\* Its clients are not closed before it has slept for that time.
LEMMA CloseStep ==
  ASSUME ClientsSound, NEW task \in retiring, Close(task), request' = request
  PROVE  ClientsSound' /\ \A n \in DOMAIN clients : clients'[n].timeout = clients[n].timeout
  <1> DEFINE Client == [timeout: Nat, open: BOOLEAN, hasty: BOOLEAN]
  <1>1. RequestsTyped /\ PoolTyped /\ RetireSound
    BY DEF ClientsSound
  <1>2. /\ task.left = 0 /\ UNCHANGED <<pool, retiring>>
        /\ clients' = [n \in DOMAIN clients |->
             IF n \in task.clients THEN [clients[n] EXCEPT !.open = FALSE] ELSE clients[n]]
    BY DEF Close
  <1>3. DOMAIN clients = 1..Len(clients) /\ Len(clients) \in Nat
        /\ \A n \in DOMAIN clients : clients[n] \in Client
    BY <1>1, ClientFields
  <1>4. \A n \in DOMAIN clients :
          /\ clients'[n] \in Client /\ clients'[n].timeout = clients[n].timeout
          /\ clients'[n].hasty = clients[n].hasty
          /\ ~clients'[n].open => ~clients[n].open \/ n \in task.clients
    BY <1>2, <1>3
  <1>5. clients' \in Seq(Client) /\ DOMAIN clients' = DOMAIN clients
    <2>1. clients' \in [1..Len(clients) -> Client]
      BY <1>2, <1>3, <1>4
    <2> QED
      BY <1>3, <2>1, Relabelled
  <1>6. RequestsTyped' /\ PoolTyped'
    BY <1>1, <1>2, <1>5 DEF RequestsTyped, PoolTyped
  <1>7. \A n : Pooled(n)' = Pooled(n)
    BY <1>2 DEF Pooled
  <1>8. \A r \in Requests, n \in DOMAIN clients : Using(r, n)' = Using(r, n) /\ request'[r].waited = request[r].waited
    BY DEF Using
  <1>9. RetireSound'
    <2>1. ASSUME NEW t \in retiring', NEW n \in t.clients
          PROVE  /\ ~Pooled(n)'
                 /\ t.left # Asleep /\ ~clients'[n].hasty =>
                      \A r \in Requests : Using(r, n)' => t.left + request'[r].waited >= clients'[n].timeout
      <3>1. t \in retiring /\ n \in DOMAIN clients
        BY <1>1, <1>2, <2>1 DEF PoolTyped
      <3> QED
        BY <1>1, <1>4, <1>7, <1>8, <2>1, <3>1 DEF RetireSound
    <2>2. ASSUME NEW n \in DOMAIN clients', ~clients'[n].open
          PROVE  /\ ~Pooled(n)'
                 /\ ~clients'[n].hasty =>
                      \A r \in Requests : Using(r, n)' => request'[r].waited >= clients'[n].timeout
      <3>1. n \in DOMAIN clients
        BY <1>5
      <3>2. CASE ~clients[n].open
        BY <1>1, <1>4, <1>7, <1>8, <3>1, <3>2 DEF RetireSound
      <3>3. CASE n \in task.clients
        <4>1. \A r \in Requests : request[r].waited \in Nat
          BY <1>1 DEF RequestsTyped
        <4>2. task.left # Asleep /\ \A r \in Requests : task.left + request[r].waited = request[r].waited
          BY <1>2, <4>1 DEF Asleep
        <4>3. /\ ~Pooled(n)
              /\ task.left # Asleep /\ ~clients[n].hasty =>
                   \A r \in Requests : Using(r, n) => task.left + request[r].waited >= clients[n].timeout
          BY <1>1, <3>3 DEF RetireSound
        <4> QED
          BY <1>4, <1>7, <1>8, <3>1, <4>2, <4>3
      <3> QED
        BY <1>4, <2>2, <3>1, <3>2, <3>3
    <2> QED
      BY <2>1, <2>2 DEF RetireSound
  <1> QED
    BY <1>4, <1>6, <1>9 DEF ClientsSound

\* As a task sleeps on, those who use its clients wait on.
LEMMA TickStep ==
  ASSUME ClientsSound, Tick PROVE ClientsSound'
  <1> DEFINE Aged(task) == IF task.left > 0 THEN [task EXCEPT !.left = @ - 1] ELSE task
  <1>1. RequestsTyped /\ PoolTyped /\ RetireSound
    BY DEF ClientsSound
  <1>2. /\ UNCHANGED <<pool, clients>>
        /\ retiring' = {Aged(task) : task \in retiring}
        /\ request' = [r \in Requests |->
             IF request[r].at = "using" THEN [request[r] EXCEPT !.waited = @ + 1] ELSE request[r]]
    BY DEF Tick, Age
  <1>3. ASSUME NEW task \in retiring
        PROVE  /\ Aged(task) \in [clients: SUBSET DOMAIN clients, left: Nat \cup {Asleep}]
               /\ Aged(task).clients = task.clients
               /\ Aged(task).left # Asleep =>
                    task.left \in Nat /\ Aged(task).left \in Nat /\ Aged(task).left + 1 >= task.left
    <2>1. task \in [clients: SUBSET DOMAIN clients, left: Nat \cup {Asleep}]
      BY <1>1 DEF PoolTyped
    <2>2. CASE task.left > 0
      BY <2>1, <2>2 DEF Asleep
    <2>3. CASE ~(task.left > 0)
      BY <2>1, <2>3 DEF Asleep
    <2> QED
      BY <2>2, <2>3
  <1> HIDE DEF Aged
  <1>4. \A r \in Requests :
          /\ request'[r].at = request[r].at /\ request'[r].url = request[r].url
          /\ request'[r].client = request[r].client
          /\ request[r].waited \in Nat
          /\ request'[r].waited = IF request[r].at = "using" THEN request[r].waited + 1 ELSE request[r].waited
    BY <1>1, <1>2 DEF RequestsTyped
  <1>5. request' \in [Requests -> [at: {"ready", "chosen", "queued", "using", "over"},
                    url: Endpoints \cup {None}, timeout: Nat, client: Nat, waited: Nat]]
    BY <1>1, <1>2 DEF RequestsTyped
  <1>6. RequestsTyped'
    BY <1>1, <1>2, <1>4, <1>5 DEF RequestsTyped
  <1>7. PoolTyped'
    BY <1>1, <1>2, <1>3 DEF PoolTyped
  <1>8. \A n : Pooled(n)' = Pooled(n)
    BY <1>2 DEF Pooled
  <1>9. \A r \in Requests, n \in DOMAIN clients :
          Using(r, n)' => Using(r, n) /\ request'[r].waited = request[r].waited + 1
    BY <1>4 DEF Using
  <1>10. RetireSound'
    <2>1. ASSUME NEW t \in retiring', NEW n \in t.clients
          PROVE  /\ ~Pooled(n)'
                 /\ t.left # Asleep /\ ~clients'[n].hasty =>
                      \A r \in Requests : Using(r, n)' => t.left + request'[r].waited >= clients'[n].timeout
      <3>1. PICK task \in retiring : t = Aged(task)
        BY <1>2
      <3>2. n \in task.clients /\ n \in DOMAIN clients
        BY <1>1, <1>3, <2>1, <3>1 DEF PoolTyped
      <3>3. ~Pooled(n)
        BY <1>1, <3>2 DEF RetireSound
      <3>4. ASSUME t.left # Asleep, ~clients[n].hasty, NEW r \in Requests, Using(r, n)'
            PROVE  t.left + request'[r].waited >= clients[n].timeout
        <4>1. task.left \in Nat /\ t.left \in Nat /\ t.left + 1 >= task.left
          BY <1>3, <3>1, <3>4
        <4>2. Using(r, n) /\ request'[r].waited = request[r].waited + 1 /\ request[r].waited \in Nat
          BY <1>4, <1>9, <3>2, <3>4
        <4>3. task.left # Asleep
          BY <4>1 DEF Asleep
        <4>4. task.left + request[r].waited >= clients[n].timeout
          BY <1>1, <3>2, <3>4, <4>2, <4>3 DEF RetireSound
        <4>5. clients[n].timeout \in Nat
          BY <1>1, <3>2, ClientFields
        <4> QED
          BY <4>1, <4>2, <4>4, <4>5
      <3> QED
        BY <1>2, <1>8, <3>3, <3>4
    <2>2. ASSUME NEW n \in DOMAIN clients', ~clients'[n].open
          PROVE  /\ ~Pooled(n)'
                 /\ ~clients'[n].hasty =>
                      \A r \in Requests : Using(r, n)' => request'[r].waited >= clients'[n].timeout
      <3>1. n \in DOMAIN clients /\ ~clients[n].open /\ clients'[n] = clients[n] /\ clients[n].timeout \in Nat
        BY <1>1, <1>2, <2>2, ClientFields
      <3> QED
        BY <1>1, <1>4, <1>8, <1>9, <3>1 DEF RetireSound
    <2> QED
      BY <2>1, <2>2 DEF RetireSound
  <1> QED
    BY <1>6, <1>7, <1>10 DEF ClientsSound

-----------------------------------------------------------------------------
(* Standing in line *)

LEMMA Shifted ==
  ASSUME NEW S, NEW l \in Seq(S), l # <<>>
  PROVE  /\ Tail(l) \in Seq(S) /\ Head(l) = l[1] /\ 1 \in 1..Len(l) /\ l[1] \in S
         /\ Len(l) \in Nat /\ Len(Tail(l)) = Len(l) - 1
         /\ \A i \in 1..Len(Tail(l)) : i + 1 \in 1..Len(l) /\ Tail(l)[i] = l[i + 1]
         /\ \A i \in 1..Len(l) : i = 1 \/ (i - 1 \in 1..Len(Tail(l)) /\ Tail(l)[i - 1] = l[i])
  OBVIOUS

LEMMA Appended ==
  ASSUME NEW S, NEW l \in Seq(S), NEW x \in S
  PROVE  /\ Append(l, x) \in Seq(S) /\ Len(l) \in Nat /\ Len(Append(l, x)) = Len(l) + 1
         /\ \A i \in 1..Len(l) : Append(l, x)[i] = l[i]
         /\ Append(l, x)[Len(l) + 1] = x
  OBVIOUS

LEMMA LinedStays ==
  ASSUME Lined, line' = line,
         \A r \in Requests : request'[r].at = "queued" <=> request[r].at = "queued",
         \A u \in Updates : UpdateAt(u, "invalidating") => UpdateAt(u, "invalidating")'
  PROVE  Lined'
  BY DEF Lined

LEMMA LinedJoins ==
  ASSUME Lined, NEW who \in Callers, line' = Append(line, who),
         who \in Requests => request[who].at # "queued" /\ request'[who].at = "queued",
         who \in Updates => ~UpdateAt(who, "invalidating") /\ UpdateAt(who, "invalidating")',
         \A r \in Requests : r # who => request'[r].at = request[r].at,
         \A u \in Updates : u # who => UpdateAt(u, "invalidating")' = UpdateAt(u, "invalidating")
  PROVE  Lined'
  <1>1. /\ line' \in Seq(Callers) /\ Len(line) \in Nat /\ Len(line') = Len(line) + 1
        /\ \A i \in 1..Len(line) : line'[i] = line[i]
        /\ line'[Len(line) + 1] = who
    BY Appended DEF Lined
  <1>2. \A i \in 1..Len(line') : i \in 1..Len(line) \/ i = Len(line) + 1
    BY <1>1
  <1>3. \A i \in 1..Len(line) : line[i] = who => who \notin Requests /\ who \notin Updates
    BY DEF Lined
  <1>4. \A i, j \in 1..Len(line') : line'[i] = line'[j] /\ line'[i] \in Requests \cup Updates => i = j
    <2> TAKE i, j \in 1..Len(line')
    <2>1. CASE i \in 1..Len(line) /\ j \in 1..Len(line)
      BY <1>1, <2>1 DEF Lined
    <2>2. CASE i = Len(line) + 1 /\ j \in 1..Len(line)
      BY <1>1, <1>3, <2>2
    <2>3. CASE j = Len(line) + 1 /\ i \in 1..Len(line)
      BY <1>1, <1>3, <2>3
    <2> QED
      BY <1>2, <2>1, <2>2, <2>3
  <1>5. ASSUME NEW i \in 1..Len(line')
        PROVE  /\ line'[i] \in Requests => request'[line'[i]].at = "queued"
               /\ line'[i] \in Updates => UpdateAt(line[i], "invalidating")'
    <2>1. CASE i \in 1..Len(line)
      <3>1. /\ line[i] \in Requests => request[line[i]].at = "queued"
            /\ line[i] \in Updates => UpdateAt(line[i], "invalidating")
        BY <2>1 DEF Lined
      <3>2. line'[i] = line[i]
        BY <1>1, <2>1
      <3>3. line[i] \in Updates => update'[line[i]].at = "invalidating"
        BY <3>1 DEF UpdateAt
      <3> QED
        BY <3>1, <3>2, <3>3 DEF UpdateAt
    <2>2. CASE i = Len(line) + 1
      <3>1. line'[i] = who
        BY <1>1, <2>2
      <3> QED
        BY <3>1 DEF UpdateAt
    <2> QED
      BY <1>2, <2>1, <2>2
  <1>6. ASSUME NEW r \in Requests, request'[r].at = "queued" PROVE \E i \in 1..Len(line') : line'[i] = r
    <2>1. CASE r = who
      <3>1. Len(line) + 1 \in 1..Len(line')
        BY <1>1
      <3> QED
        BY <1>1, <2>1, <3>1
    <2>2. CASE r # who
      <3>1. PICK i \in 1..Len(line) : line[i] = r
        BY <1>6, <2>2 DEF Lined
      <3>2. i \in 1..Len(line') /\ line'[i] = r
        BY <1>1, <3>1
      <3> QED
        BY <3>2
    <2> QED
      BY <2>1, <2>2
  <1> QED
    BY <1>1, <1>4, <1>5, <1>6 DEF Lined

LEMMA LinedLeaves ==
  ASSUME Lined, line # <<>>, line' = Tail(line),
         Head(line) \in Requests => request'[Head(line)].at # "queued",
         \A r \in Requests : r # Head(line) => request'[r].at = request[r].at,
         \A u \in Updates : u # Head(line) => UpdateAt(u, "invalidating")' = UpdateAt(u, "invalidating")
  PROVE  Lined'
  <1>1. /\ line \in Seq(Callers) /\ line' \in Seq(Callers) /\ Head(line) = line[1] /\ 1 \in 1..Len(line)
        /\ Len(line) \in Nat /\ Len(line') = Len(line) - 1
        /\ \A i \in 1..Len(line') : i + 1 \in 1..Len(line) /\ line'[i] = line[i + 1]
        /\ \A i \in 1..Len(line) : i = 1 \/ (i - 1 \in 1..Len(line') /\ line'[i - 1] = line[i])
    BY Shifted DEF Lined
  <1>2. ASSUME NEW i \in 1..Len(line'), line'[i] \in Requests \cup Updates PROVE line'[i] # Head(line)
    <2>1. i + 1 \in 1..Len(line) /\ line'[i] = line[i + 1] /\ i + 1 # 1
      BY <1>1
    <2> QED
      BY <1>1, <1>2, <2>1 DEF Lined
  <1>3. \A i, j \in 1..Len(line') : line'[i] = line'[j] /\ line'[i] \in Requests \cup Updates => i = j
    <2> TAKE i, j \in 1..Len(line')
    <2>1. i + 1 \in 1..Len(line) /\ j + 1 \in 1..Len(line) /\ line'[i] = line[i + 1] /\ line'[j] = line[j + 1]
      BY <1>1
    <2>2. line[i + 1] = line[j + 1] /\ line[i + 1] \in Requests \cup Updates => i + 1 = j + 1
      BY <2>1 DEF Lined
    <2> QED
      BY <2>1, <2>2
  <1>4. ASSUME NEW i \in 1..Len(line')
        PROVE  /\ line'[i] \in Requests => request'[line'[i]].at = "queued"
               /\ line'[i] \in Updates => UpdateAt(line[i], "invalidating")'
    <2>1. i + 1 \in 1..Len(line) /\ line'[i] = line[i + 1]
      BY <1>1
    <2>2. /\ line'[i] \in Requests => request[line'[i]].at = "queued"
          /\ line'[i] \in Updates => update[line'[i]].at = "invalidating"
      BY <2>1 DEF Lined, UpdateAt
    <2>3. line'[i] \in Updates => update'[line'[i]].at = "invalidating"
      BY <1>2, <2>2 DEF UpdateAt
    <2> QED
      BY <1>2, <2>2, <2>3 DEF UpdateAt
  <1>5. ASSUME NEW r \in Requests, request'[r].at = "queued" PROVE \E i \in 1..Len(line') : line'[i] = r
    <2>1. r # Head(line)
      BY <1>5
    <2>2. PICK i \in 1..Len(line) : line[i] = r
      BY <1>5, <2>1 DEF Lined
    <2>3. i - 1 \in 1..Len(line') /\ line'[i - 1] = r
      BY <1>1, <2>1, <2>2
    <2> QED
      BY <2>3
  <1> QED
    BY <1>1, <1>3, <1>4, <1>5 DEF Lined

LEMMA LaterAppended ==
  ASSUME NEW S, NEW l \in Seq(S), NEW x \in S, NEW k \in Nat \ {0},
         Later(l, k) \/ (x \in Updates /\ k <= Len(l) + 1)
  PROVE  Later(Append(l, x), k)
  <1>1. CASE Later(l, k)
    <2>1. PICK j \in k..Len(l) : l[j] \in Updates
      BY <1>1 DEF Later
    <2>2. j \in 1..Len(l)
      BY <2>1
    <2> QED
      BY <2>1, <2>2, Appended DEF Later
  <1>2. CASE x \in Updates /\ k <= Len(l) + 1
    BY <1>2, Appended DEF Later
  <1> QED
    BY <1>1, <1>2

LEMMA LaterShifted ==
  ASSUME NEW S, NEW l \in Seq(S), l # <<>>, NEW k \in Nat \ {0}, Later(l, k + 1)
  PROVE  Later(Tail(l), k)
  <1>1. PICK j \in k + 1..Len(l) : l[j] \in Updates
    BY DEF Later
  <1>2. j \in 1..Len(l) /\ j # 1 /\ Len(l) \in Nat
    BY Shifted
  <1>3. j - 1 \in k..Len(Tail(l)) /\ Tail(l)[j - 1] = l[j]
    BY <1>2, Shifted
  <1> QED
    BY <1>1, <1>3 DEF Later

LEMMA LaterThanFirst ==
  ASSUME NEW S, NEW l \in Seq(S), l # <<>>, Head(l) \notin Updates, Later(l, 1)
  PROVE  Later(Tail(l), 1)
  <1>1. PICK j \in 1..Len(l) : l[j] \in Updates
    BY DEF Later
  <1>2. j # 1
    BY <1>1, Shifted
  <1>3. Later(l, 1 + 1)
    BY <1>1, <1>2 DEF Later
  <1> QED
    BY <1>3, LaterShifted

LEMMA TimeoutStays ==
  ASSUME Lined, TimeoutSound, line' = line, REQUEST_TIMEOUT' = REQUEST_TIMEOUT,
         \A r \in Requests : request[r].at = "queued" => request'[r].timeout = request[r].timeout,
         \A u \in Cached(pool)' :
           clients'[pool'[u]].timeout = REQUEST_TIMEOUT
             \/ (u \in Cached(pool) /\ clients'[pool'[u]].timeout = clients[pool[u]].timeout)
  PROVE  TimeoutSound'
  <1>1. ASSUME NEW i \in 1..Len(line'), line'[i] \in Requests
        PROVE  request'[line'[i]].timeout = REQUEST_TIMEOUT' \/ Later(line', i + 1)
    <2>1. request'[line[i]].timeout = request[line[i]].timeout
      BY <1>1 DEF Lined
    <2> QED
      BY <1>1, <2>1 DEF TimeoutSound
  <1>2. \A u \in Cached(pool)' : clients'[pool'[u]].timeout = REQUEST_TIMEOUT' \/ Later(line', 1)
    BY DEF TimeoutSound
  <1> QED
    BY <1>1, <1>2 DEF TimeoutSound, Later

LEMMA TimeoutGone ==
  ASSUME line' = <<>>, Cached(pool)' = {} PROVE TimeoutSound'
  BY DEF TimeoutSound

\* Who joins has the timeout in force, or puts another in force and invalidates.
LEMMA TimeoutJoins ==
  ASSUME Lined, TimeoutSound, NEW who \in Callers, line' = Append(line, who),
         who \in Updates \/ REQUEST_TIMEOUT' = REQUEST_TIMEOUT,
         who \in Requests => request'[who].timeout = REQUEST_TIMEOUT',
         \A r \in Requests : r # who => request'[r] = request[r],
         UNCHANGED <<pool, clients>>
  PROVE  TimeoutSound'
  <1>1. /\ line \in Seq(Callers) /\ Len(line) \in Nat /\ Len(line') = Len(line) + 1
        /\ \A i \in 1..Len(line) : line'[i] = line[i]
        /\ line'[Len(line) + 1] = who
    BY Appended DEF Lined
  <1>2. ASSUME NEW i \in 1..Len(line'), line'[i] \in Requests
        PROVE  request'[line'[i]].timeout = REQUEST_TIMEOUT' \/ Later(line', i + 1)
    <2>1. CASE line'[i] = who
      BY <1>2, <2>1
    <2>2. CASE line'[i] # who
      <3>1. i \in 1..Len(line) /\ line'[i] = line[i] /\ i + 1 \in Nat \ {0} /\ i + 1 <= Len(line) + 1
        BY <1>1, <2>2
      <3>2. request'[line'[i]].timeout = REQUEST_TIMEOUT \/ Later(line, i + 1)
        BY <1>2, <2>2, <3>1 DEF TimeoutSound
      <3> QED
        BY <1>1, <3>1, <3>2, LaterAppended
    <2> QED
      BY <2>1, <2>2
  <1>3. ASSUME NEW u \in Cached(pool)'
        PROVE  clients'[pool'[u]].timeout = REQUEST_TIMEOUT' \/ Later(line', 1)
    <2>1. u \in Cached(pool)
      BY <1>3 DEF Cached
    <2>2. clients'[pool'[u]].timeout = REQUEST_TIMEOUT \/ Later(line, 1)
      BY <2>1 DEF TimeoutSound
    <2> QED
      BY <1>1, <2>2, LaterAppended
  <1> QED
    BY <1>2, <1>3 DEF TimeoutSound

\* Who leaves has pooled a client with its own timeout, or has emptied the pool.
LEMMA TimeoutLeaves ==
  ASSUME Lined, TimeoutSound, line # <<>>, line' = Tail(line), REQUEST_TIMEOUT' = REQUEST_TIMEOUT,
         \A r \in Requests : r # Head(line) => request'[r] = request[r],
         Head(line) \in Updates => Cached(pool)' = {},
         \A u \in Cached(pool)' :
           (Head(line) \in Requests /\ clients'[pool'[u]].timeout = request[Head(line)].timeout)
             \/ (u \in Cached(pool) /\ clients'[pool'[u]].timeout = clients[pool[u]].timeout)
  PROVE  TimeoutSound'
  <1>1. /\ line \in Seq(Callers) /\ Head(line) = line[1] /\ 1 \in 1..Len(line)
        /\ Len(line) \in Nat /\ Len(line') = Len(line) - 1
        /\ \A i \in 1..Len(line') : i + 1 \in 1..Len(line) /\ line'[i] = line[i + 1]
    BY Shifted DEF Lined
  <1>2. ASSUME NEW i \in 1..Len(line'), line'[i] \in Requests
        PROVE  request'[line'[i]].timeout = REQUEST_TIMEOUT' \/ Later(line', i + 1)
    <2>1. i + 1 \in 1..Len(line) /\ line'[i] = line[i + 1] /\ i + 1 # 1 /\ i + 1 \in Nat \ {0}
      BY <1>1
    <2>2. line'[i] # Head(line)
      BY <1>1, <1>2, <2>1 DEF Lined
    <2>3. request[line'[i]].timeout = REQUEST_TIMEOUT \/ Later(line, (i + 1) + 1)
      BY <1>2, <2>1 DEF TimeoutSound
    <2> QED
      BY <1>1, <1>2, <2>1, <2>2, <2>3, LaterShifted
  <1>3. ASSUME NEW u \in Cached(pool)'
        PROVE  clients'[pool'[u]].timeout = REQUEST_TIMEOUT' \/ Later(line', 1)
    <2>1. Head(line) \notin Updates
      BY <1>3
    <2>2. CASE Head(line) \in Requests /\ clients'[pool'[u]].timeout = request[Head(line)].timeout
      <3>1. request[line[1]].timeout = REQUEST_TIMEOUT \/ Later(line, 1 + 1)
        BY <1>1, <2>2 DEF TimeoutSound
      <3> QED
        BY <1>1, <2>2, <3>1, LaterShifted
    <2>3. CASE u \in Cached(pool) /\ clients'[pool'[u]].timeout = clients[pool[u]].timeout
      <3>1. clients'[pool'[u]].timeout = REQUEST_TIMEOUT \/ Later(line, 1)
        BY <2>3 DEF TimeoutSound
      <3> QED
        BY <1>1, <2>1, <3>1, LaterThanFirst
    <2> QED
      BY <1>3, <2>2, <2>3
  <1> QED
    BY <1>2, <1>3 DEF TimeoutSound

-----------------------------------------------------------------------------
(* The steps of requests, tasks and invalidations *)

LEMMA CallersApart ==
  /\ \A r \in Requests : r \notin Updates /\ r \in Callers
  /\ \A u \in Updates : u \notin Requests /\ u \in Callers
  /\ Catalog \notin Requests \cup Updates /\ Catalog \in Callers
  /\ \A task \in Tasks : task \notin Requests \cup Updates /\ task \in Callers
  BY AdministrationAssumption DEF AdministrationAssumption, Callers

LEMMA RetiringAreTasks == ASSUME PoolTyped PROVE retiring \subseteq Tasks
  <1>1. DOMAIN clients \subseteq Nat
    BY ClientFields
  <1>2. retiring \subseteq [clients: SUBSET DOMAIN clients, left: Nat \cup {Asleep}]
    BY DEF PoolTyped
  <1>3. ASSUME NEW task \in [clients: SUBSET DOMAIN clients, left: Nat \cup {Asleep}]
        PROVE  task \in Tasks
    BY <1>1, <1>3 DEF Tasks, Asleep
  <1> QED
    BY <1>2, <1>3

\* Nobody stands in line, and no request waits to.
LEMMA NobodyInLine ==
  ASSUME Lined, ~Contended
  PROVE  line = <<>> /\ holder = Free /\ \A r \in Requests : request[r].at # "queued"
  <1>1. line = <<>> /\ holder = Free /\ Len(line) = 0
    BY DEF Contended
  <1> QED
    BY <1>1 DEF Lined

LEMMA LinedEmpty ==
  ASSUME line' = <<>>, \A r \in Requests : request'[r].at # "queued" PROVE Lined'
  <1>1. line' \in Seq(Callers) /\ Len(line') = 0
    OBVIOUS
  <1> QED
    BY <1>1 DEF Lined

LEMMA PoolElsewhere ==
  ASSUME PInv, UNCHANGED <<pool, clients, retiring, line, request, REQUEST_TIMEOUT>>,
         \A u \in Updates : UpdateAt(u, "invalidating") => UpdateAt(u, "invalidating")'
  PROVE  PInv'
  <1>1. ClientsSound'
    BY DEF PInv, ClientsSound, RequestsTyped, PoolTyped, RetireSound, Pooled, Using
  <1>2. Lined'
    BY LinedStays DEF PInv
  <1>3. \A u \in Cached(pool)' : u \in Cached(pool) /\ clients'[pool'[u]].timeout = clients[pool[u]].timeout
    BY DEF Cached
  <1>4. TimeoutSound'
    BY <1>3, TimeoutStays DEF PInv
  <1> QED
    BY <1>1, <1>2, <1>4 DEF PInv

\* The pool is rid of clients at once ...
LEMMA TakeOutAtOnce ==
  ASSUME PInv, NEW who, NEW set, ~Contended, TakeOut(who, set), request' = request,
         Endpoints \subseteq set \/ REQUEST_TIMEOUT' = REQUEST_TIMEOUT
  PROVE  PInv'
  <1>1. line = <<>> /\ \A r \in Requests : request[r].at # "queued"
    BY NobodyInLine DEF PInv
  <1>2. line' = <<>>
    BY <1>1 DEF TakeOut, Gets
  <1>3. /\ ClientsSound'
        /\ \A u \in Endpoints : pool'[u] = IF u \in set THEN NoClient ELSE pool[u]
    BY TakenOut DEF PInv, TakeOut
  <1>4. Lined'
    BY <1>1, <1>2, LinedEmpty
  <1>5. TimeoutSound'
    <2>1. CASE Endpoints \subseteq set
      <3>1. Cached(pool)' = {}
        BY <1>3, <2>1 DEF Cached
      <3> QED
        BY <1>2, <3>1, TimeoutGone
    <2>2. CASE REQUEST_TIMEOUT' = REQUEST_TIMEOUT
      <3>1. clients' = clients
        BY DEF TakeOut
      <3>2. \A u \in Cached(pool)' : u \in Cached(pool) /\ clients'[pool'[u]].timeout = clients[pool[u]].timeout
        BY <1>3, <3>1 DEF Cached
      <3> QED
        BY <1>1, <1>2, <2>2, <3>2, TimeoutStays DEF PInv
    <2> QED
      BY <2>1, <2>2
  <1> QED
    BY <1>3, <1>4, <1>5 DEF PInv

\* ... or when its caller's turn has come.
LEMMA TakeOutInTurn ==
  ASSUME PInv, NEW who, NEW set, line # <<>>, TakeOut(who, set), request' = request,
         REQUEST_TIMEOUT' = REQUEST_TIMEOUT, who \notin Requests,
         who \in Updates => Endpoints \subseteq set,
         \A u \in Updates : u # who => UpdateAt(u, "invalidating")' = UpdateAt(u, "invalidating")
  PROVE  PInv'
  <1>1. Head(line) = who /\ line' = Tail(line) /\ clients' = clients
    BY DEF TakeOut, Gets, Contended
  <1>2. /\ ClientsSound'
        /\ \A u \in Endpoints : pool'[u] = IF u \in set THEN NoClient ELSE pool[u]
    BY TakenOut DEF PInv, TakeOut
  <1>3. Lined'
    BY <1>1, LinedLeaves DEF PInv
  <1>4. who \in Updates => Cached(pool)' = {}
    BY <1>2 DEF Cached
  <1>5. \A u \in Cached(pool)' : u \in Cached(pool) /\ clients'[pool'[u]].timeout = clients[pool[u]].timeout
    BY <1>1, <1>2 DEF Cached
  <1>6. TimeoutSound'
    BY <1>1, <1>4, <1>5, TimeoutLeaves DEF PInv
  <1> QED
    BY <1>2, <1>3, <1>6 DEF PInv

\* Who is neither a request nor an update waits.
LEMMA OthersWait ==
  ASSUME PInv, NEW who \in Callers, who \notin Requests \cup Updates, Waits(who),
         UNCHANGED <<pool, clients, retiring, request, REQUEST_TIMEOUT, update>>
  PROVE  PInv'
  <1>1. ClientsSound'
    BY DEF PInv, ClientsSound, RequestsTyped, PoolTyped, RetireSound, Pooled, Using
  <1>2. line' = Append(line, who)
    BY DEF Waits
  <1>3. Lined'
    BY <1>2, LinedJoins DEF PInv, UpdateAt
  <1>4. TimeoutSound'
    BY <1>2, TimeoutJoins DEF PInv
  <1> QED
    BY <1>1, <1>3, <1>4 DEF PInv

LEMMA ChooseStep ==
  ASSUME CatalogTyped, PInv, NEW r \in Requests, Choose(r) PROVE PInv'
  <1>1. PICK c \in Channels :
          /\ cache.content.entries[c] # Absent
          /\ request' = [request EXCEPT ![r].at = "chosen", ![r].url = cache.content.entries[c].key]
    BY DEF Choose
  <1>2. /\ request[r].at = "ready" /\ cache # None
        /\ UNCHANGED <<pool, clients, retiring, line, REQUEST_TIMEOUT, update>>
    BY DEF Choose, settingsVars, poolVars
  <1>3. cache.content.entries[c].key \in Endpoints
    <2>1. cache.content.entries \in Listings
      BY <1>2, ContentsAreSaid DEF CatalogTyped
    <2>2. cache.content.entries[c].key \in Keys(c)
      BY <1>1, <2>1 DEF Listings, Ids
    <2> QED
      BY <2>2, AdministrationAssumption DEF Keys, AdministrationAssumption
  <1> DEFINE url == cache.content.entries[c].key
  <1> HIDE DEF url
  <1>4. /\ request' \in [Requests -> [at: {"ready", "chosen", "queued", "using", "over"},
                         url: Endpoints \cup {None}, timeout: Nat, client: Nat, waited: Nat]]
        /\ \A q \in Requests \ {r} : request'[q] = request[q]
        /\ request'[r].at = "chosen" /\ request'[r].url \in Endpoints /\ request'[r].waited = 0
        /\ request'[r].timeout = request[r].timeout
    BY <1>1, <1>2, <1>3, ZenonT(40) DEF PInv, ClientsSound, RequestsTyped, url
  <1>5. RequestsTyped'
    BY <1>2, <1>4 DEF PInv, ClientsSound, RequestsTyped
  <1>6. ClientsSound'
    BY <1>2, <1>4, <1>5, ElsewhereThan DEF PInv
  <1>7. Lined'
    BY <1>2, <1>4, LinedStays DEF PInv, UpdateAt
  <1>8. \A u \in Cached(pool)' : u \in Cached(pool) /\ clients'[pool'[u]].timeout = clients[pool[u]].timeout
    BY <1>2 DEF Cached
  <1>9. TimeoutSound'
    BY <1>2, <1>4, <1>8, TimeoutStays DEF PInv
  <1> QED
    BY <1>6, <1>7, <1>9 DEF PInv

LEMMA AskClientStep ==
  ASSUME SettingsSound, PInv, NEW r \in Requests, AskClient(r) PROVE PInv'
  <1>1. /\ request[r].at = "chosen" /\ line' = Append(line, r)
        /\ request' = [request EXCEPT ![r].at = "queued", ![r].timeout = REQUEST_TIMEOUT]
        /\ UNCHANGED <<pool, clients, retiring, REQUEST_TIMEOUT, update>>
    BY DEF AskClient, Waits, settingsVars
  <1>2. REQUEST_TIMEOUT \in Nat
    BY SettingsAssumption DEF SettingsSound, SettingsTyped, InForce, SettingsAssumption
  <1>3. /\ request' \in [Requests -> [at: {"ready", "chosen", "queued", "using", "over"},
                         url: Endpoints \cup {None}, timeout: Nat, client: Nat, waited: Nat]]
        /\ \A q \in Requests \ {r} : request'[q] = request[q]
        /\ request'[r].at = "queued" /\ request'[r].url \in Endpoints /\ request'[r].waited = 0
        /\ request'[r].timeout = REQUEST_TIMEOUT
    BY <1>1, <1>2, ZenonT(40) DEF PInv, ClientsSound, RequestsTyped
  <1>4. RequestsTyped'
    BY <1>1, <1>3 DEF PInv, ClientsSound, RequestsTyped
  <1>5. ClientsSound'
    BY <1>1, <1>3, <1>4, ElsewhereThan DEF PInv
  <1>6. Lined'
    BY <1>1, <1>3, CallersApart, LinedJoins DEF PInv, UpdateAt
  <1>7. TimeoutSound'
    BY <1>1, <1>3, CallersApart, TimeoutJoins DEF PInv
  <1> QED
    BY <1>5, <1>6, <1>7 DEF PInv

LEMMA GetClientStep ==
  ASSUME SettingsSound, PInv, NEW r \in Requests, GetClient(r) PROVE PInv'
  <1>1. /\ UNCHANGED <<REQUEST_TIMEOUT, update>>
        /\ request' = [request EXCEPT ![r].at = "using", ![r].client = pool'[request[r].url],
                                      ![r].timeout = 0]
    BY DEF GetClient, settingsVars
  <1>2. REQUEST_TIMEOUT \in Nat /\ request[r].timeout \in Nat
    BY SettingsAssumption DEF SettingsSound, SettingsTyped, InForce, SettingsAssumption,
                              PInv, ClientsSound, RequestsTyped
  <1>3. CASE request[r].at = "queued" /\ get_or_create_client(r, request[r].url, request[r].timeout)
    <2>1. /\ ClientsSound'
          /\ \A u \in Cached(pool)' :
               clients'[pool'[u]].timeout = request[r].timeout
                 \/ (u \in Cached(pool) /\ clients'[pool'[u]].timeout = clients[pool[u]].timeout)
          /\ \A q \in Requests \ {r} : request'[q] = request[q]
          /\ request'[r].at = "using"
      BY <1>1, <1>2, <1>3, GivenOut DEF PInv, get_or_create_client
    <2>2. line # <<>> /\ Head(line) = r /\ line' = Tail(line)
      BY <1>3, NobodyInLine DEF PInv, get_or_create_client, Gets
    <2>3. Lined'
      BY <1>1, <2>1, <2>2, LinedLeaves DEF PInv, UpdateAt
    <2>4. TimeoutSound'
      BY <1>1, <2>1, <2>2, CallersApart, TimeoutLeaves DEF PInv
    <2> QED
      BY <2>1, <2>3, <2>4, SMTT(30) DEF PInv
  <1>4. CASE /\ request[r].at = "chosen" /\ ~Contended
             /\ get_or_create_client(r, request[r].url, REQUEST_TIMEOUT)
    <2>1. /\ ClientsSound'
          /\ \A u \in Cached(pool)' :
               clients'[pool'[u]].timeout = REQUEST_TIMEOUT
                 \/ (u \in Cached(pool) /\ clients'[pool'[u]].timeout = clients[pool[u]].timeout)
          /\ \A q \in Requests \ {r} : request'[q] = request[q]
          /\ request'[r].at = "using"
      BY <1>1, <1>2, <1>4, GivenOut DEF PInv, get_or_create_client
    <2>2. line = <<>> /\ line' = line /\ \A q \in Requests : request[q].at # "queued"
      BY <1>4, NobodyInLine DEF PInv, get_or_create_client, Gets
    <2>3. Lined'
      BY <2>1, <2>2, LinedEmpty
    <2>4. TimeoutSound'
      BY <1>1, <2>1, <2>2, TimeoutStays DEF PInv
    <2> QED
      BY <2>1, <2>3, <2>4 DEF PInv
  <1> QED
    BY <1>3, <1>4 DEF GetClient

LEMMA AnsweredStep ==
  ASSUME PInv, NEW r \in Requests, Answered(r) PROVE PInv'
  <1>1. /\ request[r].at = "using"
        /\ request' = [request EXCEPT ![r] = [Ready EXCEPT !.at = "over"]]
        /\ UNCHANGED <<pool, clients, retiring, line, REQUEST_TIMEOUT, update>>
    BY DEF Answered, settingsVars, poolVars
  <1>2. /\ request' \in [Requests -> [at: {"ready", "chosen", "queued", "using", "over"},
                         url: Endpoints \cup {None}, timeout: Nat, client: Nat, waited: Nat]]
        /\ \A q \in Requests \ {r} : request'[q] = request[q]
        /\ request'[r].at = "over" /\ request'[r].waited = 0
    BY <1>1 DEF PInv, ClientsSound, RequestsTyped, Ready
  <1>3. RequestsTyped'
    BY <1>1, <1>2 DEF PInv, ClientsSound, RequestsTyped
  <1>4. ClientsSound'
    BY <1>1, <1>2, <1>3, ElsewhereThan DEF PInv
  <1>5. Lined'
    BY <1>1, <1>2, LinedStays DEF PInv, UpdateAt
  <1>6. \A u \in Cached(pool)' : u \in Cached(pool) /\ clients'[pool'[u]].timeout = clients[pool[u]].timeout
    BY <1>1 DEF Cached
  <1>7. TimeoutSound'
    BY <1>1, <1>2, <1>6, TimeoutStays DEF PInv
  <1> QED
    BY <1>4, <1>5, <1>7 DEF PInv

LEMMA RetireStep ==
  ASSUME SettingsSound, PInv, NEW task \in retiring, Retire(task) PROVE PInv'
  <1>1. UNCHANGED <<REQUEST_TIMEOUT, update, request>>
    BY DEF Retire, settingsVars
  <1>2. /\ task \in Tasks /\ task \notin Requests \cup Updates /\ task \in Callers
        /\ REQUEST_TIMEOUT \in Nat
    BY RetiringAreTasks, CallersApart, SettingsAssumption
       DEF PInv, ClientsSound, SettingsSound, SettingsTyped, InForce, SettingsAssumption
  <1>3. ASSUME UNCHANGED pool, \A n \in DOMAIN clients : clients'[n].timeout = clients[n].timeout
        PROVE  \A u \in Cached(pool)' : u \in Cached(pool) /\ clients'[pool'[u]].timeout = clients[pool[u]].timeout
    <2>1. \A u \in Cached(pool) : pool[u] \in DOMAIN clients
      BY DEF PInv, ClientsSound, PoolTyped, Cached
    <2> QED
      BY <1>3, <2>1 DEF Cached
  <1>4. CASE Sleep(task, REQUEST_TIMEOUT)
    <2>1. line' = line /\ pool' = pool
      BY <1>4 DEF Sleep
    <2>2. ClientsSound' /\ \A n \in DOMAIN clients : clients'[n].timeout = clients[n].timeout
      BY <1>1, <1>2, <1>4, SleepStep DEF PInv
    <2>3. Lined'
      BY <1>1, <2>1, LinedStays DEF PInv, UpdateAt
    <2>4. TimeoutSound'
      BY <1>1, <1>3, <2>1, <2>2, TimeoutStays DEF PInv
    <2> QED
      BY <2>2, <2>3, <2>4 DEF PInv
  <1>5. CASE Wake(task)
    BY <1>1, <1>2, <1>5, OthersWait DEF Wake
  <1>6. CASE Close(task)
    <2>1. pool' = pool
      BY <1>6 DEF Close
    <2>2. ClientsSound' /\ \A n \in DOMAIN clients : clients'[n].timeout = clients[n].timeout
      BY <1>1, <1>6, CloseStep DEF PInv
    <2>3. CASE line' = line
      <3>1. Lined'
        BY <1>1, <2>3, LinedStays DEF PInv, UpdateAt
      <3>2. TimeoutSound'
        BY <1>1, <1>3, <2>1, <2>2, <2>3, TimeoutStays DEF PInv
      <3> QED
        BY <2>2, <3>1, <3>2 DEF PInv
    <2>4. CASE line # <<>> /\ Head(line) = task /\ line' = Tail(line)
      <3>1. Lined'
        BY <1>1, <1>2, <2>4, LinedLeaves DEF PInv, UpdateAt
      <3>2. TimeoutSound'
        BY <1>1, <1>2, <1>3, <2>1, <2>2, <2>4, TimeoutLeaves DEF PInv
      <3> QED
        BY <2>2, <3>1, <3>2 DEF PInv
    <2> QED
      BY <1>6, <2>3, <2>4 DEF Close, Gets
  <1>7. CASE Closed(task)
    <2>1. UNCHANGED <<pool, clients, line>> /\ retiring' \subseteq retiring
      BY <1>7 DEF Closed
    <2>2. ClientsSound'
      BY <1>1, <2>1 DEF PInv, ClientsSound, RequestsTyped, PoolTyped, RetireSound, Pooled, Using
    <2>3. Lined'
      BY <1>1, <2>1, LinedStays DEF PInv, UpdateAt
    <2>4. TimeoutSound'
      BY <1>1, <1>3, <2>1, TimeoutStays DEF PInv
    <2> QED
      BY <2>2, <2>3, <2>4 DEF PInv
  <1> QED
    BY <1>4, <1>5, <1>6, <1>7 DEF Retire

\* A change that goes on to the pool puts the new timeout in force first.
LEMMA UpdateWaits ==
  ASSUME SettingsSound, PInv, NEW u \in Updates, UpdateAt(u, "writing"), Moves(u, "invalidating"), Waits(u),
         UNCHANGED <<pool, clients, retiring, request>>
  PROVE  PInv'
  <1>1. ClientsSound'
    BY DEF PInv, ClientsSound, RequestsTyped, PoolTyped, RetireSound, Pooled, Using
  <1>2. line' = Append(line, u)
    BY DEF Waits
  <1>3. \A v \in Updates : v # u => update'[v] = update[v]
    BY DEF SettingsSound, SettingsTyped, Moves
  <1>4. UpdateAt(u, "invalidating")' /\ ~UpdateAt(u, "invalidating")
    <2>1. update'[u] = [update[u] EXCEPT !.at = "invalidating"]
      BY DEF SettingsSound, SettingsTyped, Moves
    <2> QED
      BY <2>1 DEF SettingsSound, SettingsTyped, UpdateAt
  <1>5. Lined'
    BY <1>2, <1>3, <1>4, CallersApart, LinedJoins DEF PInv, UpdateAt
  <1>6. TimeoutSound'
    BY <1>2, CallersApart, TimeoutJoins DEF PInv
  <1> QED
    BY <1>1, <1>5, <1>6 DEF PInv

\* An update that is over leaves the others as they are.
LEMMA OthersStay ==
  ASSUME SettingsSound, NEW u \in Updates, Ends(u)
  PROVE  \A v \in Updates : v # u => UpdateAt(v, "invalidating")' = UpdateAt(v, "invalidating")
  BY DEF SettingsSound, SettingsTyped, Ends, UpdateAt

LEMMA SavedPool ==
  ASSUME SettingsSound, PInv, NEW u \in Updates, Saved(u) PROVE PInv'
  <1>1. UpdateAt(u, "writing") /\ ~UpdateAt(u, "invalidating") /\ request' = request
        /\ REQUEST_TIMEOUT' = settings.timeout
    BY DEF Saved, UpdateSaved, UpdateAt
  <1>2. CASE update[u].change.timeout = Same /\ Ends(u) /\ UNCHANGED poolVars
    <2>1. settings = Merged(disk, update[u].change) /\ REQUEST_TIMEOUT = disk.timeout
      BY <1>1 DEF SettingsSound, WriterSound, InForce
    <2>2. REQUEST_TIMEOUT' = REQUEST_TIMEOUT
      BY <1>1, <1>2, <2>1 DEF Merged
    <2>3. \A v \in Updates : UpdateAt(v, "invalidating") => UpdateAt(v, "invalidating")'
      BY <1>1, <1>2, OthersStay
    <2> QED
      BY <1>1, <1>2, <2>2, <2>3, PoolElsewhere DEF poolVars
  <1>3. CASE ~Contended /\ invalidate_all_clients(u)
    BY <1>1, <1>3, TakeOutAtOnce DEF invalidate_all_clients
  <1>4. CASE Moves(u, "invalidating") /\ Waits(u) /\ UNCHANGED <<pool, unused, clients, retiring, holder>>
    BY <1>1, <1>4, UpdateWaits
  <1> QED
    BY <1>2, <1>3, <1>4 DEF Saved

\* The clients go with the process, and the requests that use them.
LEMMA CrashPool == ASSUME PInv, Crash PROVE PInv'
  <1>1. /\ pool' = [u \in Endpoints |-> NoClient] /\ clients' = <<>> /\ retiring' = {} /\ line' = <<>>
        /\ request' = [r \in Requests |->
             IF request[r].at = "ready" THEN Ready ELSE [Ready EXCEPT !.at = "over"]]
    BY DEF Crash, PoolDies, NothingPooled
  <1>2. \A r \in Requests : request'[r].at \in {"ready", "over"} /\ request'[r].waited = 0
    BY <1>1 DEF Ready
  <1>3. RequestsTyped'
    BY <1>1, <1>2 DEF RequestsTyped, Ready
  <1>4. PoolTyped' /\ RetireSound'
    BY <1>1 DEF PoolTyped, RetireSound
  <1>5. Lined'
    BY <1>1, <1>2, LinedEmpty
  <1>6. TimeoutSound'
    BY <1>1, TimeoutGone DEF Cached
  <1> QED
    BY <1>3, <1>4, <1>5, <1>6 DEF PInv, ClientsSound

LEMMA PoolInits == ASSUME Init PROVE PInv
  <1>1. /\ pool = [u \in Endpoints |-> NoClient] /\ clients = <<>> /\ retiring = {} /\ line = <<>>
        /\ request = [r \in Requests |-> Ready]
    BY DEF Init, PoolInit, NothingPooled
  <1>2. RequestsTyped
    BY <1>1 DEF RequestsTyped, Ready
  <1>3. PoolTyped /\ RetireSound
    BY <1>1 DEF PoolTyped, RetireSound
  <1>4. line \in Seq(Callers) /\ Len(line) = 0 /\ \A r \in Requests : request[r].at = "ready"
    BY <1>1 DEF Ready
  <1>5. Lined
    BY <1>4 DEF Lined
  <1>6. Cached(pool) = {}
    BY <1>1 DEF Cached
  <1>7. TimeoutSound
    BY <1>4, <1>6 DEF TimeoutSound
  <1> QED
    BY <1>2, <1>3, <1>5, <1>7 DEF PInv, ClientsSound

LEMMA PoolSteps == ASSUME CatalogTyped, SettingsSound, PInv, [Next]_vars PROVE PInv'
  <1>1. CASE CommitChange
    <2>1. UNCHANGED <<REQUEST_TIMEOUT, update, request>>
      BY <1>1 DEF CommitChange, settingsVars
    <2>2. CASE UNCHANGED poolVars
      BY <2>1, <2>2, PoolElsewhere DEF poolVars, UpdateAt
    <2>3. CASE ~Contended /\ TakeOut(Catalog, {op.was.key})
      BY <2>1, <2>3, TakeOutAtOnce
    <2>4. CASE Waits(Catalog) /\ UNCHANGED <<pool, unused, clients, retiring, holder>>
      BY <2>1, <2>4, CallersApart, OthersWait
    <2> QED
      BY <1>1, <2>2, <2>3, <2>4 DEF CommitChange
  <1>2. CASE apply_channel_change
    <2>1. UNCHANGED <<REQUEST_TIMEOUT, update, request>> /\ TakeOut(Catalog, {op.was.key})
      BY <1>2 DEF apply_channel_change, settingsVars
    <2>2. CASE Contended
      <3>1. line # <<>>
        BY <2>1, <2>2 DEF TakeOut, Gets
      <3> QED
        BY <2>1, <3>1, CallersApart, TakeOutInTurn DEF UpdateAt
    <2> QED
      BY <2>1, <2>2, TakeOutAtOnce
  <1>3. CASE Update
    <2>1. PICK u \in Updates, change \in Changes : BeginUpdate(u, change)
      BY <1>3 DEF Update
    <2>2. \A v \in Updates : UpdateAt(v, "invalidating") => UpdateAt(v, "invalidating")'
      BY <2>1 DEF BeginUpdate, UpdateAt, SettingsSound, SettingsTyped
    <2>3. UNCHANGED <<pool, clients, retiring, line, request, REQUEST_TIMEOUT>>
      BY <1>3, <2>1 DEF Update, BeginUpdate, poolVars
    <2> QED
      BY <2>2, <2>3, PoolElsewhere
  <1>4. CASE \E u \in Updates : Saved(u)
    BY <1>4, SavedPool
  <1>5. ASSUME NEW u \in Updates, NotSaved(u) PROVE PInv'
    <2>1. UNCHANGED <<pool, clients, retiring, line, request, REQUEST_TIMEOUT>>
          /\ UpdateAt(u, "writing") /\ Ends(u)
      BY <1>5 DEF NotSaved, UpdateNotSaved, poolVars
    <2>2. \A v \in Updates : UpdateAt(v, "invalidating") => UpdateAt(v, "invalidating")'
      BY <2>1, OthersStay DEF UpdateAt
    <2> QED
      BY <2>1, <2>2, PoolElsewhere
  <1>6. ASSUME NEW u \in Updates, Invalidate(u) PROVE PInv'
    <2>1. UNCHANGED <<REQUEST_TIMEOUT, request>> /\ TakeOut(u, Endpoints) /\ Ends(u)
      BY <1>6 DEF Invalidate, invalidate_all_clients
    <2>2. CASE Contended
      <3>1. line # <<>>
        BY <2>1, <2>2 DEF TakeOut, Gets
      <3> QED
        BY <2>1, <3>1, CallersApart, OthersStay, TakeOutInTurn
    <2> QED
      BY <2>1, <2>2, TakeOutAtOnce
  <1>7. ASSUME NEW r \in Requests, Choose(r) \/ AskClient(r) \/ GetClient(r) \/ Answered(r) PROVE PInv'
    BY <1>7, ChooseStep, AskClientStep, GetClientStep, AnsweredStep
  <1>8. CASE CleanUp
    <2> DEFINE stale == {u \in Cached(pool) : unused[u] > MaxAge}
    <2>1. /\ UNCHANGED <<REQUEST_TIMEOUT, update, request, clients, holder, line>>
          /\ ~Contended /\ pool' = Taken(stale) /\ retiring' = Retired({pool[u] : u \in stale})
      BY <1>8 DEF CleanUp, cleanup_stale_clients, settingsVars
    <2>2. {pool[u] : u \in stale} = {pool[u] : u \in stale \cap Cached(pool)}
      OBVIOUS
    <2> HIDE DEF stale
    <2>3. /\ ClientsSound'
          /\ \A u \in Endpoints : pool'[u] = IF u \in stale THEN NoClient ELSE pool[u]
      BY <2>1, <2>2, TakenOut DEF PInv
    <2>4. \A u \in Cached(pool)' : u \in Cached(pool) /\ clients'[pool'[u]].timeout = clients[pool[u]].timeout
      BY <2>1, <2>3 DEF Cached
    <2> QED
      BY <2>1, <2>3, <2>4, LinedStays, TimeoutStays DEF PInv, UpdateAt
  <1>9. CASE \E task \in retiring : Retire(task)
    BY <1>9, RetireStep
  <1>10. CASE Tick
    <2>1. UNCHANGED <<REQUEST_TIMEOUT, update, pool, clients, line>>
      BY <1>10 DEF Tick, Age, settingsVars
    <2>2. \A r \in Requests : request'[r].at = request[r].at /\ request'[r].timeout = request[r].timeout
      BY <1>10 DEF Tick, PInv, ClientsSound, RequestsTyped
    <2>3. \A u \in Cached(pool)' : u \in Cached(pool) /\ clients'[pool'[u]].timeout = clients[pool[u]].timeout
      BY <2>1 DEF Cached
    <2>4. ClientsSound'
      BY <1>10, TickStep DEF PInv
    <2> QED
      BY <2>1, <2>2, <2>3, <2>4, LinedStays, TimeoutStays DEF PInv, UpdateAt
  <1>11. CASE Crash
    BY <1>11, CrashPool
  <1>12. CASE Operate \/ FileWork \/ EditFile \/ Start \/ Started \/ UNCHANGED vars
    <2>1. UNCHANGED <<poolVars, request, update>>
      BY <1>12 DEF Operate, FileWork, EditFile, Start, Started, ReadSettings, SaveSettings, settingsVars, vars
    <2>2. REQUEST_TIMEOUT' = REQUEST_TIMEOUT
      BY <1>12 DEF Operate, FileWork, EditFile, Start, Started, ReadSettings, SaveSettings, settingsVars, vars,
                   SettingsSound, InForce
    <2> QED
      BY <2>1, <2>2, PoolElsewhere DEF poolVars, UpdateAt
  <1> QED
    BY <1>1, <1>2, <1>3, <1>4, <1>5, <1>6, <1>7, <1>8, <1>9, <1>10, <1>11, <1>12 DEF Next

LEMMA PoolInvariant == Spec => []PInv
  <1>1. Init => CInv /\ SettingsSound /\ PInv
    BY CatalogInits, SettingsInits, PoolInits
  <1>2. CInv /\ SettingsSound /\ PInv /\ [Next]_vars => CInv' /\ SettingsSound' /\ PInv'
    BY CatalogSteps, SettingsSteps, PoolSteps DEF CInv
  <1> QED
    BY <1>1, <1>2, PTL DEF Spec

\* Once a change of the timeout has gone through, no pooled client has another,
\* though requests read the timeout before they wait for the pool's lock (client.py,
\* get_or_create_client; config.py, update_settings).
THEOREM PoolAlwaysHasTheTimeout == Spec => []PoolHasTheTimeout
  <1>1. PInv => PoolHasTheTimeout
    <2> SUFFICES ASSUME PInv, \A u \in Updates : ~UpdateAt(u, "invalidating"), NEW v \in Cached(pool)
                 PROVE  clients[pool[v]].timeout = REQUEST_TIMEOUT
      BY DEF PoolHasTheTimeout
    <2>1. ~Later(line, 1)
      BY DEF PInv, Lined, Later
    <2> QED
      BY <2>1 DEF PInv, TimeoutSound
  <1> QED
    BY <1>1, PoolInvariant, PTL

\* No client is closed under a request that may still wait for its answer, however
\* the clients are replaced, but for one marked when it was retired (client.py,
\* _retired_client_close_delay_seconds, _close_retired_clients_later).
THEOREM NoneClosedInUse == Spec => []NotClosedInUse
  <1>1. PInv => NotClosedInUse
    <2> SUFFICES ASSUME PInv, NEW r \in Requests, request[r].at = "using",
                        request[r].waited < clients[request[r].client].timeout,
                        ~clients[request[r].client].open, ~clients[request[r].client].hasty
                 PROVE  FALSE
      BY DEF NotClosedInUse
    <2> DEFINE n == request[r].client
    <2>1. n \in DOMAIN clients /\ request[r].waited \in Nat
      BY DEF PInv, ClientsSound, RequestsTyped
    <2>2. Using(r, n)
      BY DEF Using
    <2>3. request[r].waited >= clients[n].timeout
      BY <2>1, <2>2 DEF PInv, ClientsSound, RetireSound
    <2>4. clients[n].timeout \in Nat
      BY <2>1, ClientFields DEF PInv, ClientsSound
    <2> QED
      BY <2>1, <2>3, <2>4
  <1> QED
    BY <1>1, PoolInvariant, PTL

=============================================================================
