--------------------------- MODULE UpstreamCatalog ---------------------------
(***************************************************************************)
(* The catalog of upstream profiles (upstream_catalog.py), its refresh     *)
(* from the outside (upstream_catalog_refresh.py) and the channels bound   *)
(* to its revisions (routers/admin/upstream_catalog.py, channels.py).      *)
(*                                                                         *)
(* Documents come in as the candidate, are published under their revision  *)
(* and never change from then on; one revision is active, the default of   *)
(* new channels; a revision may be deleted when it is neither active nor   *)
(* bound.  What the catalog does itself it does under its lock, one step   *)
(* here.  But whether a revision is bound, and whether a channel fits the  *)
(* document it is to be bound to, is looked up before, and acted on later. *)
(*                                                                         *)
(* Channels are committed at once here: ChannelCatalog has their file.     *)
(***************************************************************************)
EXTENDS Integers, FiniteSets

CONSTANTS
  Docs, Revisions, Profiles, Channels,
  RevisionOf,    \* [Docs -> Revisions]
  ProfilesOf,    \* [Docs -> SUBSET Profiles]
  Conflicted,    \* documents with conflicts, which cannot be published
  Fetched,       \* documents a refresh may bring
  Builtin,       \* the document that always is there
  Legacy,        \* the document of the older built-in revision
  None,          \* no document, no revision, nothing to change
  MaxPending,    \* bound on administrators' requests between their two steps
  MaxCrashes

ASSUME UpstreamCatalogAssumption ==
  /\ RevisionOf \in [Docs -> Revisions] /\ ProfilesOf \in [Docs -> SUBSET Profiles]
  /\ Conflicted \subseteq Docs /\ Fetched \subseteq Docs
  /\ Builtin \in Docs \ Conflicted /\ Legacy \in Docs \ Conflicted
  /\ RevisionOf[Builtin] # RevisionOf[Legacy]
  /\ None \notin Docs \cup Revisions \cup Profiles
  /\ MaxPending \in Nat /\ MaxCrashes \in Nat

VARIABLES
  file,          \* the document published under each revision
  active,        \* active.json
  candidate,     \* candidate.json
  cache,         \* documents in memory
  channel,       \* per channel: [revision, profile], or None
  pending,       \* requests between look-up and deed: deletions and changes
  fetching,      \* the document of a refresh that has found it to be new, or None
  meant,         \* history: the document each channel was last validated against
  raced,         \* history: channels whose change met a deletion or another change
  crashes

disk == <<file, active, candidate>>
vars == <<disk, cache, channel, pending, fetching, meant, raced, crashes>>

BuiltinRevision == RevisionOf[Builtin]
LegacyRevision  == RevisionOf[Legacy]

\* ensure_builtin, which most operations begin with, and looking up a built-in
\* revision does.
Upgraded == IF active = LegacyRevision THEN BuiltinRevision ELSE active
UpgradedFor(r) == IF r \in {BuiltinRevision, LegacyRevision} THEN Upgraded ELSE active

-----------------------------------------------------------------------------
(* The catalog itself *)

\* What `revision` returns, and then keeps in memory.
Document(r) == IF cache[r] # None THEN cache[r] ELSE file[r]
Remember(r) == cache' = [cache EXCEPT ![r] = Document(r)]

replace_candidate(d) ==
  /\ candidate' = d
  /\ UNCHANGED <<file, active, cache, channel, pending, fetching, meant, raced, crashes>>

publish_candidate ==
  /\ candidate # None /\ candidate \notin Conflicted
  /\ LET r == RevisionOf[candidate] IN
     /\ file[r] \in {None, candidate}
     /\ file' = [file EXCEPT ![r] = candidate]
     /\ cache' = [cache EXCEPT ![r] = candidate]
  /\ UNCHANGED <<active, candidate, channel, pending, fetching, meant, raced, crashes>>

activate_revision(r) ==
  /\ Document(r) # None
  /\ active' = r
  /\ Remember(r)
  /\ UNCHANGED <<file, candidate, channel, pending, fetching, meant, raced, crashes>>

\* The status page and whatever else asks for the active revision.
active_document ==
  /\ active' = Upgraded
  /\ Remember(Upgraded)
  /\ UNCHANGED <<file, candidate, channel, pending, fetching, meant, raced, crashes>>

\* A request that needs the profile of its channel.
resolve_upstream_profile(c) ==
  /\ channel[c] # None
  /\ Remember(channel[c].revision)
  /\ active' = UpgradedFor(channel[c].revision)
  /\ UNCHANGED <<file, candidate, channel, pending, fetching, meant, raced, crashes>>

-----------------------------------------------------------------------------
(* Refreshes: by the loop or an administrator, one at a time *)

\* The candidate is compared with before the catalog's lock is taken.
CompareFetched(d) ==
  /\ fetching = None
  /\ d \in Fetched
  /\ ~(candidate # None /\ RevisionOf[candidate] = RevisionOf[d])
  /\ fetching' = d
  /\ UNCHANGED <<disk, cache, channel, pending, meant, raced, crashes>>

StoreFetched ==
  /\ fetching # None
  /\ candidate' = fetching
  /\ fetching' = None
  /\ UNCHANGED <<file, active, cache, channel, pending, meant, raced, crashes>>

-----------------------------------------------------------------------------
(* Deletions *)

Bound(r) == {c \in Channels : channel[c] # None /\ channel[c].revision = r}
Deletion(r) == [kind |-> "delete", revision |-> r]
Changes == {p \in pending : p.kind = "change"}

BeginDelete(r) ==
  /\ Cardinality(pending) < MaxPending
  /\ r # BuiltinRevision /\ Bound(r) = {}
  /\ pending' = pending \cup {Deletion(r)}
  /\ UNCHANGED <<disk, cache, channel, fetching, meant, raced, crashes>>

\* Faulty: the active revision may be deleted.
DeleteEvenActive(r) ==
  /\ Deletion(r) \in pending
  /\ pending' = pending \ {Deletion(r)}
  /\ active' = Upgraded
  /\ IF file[r] = None
     THEN UNCHANGED <<file, cache>>
     ELSE /\ file' = [file EXCEPT ![r] = None]
          /\ cache' = [cache EXCEPT ![r] = None]
  /\ raced' = raced \cup Bound(r)
  /\ UNCHANGED <<candidate, channel, fetching, meant, crashes>>

\* A channel bound meanwhile is not looked for again.
delete_revision(r) ==
  /\ Deletion(r) \in pending
  /\ pending' = pending \ {Deletion(r)}
  /\ active' = Upgraded
  /\ IF r = Upgraded \/ file[r] = None
     THEN UNCHANGED <<file, cache>>
     ELSE /\ file' = [file EXCEPT ![r] = None]
          /\ cache' = [cache EXCEPT ![r] = None]
  /\ raced' = raced \cup Bound(r)
  /\ UNCHANGED <<candidate, channel, fetching, meant, crashes>>

-----------------------------------------------------------------------------
(* Channels *)

Or(new, old) == IF new = None THEN old ELSE new

\* A binding after a change of the fields given, by default with revision d.
With(binding, r, p, d) ==
  IF binding = None THEN [revision |-> Or(r, d), profile |-> p]
  ELSE [revision |-> Or(r, binding.revision), profile |-> Or(p, binding.profile)]

\* Faulty: the revision is looked up, but not whether it has the profile.
RevisionThere(binding) == Document(binding.revision) # None

validate_profile_reference(binding) ==
  /\ Document(binding.revision) # None
  /\ binding.profile \in ProfilesOf[Document(binding.revision)]

\* Creating a channel, by default with the active revision; binding it to a
\* revision and a profile; updating one of them.  What is validated is the
\* channel as it is now with the fields that change.
Validate(c, r, p) ==
  /\ Cardinality(pending) < MaxPending
  /\ IF channel[c] = None THEN p # None /\ \A q \in Changes : q.channel # c
     ELSE With(channel[c], r, p, None) # channel[c]
  /\ LET binding == With(channel[c], r, p, Upgraded) IN
     /\ validate_profile_reference(binding)
     /\ Remember(binding.revision)
     /\ active' = IF channel[c] = None /\ r = None THEN Upgraded ELSE UpgradedFor(binding.revision)
     /\ pending' = pending \cup
          {[kind |-> "change", channel |-> c, seen |-> channel[c], document |-> Document(binding.revision),
            revision |-> IF channel[c] = None THEN binding.revision ELSE r, profile |-> p]}
  /\ UNCHANGED <<file, candidate, channel, fetching, meant, raced, crashes>>

\* The fields are changed in the channel as it is by then, if it still is there.
Change(q) ==
  LET c == q.channel
      binding == With(channel[c], q.revision, q.profile, None)
  IN
  /\ q \in Changes
  /\ pending' = pending \ {q}
  /\ IF q.seen # None /\ channel[c] = None
     THEN UNCHANGED <<channel, meant, raced>>
     ELSE /\ channel' = [channel EXCEPT ![c] = binding]
          /\ meant' = [meant EXCEPT ![c] = q.document]
          /\ raced' = IF file[binding.revision] # q.document \/ channel[c] # q.seen
                      THEN raced \cup {c} ELSE raced \ {c}
  /\ UNCHANGED <<disk, cache, fetching, crashes>>

delete_channel(c) ==
  /\ channel[c] # None
  /\ channel' = [channel EXCEPT ![c] = None]
  /\ meant' = [meant EXCEPT ![c] = None]
  /\ raced' = raced \ {c}
  /\ UNCHANGED <<disk, cache, pending, fetching, crashes>>

-----------------------------------------------------------------------------
Crash ==
  /\ crashes < MaxCrashes
  /\ crashes' = crashes + 1
  /\ cache' = [r \in Revisions |-> None]
  /\ pending' = {} /\ fetching' = None
  /\ active' = Upgraded
  /\ UNCHANGED <<file, candidate, channel, meant, raced>>

\* A first start, or one with what an older version left.
Init ==
  /\ \E d \in {Builtin, Legacy} :
       /\ file = [r \in Revisions |-> IF r = BuiltinRevision THEN Builtin
                                      ELSE IF r = LegacyRevision /\ d = Legacy THEN Legacy ELSE None]
       /\ channel \in {f \in [Channels -> {None} \cup [revision : {RevisionOf[d]}, profile : ProfilesOf[d]]] :
                         \E c \in Channels : f[c] = None}
       /\ meant = [c \in Channels |-> IF channel[c] = None THEN None ELSE d]
  /\ active = BuiltinRevision
  /\ candidate = None
  /\ cache = [r \in Revisions |-> None]
  /\ pending = {} /\ fetching = None
  /\ raced = {}
  /\ crashes = 0

Next ==
  \/ \E d \in Docs : replace_candidate(d) \/ CompareFetched(d)
  \/ StoreFetched \/ publish_candidate \/ active_document
  \/ \E r \in Revisions : activate_revision(r) \/ BeginDelete(r) \/ delete_revision(r)
  \/ \E c \in Channels :
       \/ resolve_upstream_profile(c) \/ delete_channel(c)
       \/ \E r \in Revisions \cup {None}, p \in Profiles \cup {None} : Validate(c, r, p)
  \/ \E q \in Changes : Change(q)
  \/ Crash

Spec == Init /\ [][Next]_vars

-----------------------------------------------------------------------------
(* Properties *)

\* The active and the built-in revision are there, and what is in memory is what is
\* in the file, whatever is published, deleted and published again
\* (upstream_catalog.py, under its lock).
CatalogSound ==
  /\ file[active] # None /\ file[BuiltinRevision] = Builtin
  /\ \A r \in Revisions : cache[r] \in {None, file[r]}

\* A channel finds the document it was validated against, with its profile in it,
\* unless the look-up and the deed of its change, or of a deletion of that revision,
\* had another change or deletion between them (routers/admin/upstream_catalog.py,
\* delete_revision and bind_channel_profile).
BindingsHold ==
  \A c \in Channels \ raced : channel[c] # None =>
    /\ file[channel[c].revision] = meant[c]
    /\ channel[c].profile \in ProfilesOf[meant[c]]
=============================================================================
