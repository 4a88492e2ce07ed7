------------------------ MODULE UpstreamCatalogProofs ------------------------
(***************************************************************************)
(* Whatever is imported, fetched, published, activated and deleted, by any *)
(* number of administrators at once: the documents in use are there, and a *)
(* channel finds the profile it was validated with.                        *)
(***************************************************************************)
EXTENDS UpstreamCatalog, TLAPS

Stored == Docs \cup {None}
Binding   == [revision : Revisions, profile : Profiles]

CatalogTyped ==
  /\ file \in [Revisions -> Stored] /\ cache \in [Revisions -> Stored]
  /\ active \in Revisions
  /\ candidate \in Stored /\ fetching \in Stored

ChannelsTyped == channel \in [Channels -> Binding \cup {None}] /\ meant \in [Channels -> Stored]

\* What was validated before a change: if the channel still is as it was seen,
\* the profile it will have is in the document.
ChangeOK(q) ==
  /\ q.channel \in Channels /\ q.seen \in Binding \cup {None} /\ q.document \in Docs
  /\ q.revision \in Revisions \cup {None} /\ q.profile \in Profiles \cup {None}
  /\ q.seen = None => q.revision \in Revisions /\ q.profile \in Profiles
  /\ With(q.seen, q.revision, q.profile, None).profile \in ProfilesOf[q.document]

PendingOK ==
  \A q \in pending :
    /\ q.kind = "change" => ChangeOK(q)
    /\ q.kind = "delete" => q.revision \in Revisions \ {BuiltinRevision}

\* BindingsHold, and that there is a document.
BoundOK ==
  \A c \in Channels \ raced : channel[c] # None =>
    /\ file[channel[c].revision] = meant[c] /\ meant[c] \in Docs
    /\ channel[c].profile \in ProfilesOf[meant[c]]

CInv == CatalogTyped /\ CatalogSound
IInv == CInv /\ ChannelsTyped /\ PendingOK /\ BoundOK

-----------------------------------------------------------------------------
LEMMA BuiltinThere ==
  /\ BuiltinRevision \in Revisions /\ LegacyRevision \in Revisions
  /\ BuiltinRevision # LegacyRevision
  /\ Builtin \in Docs /\ None \notin Docs /\ None \notin Revisions /\ None \notin Profiles
  BY UpstreamCatalogAssumption DEF UpstreamCatalogAssumption, BuiltinRevision, LegacyRevision

\* ensure_builtin leaves a revision active that is there.
LEMMA UpgradedSound ==
  ASSUME CInv
  PROVE  /\ Upgraded \in Revisions /\ file[Upgraded] # None
         /\ \A r \in Revisions : UpgradedFor(r) \in Revisions /\ file[UpgradedFor(r)] # None
  BY BuiltinThere DEF CInv, CatalogTyped, CatalogSound, Upgraded, UpgradedFor

\* Looking up a document keeps the cache true to the files.
LEMMA RememberSound ==
  ASSUME CInv, NEW r \in Revisions, Remember(r), file' = file,
         active' \in Revisions, file[active'] # None,
         candidate' \in Stored, fetching' \in Stored
  PROVE  CInv'
<1>1. Document(r) \in {None, file[r]} /\ Document(r) \in Stored
  BY DEF CInv, CatalogTyped, CatalogSound, Document
<1>2. cache' = [cache EXCEPT ![r] = Document(r)]
  BY DEF Remember
<1>3. cache' \in [Revisions -> Stored]
  BY <1>1, <1>2 DEF CInv, CatalogTyped
<1>4. \A s \in Revisions : cache'[s] \in {None, file'[s]}
  BY <1>1, <1>2 DEF CInv, CatalogTyped, CatalogSound
<1> QED
  BY <1>3, <1>4 DEF CInv, CatalogTyped, CatalogSound, BuiltinRevision

\* A document that is found is one.
LEMMA DocumentFound ==
  ASSUME CInv, NEW r \in Revisions, Document(r) # None
  PROVE  Document(r) \in Docs /\ Document(r) = file[r]
  BY DEF CInv, CatalogTyped, CatalogSound, Document, Stored

LEMMA PublishSound ==
  ASSUME CInv, publish_candidate
  PROVE  /\ CInv'
         /\ \A r \in Revisions : file[r] # None => file'[r] = file[r]
<1> DEFINE r == RevisionOf[candidate]
<1>1. candidate \in Docs /\ r \in Revisions
  BY UpstreamCatalogAssumption DEF CInv, CatalogTyped, publish_candidate, Stored, UpstreamCatalogAssumption
<1>2. /\ file[r] \in {None, candidate}
      /\ file' = [file EXCEPT ![r] = candidate] /\ cache' = [cache EXCEPT ![r] = candidate]
      /\ active' = active /\ candidate' = candidate /\ fetching' = fetching
  BY DEF publish_candidate
<1> HIDE DEF r
<1>3. file' \in [Revisions -> Stored] /\ cache' \in [Revisions -> Stored]
  BY <1>1, <1>2 DEF CInv, CatalogTyped, Stored
<1>4. \A s \in Revisions : file[s] # None => file'[s] = file[s]
  BY <1>1, <1>2 DEF CInv, CatalogTyped
<1>5. \A s \in Revisions : cache'[s] \in {None, file'[s]}
  BY <1>1, <1>2 DEF CInv, CatalogTyped, CatalogSound
<1>6. file'[active'] # None /\ file'[BuiltinRevision] = Builtin
  BY <1>2, <1>4, BuiltinThere DEF CInv, CatalogTyped, CatalogSound
<1> QED
  BY <1>2, <1>3, <1>4, <1>5, <1>6 DEF CInv, CatalogTyped, CatalogSound, BuiltinRevision

LEMMA DeleteSound ==
  ASSUME CInv, NEW r \in Revisions, r # BuiltinRevision, delete_revision(r)
  PROVE  /\ CInv'
         /\ \A s \in Revisions \ {r} : file'[s] = file[s]
<1>1. /\ active' = Upgraded /\ candidate' = candidate /\ fetching' = fetching
      /\ Upgraded \in Revisions /\ file[Upgraded] # None
  BY UpgradedSound DEF delete_revision
<1>2. CASE r = Upgraded \/ file[r] = None
  <2>1. file' = file /\ cache' = cache
    BY <1>2 DEF delete_revision
  <2> QED
    BY <1>1, <2>1 DEF CInv, CatalogTyped, CatalogSound, BuiltinRevision
<1>3. CASE r # Upgraded /\ file[r] # None
  <2>1. file' = [file EXCEPT ![r] = None] /\ cache' = [cache EXCEPT ![r] = None]
    BY <1>3 DEF delete_revision
  <2>2. file' \in [Revisions -> Stored] /\ cache' \in [Revisions -> Stored]
    BY <2>1 DEF CInv, CatalogTyped, Stored
  <2>3. \A s \in Revisions \ {r} : file'[s] = file[s]
    BY <2>1 DEF CInv, CatalogTyped
  <2>4. \A s \in Revisions : cache'[s] \in {None, file'[s]}
    BY <2>1 DEF CInv, CatalogTyped, CatalogSound
  <2>5. file'[active'] # None /\ file'[BuiltinRevision] = Builtin
    BY <1>1, <1>3, <2>3, BuiltinThere DEF CInv, CatalogSound
  <2> QED
    BY <1>1, <2>2, <2>3, <2>4, <2>5 DEF CInv, CatalogTyped, CatalogSound, BuiltinRevision
<1> QED
  BY <1>2, <1>3

-----------------------------------------------------------------------------
(* The requests between look-up and deed *)

LEMMA WithTyped ==
  ASSUME NEW binding \in Binding \cup {None}, NEW r \in Revisions \cup {None},
         NEW p \in Profiles \cup {None}, NEW d \in Revisions \cup {None},
         binding = None => p # None /\ (r # None \/ d # None)
  PROVE  With(binding, r, p, d) \in Binding
<1>1. CASE binding = None
  BY <1>1, BuiltinThere DEF With, Or, Binding
<1>2. CASE binding # None
  BY <1>2 DEF With, Or, Binding
<1> QED
  BY <1>1, <1>2

\* What is validated is there when the channel has not changed since.
LEMMA ValidatePending ==
  ASSUME IInv, NEW c \in Channels, NEW r \in Revisions \cup {None},
         NEW p \in Profiles \cup {None}, Validate(c, r, p)
  PROVE  CInv' /\ PendingOK'
<1> DEFINE binding == With(channel[c], r, p, Upgraded)
           q == [kind |-> "change", channel |-> c, seen |-> channel[c],
                 document |-> Document(binding.revision),
                 revision |-> IF channel[c] = None THEN binding.revision ELSE r, profile |-> p]
<1>1. CInv /\ ChannelsTyped /\ PendingOK /\ channel[c] \in Binding \cup {None}
  BY DEF IInv, ChannelsTyped
<1>2. Upgraded \in Revisions /\ file[Upgraded] # None
  BY <1>1, UpgradedSound
<1>3. channel[c] = None => p # None
  BY DEF Validate
<1>4. binding \in Binding
  BY <1>1, <1>2, <1>3, BuiltinThere, WithTyped
<1>5. binding.revision \in Revisions /\ binding.profile \in Profiles
  BY <1>4 DEF Binding
<1>6. /\ Document(binding.revision) # None
      /\ binding.profile \in ProfilesOf[Document(binding.revision)]
      /\ Remember(binding.revision)
      /\ active' \in {Upgraded, UpgradedFor(binding.revision)}
      /\ pending' = pending \cup {q}
      /\ UNCHANGED <<file, candidate, fetching>>
  BY DEF Validate, validate_profile_reference
<1>7. CInv'
  <2>1. active' \in Revisions /\ file[active'] # None
    BY <1>1, <1>2, <1>5, <1>6, UpgradedSound
  <2>2. candidate' \in Stored /\ fetching' \in Stored
    BY <1>1, <1>6 DEF CInv, CatalogTyped
  <2> HIDE DEF binding
  <2> QED
    BY <1>1, <1>5, <1>6, <2>1, <2>2, RememberSound
<1>8. Document(binding.revision) \in Docs
  <2> HIDE DEF binding
  <2> QED
    BY <1>1, <1>5, <1>6, DocumentFound
<1>9. ChangeOK(q)
  <2>1. CASE channel[c] = None
    <3>1. binding.profile = p /\ p # None
      BY <2>1, <1>3 DEF With
    <3>2. q.seen = None /\ q.revision = binding.revision /\ q.profile = p
      BY <2>1, SMTT(30)
    <3>3. With(q.seen, q.revision, q.profile, None).profile = p
      BY <3>2 DEF With
    <3>4. q.channel = c /\ q.document = Document(binding.revision)
      OBVIOUS
    <3> HIDE DEF q, binding
    <3> QED
      BY <1>5, <1>6, <1>8, <3>1, <3>2, <3>3, <3>4 DEF ChangeOK
  <2>2. CASE channel[c] # None
    <3>1. q.seen = channel[c] /\ q.revision = r /\ q.profile = p
      BY <2>2, SMTT(30)
    <3>2. With(q.seen, q.revision, q.profile, None).profile = binding.profile
      BY <2>2, <3>1 DEF With
    <3>3. q.channel = c /\ q.document = Document(binding.revision)
      OBVIOUS
    <3> HIDE DEF q, binding
    <3> QED
      BY <1>1, <1>6, <1>8, <2>2, <3>1, <3>2, <3>3 DEF ChangeOK
  <2> QED
    BY <2>1, <2>2
<1>10. PendingOK'
  <2>1. q.kind = "change"
    OBVIOUS
  <2>2. \A x \in pending : (x.kind = "change" => ChangeOK(x))
                           /\ (x.kind = "delete" => x.revision \in Revisions \ {BuiltinRevision})
    BY <1>1 DEF PendingOK
  <2> HIDE DEF q
  <2> QED
    BY <1>6, <1>9, <2>1, <2>2 DEF PendingOK, ChangeOK, BuiltinRevision, With, Or
<1> QED
  BY <1>7, <1>10

-----------------------------------------------------------------------------
(* The channels *)

\* As long as no document that is there goes or changes, bound channels find theirs.
LEMMA BoundKept ==
  ASSUME IInv, UNCHANGED <<channel, meant, raced>>,
         \A r \in Revisions : file[r] # None => file'[r] = file[r]
  PROVE  ChannelsTyped' /\ BoundOK'
<1>1. ChannelsTyped' /\ ChannelsTyped /\ BoundOK
  BY DEF IInv, ChannelsTyped
<1>2. ASSUME NEW c \in Channels \ raced, channel[c] # None
      PROVE  /\ file'[channel[c].revision] = meant[c] /\ meant[c] \in Docs
             /\ channel[c].profile \in ProfilesOf[meant[c]]
  <2>1. channel[c].revision \in Revisions
    BY <1>1, <1>2 DEF ChannelsTyped, Binding
  <2>2. /\ file[channel[c].revision] = meant[c] /\ meant[c] \in Docs
        /\ channel[c].profile \in ProfilesOf[meant[c]]
    BY <1>1, <1>2 DEF BoundOK
  <2> QED
    BY <2>1, <2>2, BuiltinThere
<1> QED
  BY <1>1, <1>2 DEF BoundOK

\* A deletion takes the channels bound to the revision with it into `raced'.
LEMMA DeleteBound ==
  ASSUME IInv, NEW r \in Revisions, r # BuiltinRevision, delete_revision(r)
  PROVE  ChannelsTyped' /\ BoundOK'
<1>1. /\ ChannelsTyped /\ BoundOK /\ CInv
      /\ raced' = raced \cup Bound(r) /\ UNCHANGED <<channel, meant>>
  BY DEF IInv, delete_revision
<1>2. \A s \in Revisions \ {r} : file'[s] = file[s]
  BY <1>1, DeleteSound
<1>3. ASSUME NEW c \in Channels \ raced', channel[c] # None
      PROVE  /\ file'[channel[c].revision] = meant[c] /\ meant[c] \in Docs
             /\ channel[c].profile \in ProfilesOf[meant[c]]
  <2>1. channel[c].revision \in Revisions \ {r}
    BY <1>1, <1>3 DEF ChannelsTyped, Binding, Bound
  <2> QED
    BY <1>1, <1>2, <1>3, <2>1 DEF BoundOK
<1> QED
  BY <1>1, <1>3 DEF ChannelsTyped, BoundOK

LEMMA ChangeBound ==
  ASSUME IInv, NEW q \in Changes, Change(q)
  PROVE  ChannelsTyped' /\ BoundOK'
<1> DEFINE c == q.channel
           binding == With(channel[c], q.revision, q.profile, None)
<1>1. ChangeOK(q) /\ ChannelsTyped /\ BoundOK /\ c \in Channels /\ file' = file
  BY DEF IInv, PendingOK, Changes, ChangeOK, Change, disk
<1>2. CASE q.seen # None /\ channel[c] = None
  <2>1. UNCHANGED <<channel, meant, raced>>
    BY <1>2 DEF Change
  <2> QED
    BY <1>1, <2>1, BoundKept
<1>3. CASE ~(q.seen # None /\ channel[c] = None)
  <2>1. /\ channel' = [channel EXCEPT ![c] = binding]
        /\ meant' = [meant EXCEPT ![c] = q.document]
        /\ raced' = IF file[binding.revision] # q.document \/ channel[c] # q.seen
                    THEN raced \cup {c} ELSE raced \ {c}
    BY <1>3 DEF Change
  <2>2. binding \in Binding
    <3>1. /\ channel[c] \in Binding \cup {None}
          /\ q.revision \in Revisions \cup {None} /\ q.profile \in Profiles \cup {None}
      BY <1>1 DEF ChannelsTyped, ChangeOK
    <3>2. channel[c] = None => q.profile # None /\ q.revision # None
      BY <1>1, <1>3, BuiltinThere DEF ChangeOK
    <3> QED
      BY <3>1, <3>2, WithTyped
  <2>3. q.document \in Docs
    BY <1>1 DEF ChangeOK
  <2>4. channel[c] = q.seen => binding.profile \in ProfilesOf[q.document]
    BY <1>1 DEF ChangeOK
  <2> HIDE DEF binding
  <2>5. ChannelsTyped'
    BY <1>1, <2>1, <2>2, <2>3 DEF ChannelsTyped, Stored
  <2>6. ASSUME NEW d \in Channels \ raced', channel'[d] # None
        PROVE  /\ file'[channel'[d].revision] = meant'[d] /\ meant'[d] \in Docs
               /\ channel'[d].profile \in ProfilesOf[meant'[d]]
    <3>1. CASE d = c
      <4>1. channel'[d] = binding /\ meant'[d] = q.document
        BY <1>1, <2>1, <3>1 DEF ChannelsTyped
      <4>2. file[binding.revision] = q.document /\ channel[c] = q.seen
        BY <2>1, <2>6, <3>1
      <4> QED
        BY <1>1, <2>3, <2>4, <4>1, <4>2
    <3>2. CASE d # c
      <4>1. channel'[d] = channel[d] /\ meant'[d] = meant[d] /\ d \notin raced
        BY <1>1, <2>1, <2>6, <3>2 DEF ChannelsTyped
      <4> QED
        BY <1>1, <2>6, <4>1 DEF BoundOK
    <3> QED
      BY <3>1, <3>2
  <2> QED
    BY <2>5, <2>6 DEF BoundOK
<1> QED
  BY <1>2, <1>3

-----------------------------------------------------------------------------
LEMMA Initially == Init => IInv
<1> SUFFICES ASSUME Init PROVE IInv
  OBVIOUS
<1>1. PICK d \in {Builtin, Legacy} :
        /\ file = [r \in Revisions |-> IF r = BuiltinRevision THEN Builtin
                                      ELSE IF r = LegacyRevision /\ d = Legacy THEN Legacy ELSE None]
        /\ channel \in {f \in [Channels -> {None} \cup [revision : {RevisionOf[d]}, profile : ProfilesOf[d]]] :
                          \E c \in Channels : f[c] = None}
        /\ meant = [c \in Channels |-> IF channel[c] = None THEN None ELSE d]
  BY DEF Init
<1>2. /\ active = BuiltinRevision /\ candidate = None /\ fetching = None
      /\ cache = [r \in Revisions |-> None] /\ pending = {} /\ raced = {}
  BY DEF Init
<1>3. d \in Docs /\ Builtin \in Docs /\ Legacy \in Docs /\ RevisionOf[d] \in Revisions
      /\ ProfilesOf[d] \subseteq Profiles
  BY UpstreamCatalogAssumption DEF UpstreamCatalogAssumption
<1>4. file \in [Revisions -> Stored]
  BY <1>1, <1>3 DEF Stored
<1>5. file[RevisionOf[d]] = d
  BY <1>1, <1>3, BuiltinThere DEF BuiltinRevision, LegacyRevision
<1>6. CInv
  BY <1>1, <1>2, <1>4, BuiltinThere DEF CInv, CatalogTyped, CatalogSound, Stored
<1>7. ChannelsTyped
  <2>1. \A c \in Channels : channel[c] \in Binding \cup {None}
    BY <1>1, <1>3 DEF Binding
  <2>2. channel \in [Channels -> Binding \cup {None}]
    BY <1>1, <2>1
  <2> QED
    BY <1>1, <1>3, <2>2 DEF ChannelsTyped, Stored
<1>8. BoundOK
  <2>1. ASSUME NEW c \in Channels, channel[c] # None
        PROVE  channel[c].revision = RevisionOf[d] /\ channel[c].profile \in ProfilesOf[d] /\ meant[c] = d
    BY <1>1, <2>1
  <2> QED
    BY <1>3, <1>5, <2>1 DEF BoundOK
<1> QED
  BY <1>2, <1>6, <1>7, <1>8 DEF IInv, PendingOK

\* What leaves the channels alone and asks for nothing new.
LEMMA Quiet ==
  ASSUME IInv, CInv', UNCHANGED <<channel, meant, raced>>, pending' \subseteq pending,
         \A r \in Revisions : file[r] # None => file'[r] = file[r]
  PROVE  IInv'
<1>1. ChannelsTyped' /\ BoundOK'
  BY BoundKept
<1>2. PendingOK'
  BY DEF IInv, PendingOK, ChangeOK, BuiltinRevision, With, Or
<1> QED
  BY <1>1, <1>2 DEF IInv

\* What only touches the candidate.
LEMMA CandidateSteps ==
  ASSUME IInv, UNCHANGED <<file, active, cache, channel, pending, meant, raced>>,
         candidate' \in Stored, fetching' \in Stored
  PROVE  IInv'
<1>1. CInv'
  BY DEF IInv, CInv, CatalogTyped, CatalogSound, BuiltinRevision
<1> QED
  BY <1>1, Quiet

\* What looks up a document.
LEMMA LookUpSteps ==
  ASSUME IInv, NEW r \in Revisions, Remember(r), active' \in Revisions, file[active'] # None,
         UNCHANGED <<file, candidate, channel, pending, fetching, meant, raced>>
  PROVE  IInv'
<1>1. CInv'
  BY RememberSound DEF IInv, CInv, CatalogTyped
<1> QED
  BY <1>1, Quiet

LEMMA Step == IInv /\ [Next]_vars => IInv'
<1> SUFFICES ASSUME IInv, [Next]_vars PROVE IInv'
  OBVIOUS
<1>1. CInv /\ ChannelsTyped /\ PendingOK /\ BoundOK /\ CatalogTyped /\ CatalogSound
  BY DEF IInv, CInv
<1>2. Upgraded \in Revisions /\ file[Upgraded] # None
      /\ \A r \in Revisions : UpgradedFor(r) \in Revisions /\ file[UpgradedFor(r)] # None
  BY <1>1, UpgradedSound
<1>3. CASE UNCHANGED vars
  BY <1>1, <1>3, Quiet DEF vars, disk, CInv, CatalogTyped, CatalogSound, BuiltinRevision
<1>4. ASSUME NEW d \in Docs, replace_candidate(d) PROVE IInv'
  BY <1>1, <1>4, CandidateSteps DEF replace_candidate, CatalogTyped, Stored
<1>5. ASSUME NEW d \in Docs, CompareFetched(d) PROVE IInv'
  BY <1>1, <1>5, CandidateSteps DEF CompareFetched, CatalogTyped, Stored, disk
<1>6. CASE StoreFetched
  BY <1>1, <1>6, CandidateSteps DEF StoreFetched, CatalogTyped, Stored
<1>7. CASE publish_candidate
  <2>1. UNCHANGED <<channel, pending, meant, raced>>
    BY <1>7 DEF publish_candidate
  <2> QED
    BY <1>1, <1>7, <2>1, PublishSound, Quiet
<1>8. CASE active_document
  BY <1>2, <1>8, LookUpSteps DEF active_document
<1>9. ASSUME NEW r \in Revisions, activate_revision(r) PROVE IInv'
  <2>1. file[r] # None
    BY <1>1, <1>9, DocumentFound, BuiltinThere DEF activate_revision
  <2> QED
    BY <1>9, <2>1, LookUpSteps DEF activate_revision
<1>10. ASSUME NEW r \in Revisions, BeginDelete(r) PROVE IInv'
  <2>1. /\ pending' = pending \cup {Deletion(r)} /\ r # BuiltinRevision
        /\ UNCHANGED <<file, active, candidate, cache, channel, fetching, meant, raced>>
    BY <1>10 DEF BeginDelete, disk
  <2>2. Deletion(r).kind = "delete" /\ Deletion(r).revision = r
    BY DEF Deletion
  <2>3. PendingOK'
    BY <1>1, <2>1, <2>2 DEF PendingOK, ChangeOK, BuiltinRevision, With, Or
  <2>4. ChannelsTyped' /\ BoundOK'
    BY <2>1, BoundKept
  <2>5. CInv'
    BY <1>1, <2>1 DEF CInv, CatalogTyped, CatalogSound, BuiltinRevision
  <2> QED
    BY <2>3, <2>4, <2>5 DEF IInv
<1>11. ASSUME NEW r \in Revisions, delete_revision(r) PROVE IInv'
  <2>1. Deletion(r) \in pending /\ pending' = pending \ {Deletion(r)}
    BY <1>11 DEF delete_revision
  <2>2. r # BuiltinRevision
    BY <1>1, <2>1 DEF PendingOK, Deletion
  <2>3. PendingOK'
    BY <1>1, <2>1 DEF PendingOK, ChangeOK, BuiltinRevision, With, Or
  <2> QED
    BY <1>1, <1>11, <2>2, <2>3, DeleteSound, DeleteBound DEF IInv
<1>12. ASSUME NEW c \in Channels, resolve_upstream_profile(c) PROVE IInv'
  <2>1. channel[c].revision \in Revisions
    BY <1>1, <1>12 DEF resolve_upstream_profile, ChannelsTyped, Binding
  <2> QED
    BY <1>2, <1>12, <2>1, LookUpSteps DEF resolve_upstream_profile
<1>13. ASSUME NEW c \in Channels, delete_channel(c) PROVE IInv'
  <2>1. /\ channel' = [channel EXCEPT ![c] = None] /\ meant' = [meant EXCEPT ![c] = None]
        /\ raced' = raced \ {c}
        /\ UNCHANGED <<file, active, candidate, cache, pending, fetching>>
    BY <1>13 DEF delete_channel, disk
  <2>2. ChannelsTyped'
    BY <1>1, <2>1 DEF ChannelsTyped, Stored
  <2>3. BoundOK'
    BY <1>1, <2>1 DEF ChannelsTyped, BoundOK
  <2>4. CInv' /\ PendingOK'
    BY <1>1, <2>1 DEF CInv, CatalogTyped, CatalogSound, PendingOK, ChangeOK, BuiltinRevision, With, Or
  <2> QED
    BY <2>2, <2>3, <2>4 DEF IInv
<1>14. ASSUME NEW c \in Channels, NEW r \in Revisions \cup {None}, NEW p \in Profiles \cup {None},
              Validate(c, r, p)
       PROVE  IInv'
  <2>1. CInv' /\ PendingOK'
    BY <1>14, ValidatePending
  <2>2. UNCHANGED <<file, channel, meant, raced>>
    BY <1>14 DEF Validate
  <2> QED
    BY <2>1, <2>2, BoundKept DEF IInv
<1>15. ASSUME NEW q \in Changes, Change(q) PROVE IInv'
  <2>1. pending' = pending \ {q} /\ UNCHANGED <<file, active, candidate, cache, fetching>>
    BY <1>15 DEF Change, disk
  <2>2. CInv' /\ PendingOK'
    BY <1>1, <2>1 DEF CInv, CatalogTyped, CatalogSound, PendingOK, ChangeOK, BuiltinRevision, With, Or
  <2> QED
    BY <1>15, <2>2, ChangeBound DEF IInv
<1>16. CASE Crash
  <2>1. /\ cache' = [r \in Revisions |-> None] /\ pending' = {} /\ fetching' = None
        /\ active' = Upgraded /\ UNCHANGED <<file, candidate, channel, meant, raced>>
    BY <1>16 DEF Crash
  <2>2. CInv'
    BY <1>1, <1>2, <2>1 DEF CInv, CatalogTyped, CatalogSound, Stored, BuiltinRevision
  <2> QED
    BY <2>1, <2>2, Quiet
<1> QED
  BY <1>3, <1>4, <1>5, <1>6, <1>7, <1>8, <1>9, <1>10, <1>11, <1>12, <1>13, <1>14, <1>15, <1>16 DEF Next

\* The active and the built-in revision are there, and what is in memory is what is
\* in the files (upstream_catalog.py), for any documents and any number of
\* administrators and crashes.
THEOREM CatalogIsSound == Spec => []CatalogSound
<1>1. IInv => CatalogSound
  BY DEF IInv, CInv
<1> QED
  BY <1>1, Initially, Step, PTL DEF Spec

\* A channel finds the document it was validated against, with its profile in it,
\* unless something came between look-up and deed (routers/admin).
THEOREM BindingsAreHeld == Spec => []BindingsHold
<1>1. IInv => BindingsHold
  BY SMTT(30) DEF IInv, BoundOK, BindingsHold
<1> QED
  BY <1>1, Initially, Step, PTL DEF Spec

\* A published revision never changes: it is there as it was, or deleted
\* (upstream_catalog.py, publish_candidate).
THEOREM PublishedNeverChanges ==
  Spec => [][\A r \in Revisions : file[r] # None => file'[r] \in {file[r], None}]_file
<1> DEFINE Kept == \A r \in Revisions : file[r] # None => file'[r] \in {file[r], None}
<1>1. IInv /\ [Next]_vars => [Kept]_file
  <2> SUFFICES ASSUME IInv, Next, file' # file PROVE Kept
    BY DEF vars, disk
  <2>1. CASE publish_candidate
    BY <2>1, PublishSound DEF IInv
  <2>2. ASSUME NEW r \in Revisions, delete_revision(r) PROVE Kept
    <3>1. file' = [file EXCEPT ![r] = None]
      BY <2>2 DEF delete_revision
    <3> QED
      BY <3>1 DEF IInv, CInv, CatalogTyped
  <2> QED
    BY <2>1, <2>2 DEF Next, replace_candidate, CompareFetched, StoreFetched, active_document,
         activate_revision, BeginDelete, resolve_upstream_profile, delete_channel, Validate,
         Change, Crash, disk
<1> QED
  BY <1>1, Initially, Step, PTL DEF Spec
=============================================================================
