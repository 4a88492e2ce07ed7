--------------------------- MODULE OutcomesProofs ---------------------------
(***************************************************************************)
(* What the outcome ledger guarantees, for every set of models, channels   *)
(* and groups, every threshold and cooldown, and any order of calls: its    *)
(* entries are exact, its circuits sound, and it implements its views.     *)
(***************************************************************************)
EXTENDS OutcomesViews, TLAPS

\* The inductive invariant.  HealthMatchesEpisodes alone does not tell how many
\* failures the circuit still counts; ForgivenOnlyAcrossPauses does.
IInv == TypeOK /\ HealthMatchesEpisodes /\ ForgivenOnlyAcrossPauses

-----------------------------------------------------------------------------
\* Appending a failure to an episode keeps the ones already there and puts the
\* new one last.
LEMMA AppendFailure ==
  ASSUME NEW ep \in Seq(Failure), NEW f \in Failure
  PROVE  LET new == Append(ep, f)
         IN /\ new \in Seq(Failure)
            /\ Len(new) = Len(ep) + 1
            /\ new # <<>>
            /\ \A i \in 1..Len(ep) : new[i] = ep[i]
            /\ new[Len(ep) + 1] = f
  BY SMTT(30)

\* A step that changes neither the entries nor the episodes, nor the clock,
\* keeps what relates them.
LEMMA Untouched ==
  ASSUME HealthMatchesEpisodes /\ ForgivenOnlyAcrossPauses,
         UNCHANGED <<now, health, episode>>
  PROVE  HealthMatchesEpisodes' /\ ForgivenOnlyAcrossPauses'
  BY DEF HealthMatchesEpisodes, ForgivenOnlyAcrossPauses,
         EntryMatchesEpisode, ForgivenAcrossPause

-----------------------------------------------------------------------------
LEMMA InitIInv == Init => IInv
  <1> SUFFICES ASSUME Init PROVE IInv
    OBVIOUS
  <1>1. TypeOK
    BY OutcomesAssumption DEF Init, TypeOK, EmptyHealth, EmptyEpisodes,
         EmptyPreferred, NoFailures, Entry
  <1>2. HealthMatchesEpisodes
    BY DEF Init, HealthMatchesEpisodes, EntryMatchesEpisode, EmptyHealth,
         EmptyEpisodes, NoFailures
  <1>3. ForgivenOnlyAcrossPauses
    BY DEF Init, ForgivenOnlyAcrossPauses, ForgivenAcrossPause, EmptyHealth,
         EmptyEpisodes, NoFailures
  <1> QED
    BY <1>1, <1>2, <1>3 DEF IInv

\* A success starts a new, empty episode of its pair.
LEMMA SuccessIInv ==
  ASSUME IInv, NEW p \in Pairs, RecordSuccess(p)
  PROVE  IInv'
  <1> USE DEF IInv
  <1>1. health[p] \in Entry
    BY DEF TypeOK
  <1>2. TypeOK'
    <2>1. [NoFailures EXCEPT !.lastFail = health[p].lastFail] \in Entry
      BY <1>1 DEF NoFailures, Entry
    <2>2. <<>> \in Seq(Failure)
      OBVIOUS
    <2> QED
      BY <2>1, <2>2 DEF TypeOK, RecordSuccess
  <1>3. health'[p].fail = 0 /\ ~health'[p].degraded /\ health'[p].consec = 0
        /\ health'[p].firstFailed = 0 /\ ~health'[p].permanent
        /\ episode'[p] = <<>>
    BY DEF TypeOK, RecordSuccess, NoFailures
  <1>4. ASSUME NEW q \in Pairs
        PROVE  EntryMatchesEpisode(q)' /\ ForgivenAcrossPause(q)'
    <2>1. CASE q = p
      BY <1>3, <2>1, SMTT(30) DEF EntryMatchesEpisode, ForgivenAcrossPause
    <2>2. CASE q # p
      <3>1. health'[q] = health[q] /\ episode'[q] = episode[q] /\ now' = now
        BY <2>2 DEF RecordSuccess, TypeOK
      <3> QED
        BY <3>1 DEF HealthMatchesEpisodes, ForgivenOnlyAcrossPauses,
             EntryMatchesEpisode, ForgivenAcrossPause
    <2> QED
      BY <2>1, <2>2
  <1> QED
    BY <1>2, <1>4 DEF HealthMatchesEpisodes, ForgivenOnlyAcrossPauses

\* A failure lengthens its pair's episode and the count by one, so the boundary
\* between forgiven and counted failures stays where it was -- or, when all were
\* forgiven, comes to lie between the newest of them and the present one.
LEMMA FailureIInv ==
  ASSUME IInv, NEW p \in Pairs, NEW kind \in FailureKinds, RecordFailure(p, kind)
  PROVE  IInv'
  <1> USE DEF IInv
  <1> DEFINE e  == health[p]
             ep == episode[p]
             f  == [at |-> now, config |-> kind = "http_4xx_config"]
  <1>1. e \in Entry /\ ep \in Seq(Failure) /\ f \in Failure /\ now \in Nat \ {0}
    BY DEF TypeOK, Failure
  <1>2. health'[p] = Failed(e, kind) /\ episode'[p] = Append(ep, f) /\ now' = now
    BY DEF RecordFailure, TypeOK
  <1>3. Failed(e, kind) \in Entry
    BY <1>1, SMTT(30) DEF Failed, Entry
  <1>4. TypeOK'
    BY <1>1, <1>3, AppendFailure DEF TypeOK, RecordFailure
  <1>5. EntryMatchesEpisode(p) /\ ForgivenAcrossPause(p)
    BY DEF HealthMatchesEpisodes, ForgivenOnlyAcrossPauses
  <1>6. LET new == episode'[p]
        IN /\ Len(new) = Len(ep) + 1
           /\ new # <<>>
           /\ \A i \in 1..Len(ep) : new[i] = ep[i]
           /\ new[Len(ep) + 1] = f
    BY <1>1, <1>2, AppendFailure, SMTT(30)
  <1>7. Len(ep) \in Nat /\ e.fail \in Nat /\ e.consec \in Nat
    BY <1>1, SMTT(30) DEF Entry
  <1>8. EntryMatchesEpisode(p)'
    <2>1. health'[p].degraded /\ episode'[p] # <<>>
      BY <1>2, <1>6 DEF Failed
    <2>2. health'[p].consec = Len(episode'[p])
      BY <1>2, <1>5, <1>6, <1>7 DEF Failed, EntryMatchesEpisode
    <2>3. health'[p].firstFailed = episode'[p][1].at
      <3>1. CASE ep = <<>>
        BY <1>2, <1>5, <1>6, <3>1, SMTT(30) DEF Failed, EntryMatchesEpisode
      <3>2. CASE ep # <<>>
        <4>1. Len(ep) >= 1
          BY <1>1, <3>2, SMTT(30)
        <4> QED
          BY <1>2, <1>5, <1>6, <1>7, <3>2, <4>1 DEF Failed, EntryMatchesEpisode
      <3> QED
        BY <3>1, <3>2
    <2>4. health'[p].fail <= Len(episode'[p])
      BY <1>2, <1>5, <1>6, <1>7, SMTT(30) DEF Failed, EntryMatchesEpisode
    <2>5. health'[p].lastFail = episode'[p][Len(episode'[p])].at
      BY <1>2, <1>6 DEF Failed
    <2>6. health'[p].permanent => \E i \in 1..Len(episode'[p]) : episode'[p][i].config
      <3> SUFFICES ASSUME health'[p].permanent
                   PROVE  \E i \in 1..Len(episode'[p]) : episode'[p][i].config
        OBVIOUS
      <3>1. CASE kind = "http_4xx_config"
        <4>1. f.config = (kind = "http_4xx_config")
          OBVIOUS
        <4>2. episode'[p][Len(ep) + 1].config
          BY <1>6, <3>1, <4>1
        <4>3. Len(ep) + 1 \in 1..Len(episode'[p])
          BY <1>6, <1>7
        <4> QED
          BY <4>2, <4>3
      <3>2. CASE kind # "http_4xx_config"
        <4>1. e.permanent
          BY <1>1, <1>2, <3>2 DEF Failed, Entry
        <4>2. PICK i \in 1..Len(ep) : ep[i].config
          BY <1>5, <4>1 DEF EntryMatchesEpisode
        <4> QED
          BY <1>6, <1>7, <4>2, SMTT(30)
      <3> QED
        BY <3>1, <3>2
    <2> QED
      BY <2>1, <2>2, <2>3, <2>4, <2>5, <2>6 DEF EntryMatchesEpisode
  <1>9. ForgivenAcrossPause(p)'
    <2> DEFINE n   == Len(ep)
               k   == e.fail
               new == episode'[p]
    <2>1. k < n => new[n - k + 1].at - new[n - k].at > Cooldown
      <3> SUFFICES ASSUME k < n
                   PROVE  new[n - k + 1].at - new[n - k].at > Cooldown
        OBVIOUS
      <3>0. \A i \in 1..n : new[i] = ep[i]
        BY <1>6
      <3>1. new[n - k] = ep[n - k]
        <4>1. n - k \in 1..n
          BY <1>7, SMTT(30)
        <4> HIDE DEF n, k, new
        <4> QED
          BY <3>0, <4>1
      <3>2. CASE k = 0
        <4>1. new[n - k + 1].at = now
          BY <1>6, <1>7, <3>2
        <4>2. now - ep[n].at > Cooldown
          BY <1>5, <3>2 DEF ForgivenAcrossPause
        <4> QED
          BY <1>7, <3>1, <3>2, <4>1, <4>2
      <3>3. CASE k # 0
        <4>1. new[n - k + 1] = ep[n - k + 1]
          <5>1. n - k + 1 \in 1..n
            BY <1>7, <3>3, SMTT(30)
          <5> HIDE DEF n, k, new
          <5> QED
            BY <3>0, <5>1
        <4>2. ep[n - k + 1].at - ep[n - k].at > Cooldown
          BY <1>5, <3>3 DEF ForgivenAcrossPause
        <4> QED
          BY <3>1, <4>1, <4>2
      <3> QED
        BY <3>2, <3>3
    <2>2. Len(new) = n + 1 /\ health'[p].fail = k + 1 /\ n \in Nat /\ k \in Nat
      BY <1>2, <1>6, <1>7 DEF Failed
    <2> HIDE DEF n, k, new
    <2>3. (n + 1) - (k + 1) = n - k /\ (n + 1) - (k + 1) + 1 = n - k + 1
          /\ k + 1 # 0 /\ (k + 1 < n + 1 => k < n)
      BY ONLY <2>2, SMTT(30)
    <2>4. \A N, K : /\ Len(episode'[p]) = N /\ health'[p].fail = K /\ K # 0
                    /\ K < N => episode'[p][N - K + 1].at - episode'[p][N - K].at > Cooldown
                   => ForgivenAcrossPause(p)'
      BY DEF ForgivenAcrossPause
    <2> QED
      BY <2>1, <2>2, <2>3, <2>4 DEF new
  <1>10. ASSUME NEW q \in Pairs, q # p
         PROVE  EntryMatchesEpisode(q)' /\ ForgivenAcrossPause(q)'
    <2>1. health'[q] = health[q] /\ episode'[q] = episode[q] /\ now' = now
      BY <1>10 DEF RecordFailure, TypeOK
    <2> QED
      BY <2>1 DEF HealthMatchesEpisodes, ForgivenOnlyAcrossPauses,
           EntryMatchesEpisode, ForgivenAcrossPause
  <1> QED
    BY <1>4, <1>8, <1>9, <1>10 DEF HealthMatchesEpisodes, ForgivenOnlyAcrossPauses

\* An admission check forgives the count only when the cooldown is over, which is
\* a pause between the newest failure and the present moment.
LEMMA AdmissionIInv ==
  ASSUME IInv, NEW p \in Pairs, NEW checkHealth \in BOOLEAN,
         CheckAdmission(p, checkHealth)
  PROVE  IInv'
  <1> USE DEF IInv
  <1> USE OutcomesAssumption
  <1>1. p[2] \in Channels
    BY DEF Pairs
  <1>2. health[p] \in Entry /\ episode[p] \in Seq(Failure) /\ now \in Nat
    BY DEF TypeOK
  <1>3. Forgiven(health[p]) \in Entry
    BY <1>2 DEF Forgiven, Entry
  <1>4. TypeOK'
    BY <1>1, <1>3 DEF TypeOK, CheckAdmission
  <1>5. EntryMatchesEpisode(p) /\ ForgivenAcrossPause(p)
    BY DEF HealthMatchesEpisodes, ForgivenOnlyAcrossPauses
  <1>6. health'[p] \in {health[p], Forgiven(health[p])}
        /\ episode' = episode /\ now' = now
    BY DEF CheckAdmission, TypeOK
  <1>7. EntryMatchesEpisode(p)' /\ ForgivenAcrossPause(p)'
    <2>1. CASE health'[p] = health[p]
      BY <1>5, <1>6, <2>1 DEF EntryMatchesEpisode, ForgivenAcrossPause
    <2>2. CASE health'[p] # health[p]
      <3>1. CooledDown(health[p])
            /\ health'[p] = [health[p] EXCEPT !.fail = 0, !.lastFail = 0]
        BY <1>6, <2>2 DEF Forgiven
      <3>2. health[p].fail > 0 /\ health[p].fail \in Nat /\ Cooldown \in Nat
        BY <1>2, <3>1, SMTT(30) DEF CooledDown, Entry
      <3>3. now - episode[p][Len(episode[p])].at > Cooldown
        BY <1>5, <3>1, <3>2 DEF CooledDown, EntryMatchesEpisode
      <3>4. /\ health'[p].fail = 0
            /\ health'[p].degraded = health[p].degraded
            /\ health'[p].consec = health[p].consec
            /\ health'[p].firstFailed = health[p].firstFailed
            /\ health'[p].permanent = health[p].permanent
        BY <1>2, <3>1 DEF Entry
      <3>5. Len(episode[p]) \in Nat
        BY <1>2
      <3>6. EntryMatchesEpisode(p)'
        BY <1>5, <1>6, <3>4, <3>5 DEF EntryMatchesEpisode
      <3>7. ForgivenAcrossPause(p)'
        BY <1>6, <3>3, <3>4, SMTT(30) DEF ForgivenAcrossPause
      <3> QED
        BY <3>6, <3>7
    <2> QED
      BY <2>1, <2>2
  <1>8. ASSUME NEW q \in Pairs, q # p
        PROVE  EntryMatchesEpisode(q)' /\ ForgivenAcrossPause(q)'
    <2>1. health'[q] = health[q]
      BY <1>8 DEF CheckAdmission, TypeOK
    <2> QED
      BY <1>6, <2>1 DEF HealthMatchesEpisodes, ForgivenOnlyAcrossPauses,
           EntryMatchesEpisode, ForgivenAcrossPause
  <1> QED
    BY <1>4, <1>7, <1>8 DEF HealthMatchesEpisodes, ForgivenOnlyAcrossPauses

\* Lifting the permanent marks of a channel leaves the failures on record.
LEMMA ClearPermanentIInv ==
  ASSUME IInv, NEW c \in Channels, ClearPermanent(c)
  PROVE  IInv'
  <1> USE DEF IInv
  <1>1. ASSUME NEW p \in Pairs
        PROVE  /\ health'[p] \in Entry
               /\ health'[p].fail = health[p].fail
               /\ health'[p].lastFail = health[p].lastFail
               /\ health'[p].degraded = health[p].degraded
               /\ health'[p].firstFailed = health[p].firstFailed
               /\ health'[p].consec = health[p].consec
               /\ health'[p].permanent => health[p].permanent
    BY ZenonT(40) DEF ClearPermanent, TypeOK, Entry
  <1>2. TypeOK'
    BY <1>1 DEF TypeOK, ClearPermanent
  <1>3. episode' = episode /\ now' = now
    BY DEF ClearPermanent
  <1>4. HealthMatchesEpisodes'
    BY <1>1, <1>3, SMTT(30) DEF HealthMatchesEpisodes, EntryMatchesEpisode
  <1>5. ForgivenOnlyAcrossPauses'
    BY <1>1, <1>3, ZenonT(60) DEF ForgivenOnlyAcrossPauses, ForgivenAcrossPause
  <1> QED
    BY <1>2, <1>4, <1>5

\* Removing a channel leaves its pairs as if nothing had ever been recorded.
LEMMA RemoveChannelIInv ==
  ASSUME IInv, NEW c \in Channels, RemoveChannel(c)
  PROVE  IInv'
  <1> USE DEF IInv
  <1>1. TypeOK'
    BY OutcomesAssumption, SMTT(30) DEF TypeOK, RemoveChannel, NoFailures, Entry
  <1>2. ASSUME NEW p \in Pairs
        PROVE  EntryMatchesEpisode(p)' /\ ForgivenAcrossPause(p)'
    <2>1. CASE p[2] = c
      BY <2>1, SMTT(30) DEF RemoveChannel, NoFailures, EntryMatchesEpisode, ForgivenAcrossPause
    <2>2. CASE p[2] # c
      <3>1. health'[p] = health[p] /\ episode'[p] = episode[p] /\ now' = now
        BY <2>2 DEF RemoveChannel
      <3> QED
        BY <3>1 DEF HealthMatchesEpisodes, ForgivenOnlyAcrossPauses,
             EntryMatchesEpisode, ForgivenAcrossPause
    <2> QED
      BY <2>1, <2>2
  <1> QED
    BY <1>1, <1>2 DEF HealthMatchesEpisodes, ForgivenOnlyAcrossPauses

\* A restart begins with no failures on record.
LEMMA ReloadIInv ==
  ASSUME IInv, NEW onDisk \in [Channels -> Resets \cup {0}], Reload(onDisk)
  PROVE  IInv'
  <1> USE DEF IInv
  <1>1. TypeOK'
    <2>1. NoFailures \in Entry /\ <<>> \in Seq(Failure)
      BY DEF NoFailures, Entry
    <2>2. \A c \in Channels : onDisk[c] \in Nat
      <3> SUFFICES ASSUME NEW c \in Channels PROVE onDisk[c] \in Nat
        OBVIOUS
      <3>1. onDisk[c] \in Resets \cup {0}
        OBVIOUS
      <3>2. Resets \subseteq Nat /\ 0 \in Nat
        BY OutcomesAssumption
      <3> QED
        BY <3>1, <3>2
    <2>3. now' \in Nat \ {0} /\ blocked' \in [Channels -> Nat]
      BY <2>2 DEF TypeOK, Reload
    <2>4. health' \in [Pairs -> Entry] /\ episode' \in [Pairs -> Seq(Failure)]
      BY <2>1 DEF Reload, EmptyHealth, EmptyEpisodes
    <2>5. preferred' \in [Groups \X Models -> Channels \cup {NoChannel}]
      BY DEF Reload, EmptyPreferred
    <2> QED
      BY <2>3, <2>4, <2>5 DEF TypeOK
  <1>2. ASSUME NEW p \in Pairs
        PROVE  EntryMatchesEpisode(p)' /\ ForgivenAcrossPause(p)'
    BY DEF Reload, EmptyHealth, EmptyEpisodes, NoFailures,
         EntryMatchesEpisode, ForgivenAcrossPause
  <1> QED
    BY <1>1, <1>2 DEF HealthMatchesEpisodes, ForgivenOnlyAcrossPauses

\* Time only widens the pause since the newest failure.
LEMMA TickIInv ==
  ASSUME IInv, Tick
  PROVE  IInv'
  <1> USE DEF IInv
  <1>1. now' = now + 1 /\ health' = health /\ episode' = episode
    BY DEF Tick, ledger
  <1>2. TypeOK'
    BY <1>1 DEF TypeOK, Tick, ledger
  <1>3. HealthMatchesEpisodes'
    BY <1>1 DEF HealthMatchesEpisodes, EntryMatchesEpisode
  <1>4. ASSUME NEW p \in Pairs
        PROVE  ForgivenAcrossPause(p)'
    <2>1. ForgivenAcrossPause(p)
      BY DEF ForgivenOnlyAcrossPauses
    <2>2. /\ health[p].fail \in Nat /\ episode[p] \in Seq(Failure)
          /\ now \in Nat /\ Cooldown \in Nat
      BY OutcomesAssumption DEF TypeOK, Entry
    <2>3. CASE health[p].fail = 0 /\ 0 < Len(episode[p])
      <3>1. episode[p][Len(episode[p])] \in Failure
        BY <2>2, <2>3
      <3>2. episode[p][Len(episode[p])].at \in Nat
        BY <3>1 DEF Failure
      <3> QED
        BY <1>1, <2>1, <2>2, <2>3, <3>2, SMTT(30) DEF ForgivenAcrossPause
    <2>4. CASE ~(health[p].fail = 0 /\ 0 < Len(episode[p]))
      BY <1>1, <2>1, <2>2, <2>4 DEF ForgivenAcrossPause
    <2> QED
      BY <2>3, <2>4
  <1> QED
    BY <1>2, <1>3, <1>4 DEF ForgivenOnlyAcrossPauses

-----------------------------------------------------------------------------
LEMMA NextIInv == IInv /\ [Next]_vars => IInv'
  <1> SUFFICES ASSUME IInv, [Next]_vars PROVE IInv'
    OBVIOUS
  <1>1. CASE Tick
    BY <1>1, TickIInv
  <1>2. ASSUME NEW p \in Pairs, RecordSuccess(p) PROVE IInv'
    BY <1>2, SuccessIInv
  <1>3. ASSUME NEW p \in Pairs, NEW kind \in FailureKinds, RecordFailure(p, kind)
        PROVE IInv'
    BY <1>3, FailureIInv
  <1>4. ASSUME NEW p \in Pairs, NEW checkHealth \in BOOLEAN,
               CheckAdmission(p, checkHealth)
        PROVE IInv'
    BY <1>4, AdmissionIInv
  <1>5. ASSUME NEW c \in Channels, NEW reset \in Resets, RecordQuotaWindow(c, reset)
        PROVE IInv'
    <2>1. TypeOK'
      BY <1>5, OutcomesAssumption DEF IInv, TypeOK, RecordQuotaWindow
    <2> QED
      BY <1>5, <2>1, Untouched DEF IInv, RecordQuotaWindow
  <1>6. ASSUME NEW c \in Channels, NEW g \in Groups, NEW m \in Models,
               RememberPreferred(g, m, c)
        PROVE IInv'
    <2>1. TypeOK'
      BY <1>6 DEF IInv, TypeOK, RememberPreferred
    <2> QED
      BY <1>6, <2>1, Untouched DEF IInv, RememberPreferred
  <1>7. ASSUME NEW c \in Channels, ClearPermanent(c) PROVE IInv'
    BY <1>7, ClearPermanentIInv
  <1>8. ASSUME NEW c \in Channels, RemoveChannel(c) PROVE IInv'
    BY <1>8, RemoveChannelIInv
  <1>9. ASSUME NEW onDisk \in [Channels -> Resets \cup {0}], Reload(onDisk)
        PROVE IInv'
    BY <1>9, ReloadIInv
  <1>10. CASE UNCHANGED vars
    <2>1. TypeOK'
      BY <1>10 DEF IInv, TypeOK, vars, ledger
    <2> QED
      BY <1>10, <2>1, Untouched DEF IInv, vars, ledger
  <1> QED
    BY <1>1, <1>2, <1>3, <1>4, <1>5, <1>6, <1>7, <1>8, <1>9, <1>10
       DEF Next, RecordCancelled

LEMMA SpecIInv == Spec => []IInv
  BY InitIInv, NextIInv, PTL DEF Spec

\* Every entry keeps its type: the counts stay natural numbers, a preference
\* names a channel or nothing (outcomes.py, _HealthEntry and _preferred).
THEOREM TypeCorrect == Spec => []TypeOK
  <1>1. IInv => TypeOK
    BY DEF IInv
  <1> QED
    BY <1>1, SpecIInv, PTL

\* The incrementally kept entry of a pair is what its failures since the last
\* success amount to (outcomes.py, record and is_healthy).
THEOREM EntriesExact == Spec => []HealthMatchesEpisodes
  <1>1. IInv => HealthMatchesEpisodes
    BY DEF IInv
  <1> QED
    BY <1>1, SpecIInv, PTL

\* A burst of failures has the circuit open, and nothing less does
\* (outcomes.py, is_healthy).
THEOREM CircuitSound == Spec => []BurstOpensCircuit
  <1>1. IInv => BurstOpensCircuit
    <2> SUFFICES ASSUME IInv, NEW p \in Pairs
                 PROVE  /\ Burst(p) => ~IsHealthy(p)
                        /\ ~IsHealthy(p) =>
                             /\ Len(episode[p]) >= MaxFailCount
                             /\ now - episode[p][Len(episode[p])].at <= Cooldown
      BY DEF BurstOpensCircuit
    <2> DEFINE ep == episode[p]
               n  == Len(ep)
               k  == health[p].fail
    <2>1. /\ k \in Nat /\ n \in Nat /\ now \in Nat /\ MaxFailCount \in Nat \ {0}
          /\ Cooldown \in Nat /\ ep \in Seq(Failure)
      BY OutcomesAssumption DEF IInv, TypeOK, Entry
    <2>2. EntryMatchesEpisode(p) /\ ForgivenAcrossPause(p)
      BY DEF IInv, HealthMatchesEpisodes, ForgivenOnlyAcrossPauses
    <2>3. ASSUME NEW i \in 1..n PROVE ep[i].at \in Nat
      <3>1. ep[i] \in Failure
        BY <2>1
      <3> QED
        BY <3>1 DEF Failure
    <2>4. ASSUME Burst(p) PROVE ~IsHealthy(p)
      <3>1. n >= MaxFailCount /\ n >= 1 /\ now - ep[n].at <= Cooldown
        BY <2>1, <2>4 DEF Burst
      <3>2. k >= MaxFailCount
        <4> SUFFICES ASSUME k < MaxFailCount PROVE FALSE
          BY <2>1
        <4>1. k < n
          BY <2>1, <3>1
        <4>2. CASE k = 0
          BY <2>1, <2>2, <2>3, <3>1, <4>1, <4>2, SMTT(30) DEF ForgivenAcrossPause
        <4>3. CASE k # 0
          <5>1. n - k \in (n - MaxFailCount + 1)..(n - 1)
            BY <2>1, <4>1, <4>3
          <5>2. ep[n - k + 1].at - ep[n - k].at <= Cooldown
            BY <2>4, <5>1 DEF Burst
          <5>3. ep[n - k + 1].at - ep[n - k].at > Cooldown
            BY <2>2, <4>1, <4>3 DEF ForgivenAcrossPause
          <5>4. n - k \in 1..n /\ n - k + 1 \in 1..n
            BY <2>1, <4>1, <4>3, SMTT(30)
          <5>5. PICK a \in Nat : a = ep[n - k].at
            BY <2>3, <5>4
          <5>6. PICK b \in Nat : b = ep[n - k + 1].at
            BY <2>3, <5>4
          <5>7. b - a <= Cooldown /\ b - a > Cooldown
            <6> HIDE DEF ep
            <6> QED
              BY <5>2, <5>3, <5>5, <5>6
          <5> QED
            BY <2>1, <5>7
        <4> QED
          BY <4>2, <4>3
      <3>3. health[p].lastFail = ep[n].at
        BY <2>1, <2>2, <3>2 DEF EntryMatchesEpisode
      <3> QED
        BY <3>1, <3>2, <3>3 DEF IsHealthy, CircuitOpen
    <2>5. ASSUME ~IsHealthy(p)
          PROVE  n >= MaxFailCount /\ now - ep[n].at <= Cooldown
      <3>1. k >= MaxFailCount /\ now - health[p].lastFail <= Cooldown
        BY <2>5 DEF IsHealthy, CircuitOpen
      <3>2. k <= n /\ health[p].lastFail = ep[n].at
        BY <2>1, <2>2, <3>1 DEF EntryMatchesEpisode
      <3> QED
        BY <2>1, <3>1, <3>2
    <2> QED
      BY <2>4, <2>5
  <1> QED
    BY <1>1, SpecIInv, PTL

-----------------------------------------------------------------------------
(* The views: each step of the ledger is one of LedgerViews or changes none *)

unhealthy == {p \in Pairs : ~IsHealthy(p)}
permanent == {p \in Pairs : health[p].permanent}
degraded  == {p \in Pairs : IsDegraded(p)}
closed    == {c \in Channels : IsBlocked(c)}

\* A pair whose entry and clock a step leaves alone is seen as before.
LEMMA SamePairSameViews ==
  ASSUME NEW p \in Pairs, health'[p] = health[p], now' = now
  PROVE  /\ IsHealthy(p)' <=> IsHealthy(p)
         /\ IsDegraded(p)' <=> IsDegraded(p)
         /\ health'[p].permanent <=> health[p].permanent
  BY DEF IsHealthy, IsDegraded, CircuitOpen

\* Every pair is one of a channel.
LEMMA PairHasChannel ==
  ASSUME NEW p \in Pairs
  PROVE  p[2] \in Channels
  BY DEF Pairs

LEMMA InitViews == Init => Views!Init
  BY OutcomesAssumption DEF Init, Views!Init, EmptyHealth, NoFailures, IsHealthy,
     IsDegraded, IsBlocked, CircuitOpen, EmptyPreferred, Views!EmptyPreferred

-----------------------------------------------------------------------------
(* One step per operation *)

LEMMA TickViews ==
  ASSUME TypeOK, Tick
  PROVE  Views!TimePasses
  <1>1. ASSUME NEW p \in Pairs, ~IsHealthy(p)'
        PROVE  ~IsHealthy(p)
    <2>1. health[p].lastFail \in Nat /\ now \in Nat /\ Cooldown \in Nat
      BY OutcomesAssumption DEF TypeOK, Entry
    <2>2. now' = now + 1 /\ health' = health
      BY DEF Tick, ledger
    <2> QED
      BY <1>1, <2>1, <2>2 DEF IsHealthy, CircuitOpen
  <1>2. ASSUME NEW c \in Channels, IsBlocked(c)'
        PROVE  IsBlocked(c)
    <2>1. blocked[c] \in Nat /\ now \in Nat
      BY DEF TypeOK
    <2>2. now' = now + 1 /\ blocked' = blocked
      BY DEF Tick, ledger
    <2> QED
      BY <1>2, <2>1, <2>2 DEF IsBlocked
  <1>3. degraded' = degraded /\ permanent' = permanent /\ preferred' = preferred
    BY DEF Tick, ledger, degraded, permanent, IsDegraded
  <1>4. unhealthy' \in SUBSET unhealthy
    BY <1>1 DEF unhealthy
  <1>5. closed' \in SUBSET closed
    BY <1>2 DEF closed
  <1> QED
    BY <1>3, <1>4, <1>5 DEF Views!TimePasses, unhealthy, degraded, permanent, closed

\* The views of all pairs but p stay when only p's entry changes.
LEMMA OthersKeepViews ==
  ASSUME NEW p \in Pairs, now' = now,
         \A q \in Pairs : q # p => health'[q] = health[q]
  PROVE  \A q \in Pairs : q # p =>
           /\ IsHealthy(q)' <=> IsHealthy(q)
           /\ IsDegraded(q)' <=> IsDegraded(q)
           /\ health'[q].permanent <=> health[q].permanent
  BY SamePairSameViews

LEMMA SuccessViews ==
  ASSUME TypeOK, NEW p \in Pairs, RecordSuccess(p)
  PROVE  Views!Succeeded(p)
  <1>1. now' = now /\ blocked' = blocked /\ preferred' = preferred
    BY DEF RecordSuccess
  <1>2. health'[p] = [NoFailures EXCEPT !.lastFail = health[p].lastFail]
    BY DEF RecordSuccess, TypeOK
  <1>3. IsHealthy(p)' /\ ~IsDegraded(p)' /\ ~health'[p].permanent
    BY <1>2, OutcomesAssumption DEF IsHealthy, CircuitOpen, IsDegraded, NoFailures
  <1>4. \A q \in Pairs : q # p => health'[q] = health[q]
    BY DEF RecordSuccess, TypeOK
  <1>5. \A q \in Pairs : q # p =>
           /\ IsHealthy(q)' <=> IsHealthy(q)
           /\ IsDegraded(q)' <=> IsDegraded(q)
           /\ health'[q].permanent <=> health[q].permanent
    BY <1>1, <1>4, OthersKeepViews
  <1>6. unhealthy' = unhealthy \ {p}
    BY <1>3, <1>5 DEF unhealthy
  <1>7. degraded' = degraded \ {p}
    BY <1>3, <1>5 DEF degraded
  <1>8. permanent' = permanent \ {p}
    BY <1>3, <1>5 DEF permanent
  <1>9. closed' = closed
    BY <1>1 DEF closed, IsBlocked
  <1> QED
    BY <1>1, <1>6, <1>7, <1>8, <1>9
       DEF Views!Succeeded, unhealthy, degraded, permanent, closed

\* A failure on an open circuit keeps it open: it is the newest, and counted.
LEMMA FailureViews ==
  ASSUME TypeOK, NEW p \in Pairs, NEW kind \in FailureKinds, RecordFailure(p, kind)
  PROVE  Views!FailedWith(p, kind)
  <1>1. now' = now /\ blocked' = blocked /\ preferred' = preferred
    BY DEF RecordFailure
  <1>2. health'[p] = Failed(health[p], kind)
    BY DEF RecordFailure, TypeOK
  <1>3. health[p] \in Entry /\ now \in Nat
    BY DEF TypeOK
  <1>4. IsDegraded(p)'
    BY <1>2 DEF IsDegraded, Failed
  <1>5. health'[p].permanent <=> health[p].permanent \/ kind = "http_4xx_config"
    <2>1. Failed(health[p], kind).permanent
            = (health[p].permanent \/ kind = "http_4xx_config")
      BY DEF Failed
    <2> QED
      BY <1>2, <2>1
  <1>6. ASSUME ~IsHealthy(p)
        PROVE  ~IsHealthy(p)'
    <2>1. health'[p].fail = health[p].fail + 1 /\ health'[p].lastFail = now
      BY <1>2 DEF Failed
    <2>2. health[p].fail \in Nat /\ health[p].fail >= MaxFailCount
      BY <1>3, <1>6 DEF IsHealthy, CircuitOpen, Entry
    <2>3. now - now <= Cooldown
      BY <1>3, OutcomesAssumption
    <2> QED
      BY <1>1, <2>1, <2>2, <2>3, OutcomesAssumption DEF IsHealthy, CircuitOpen
  <1>7. \A q \in Pairs : q # p => health'[q] = health[q]
    BY DEF RecordFailure, TypeOK
  <1>8. \A q \in Pairs : q # p =>
           /\ IsHealthy(q)' <=> IsHealthy(q)
           /\ IsDegraded(q)' <=> IsDegraded(q)
           /\ health'[q].permanent <=> health[q].permanent
    BY <1>1, <1>7, OthersKeepViews
  <1>9. unhealthy' \in {unhealthy, unhealthy \cup {p}}
    <2>1. CASE IsHealthy(p)'
      <3>1. IsHealthy(p)
        BY <1>6, <2>1
      <3>2. unhealthy' = unhealthy
        BY <1>8, <2>1, <3>1 DEF unhealthy
      <3> QED
        BY <3>2
    <2>2. CASE ~IsHealthy(p)'
      <3>1. unhealthy' = unhealthy \cup {p}
        BY <1>8, <2>2 DEF unhealthy
      <3> QED
        BY <3>1
    <2> QED
      BY <2>1, <2>2
  <1>10. degraded' = degraded \cup {p}
    BY <1>4, <1>8 DEF degraded
  <1>11. permanent' = IF kind = "http_4xx_config" THEN permanent \cup {p} ELSE permanent
    BY <1>5, <1>8 DEF permanent
  <1>12. closed' = closed
    BY <1>1 DEF closed, IsBlocked
  <1> QED
    BY <1>1, <1>9, <1>10, <1>11, <1>12
       DEF Views!FailedWith, unhealthy, degraded, permanent, closed

\* The window announced last decides whether the channel is closed.
LEMMA QuotaWindowViews ==
  ASSUME TypeOK, NEW c \in Channels, NEW reset \in Resets, RecordQuotaWindow(c, reset)
  PROVE  Views!OutOfQuota(c)
  <1>1. now' = now /\ health' = health /\ preferred' = preferred
    BY DEF RecordQuotaWindow
  <1>2. \A d \in Channels : d # c => blocked'[d] = blocked[d]
    BY DEF RecordQuotaWindow, TypeOK
  <1>3. unhealthy' = unhealthy /\ degraded' = degraded /\ permanent' = permanent
    BY <1>1 DEF unhealthy, degraded, permanent, IsHealthy, CircuitOpen, IsDegraded
  <1>4. \A d \in Channels : d # c => (IsBlocked(d)' <=> IsBlocked(d))
    BY <1>1, <1>2 DEF IsBlocked
  <1>5. CASE IsBlocked(c)'
    <2>1. closed' = closed \cup {c}
      BY <1>4, <1>5 DEF closed
    <2> QED
      BY <1>1, <1>3, <2>1
         DEF Views!OutOfQuota, unhealthy, degraded, permanent, closed
  <1>6. CASE ~IsBlocked(c)'
    <2>1. closed' = closed \ {c}
      BY <1>4, <1>6 DEF closed
    <2> QED
      BY <1>1, <1>3, <2>1
         DEF Views!OutOfQuota, unhealthy, degraded, permanent, closed
  <1> QED
    BY <1>5, <1>6

\* Forgiving closes no circuit that was open, and drops no degradation.
LEMMA ForgivenSameViews ==
  ASSUME TypeOK, NEW p \in Pairs, now' = now, health'[p] = Forgiven(health[p])
  PROVE  /\ IsHealthy(p)' <=> IsHealthy(p)
         /\ IsDegraded(p)' <=> IsDegraded(p)
         /\ health'[p].permanent <=> health[p].permanent
  <1>1. CASE CooledDown(health[p])
    <2>1. health[p] \in Entry /\ now \in Nat
      BY DEF TypeOK
    <2>2. health'[p] = [health[p] EXCEPT !.fail = 0, !.lastFail = 0]
      BY <1>1 DEF Forgiven
    <2>3. health'[p].fail = 0 /\ health'[p].degraded = health[p].degraded
          /\ health'[p].permanent = health[p].permanent
      BY <2>1, <2>2 DEF Entry
    <2>4. IsHealthy(p)'
      BY <2>3, OutcomesAssumption DEF IsHealthy, CircuitOpen
    <2>5. now - health[p].lastFail > Cooldown
      BY <1>1 DEF CooledDown
    <2>6. health[p].lastFail \in Nat
      BY <2>1 DEF Entry
    <2>7. IsHealthy(p)
      BY <2>1, <2>5, <2>6, OutcomesAssumption DEF IsHealthy, CircuitOpen
    <2> QED
      BY <2>3, <2>4, <2>7 DEF IsDegraded
  <1>2. CASE ~CooledDown(health[p])
    BY <1>2, SamePairSameViews DEF Forgiven
  <1> QED
    BY <1>1, <1>2

\* Asking forgets what no view shows.
LEMMA CheckAdmissionViews ==
  ASSUME TypeOK, NEW p \in Pairs, NEW checkHealth \in BOOLEAN,
         CheckAdmission(p, checkHealth)
  PROVE  UNCHANGED Views!views
  <1>1. now' = now /\ preferred' = preferred
    BY DEF CheckAdmission
  <1>2. p[2] \in Channels
    BY PairHasChannel
  <1>3. ASSUME NEW c \in Channels
        PROVE  IsBlocked(c)' <=> IsBlocked(c)
    <2>1. blocked'[c] = blocked[c] \/ (~IsBlocked(c) /\ blocked'[c] = 0)
      <3>1. blocked' = [blocked EXCEPT ![p[2]] = IF IsBlocked(p[2]) THEN @ ELSE 0]
        BY DEF CheckAdmission
      <3>2. c # p[2] => blocked'[c] = blocked[c]
        BY <3>1 DEF TypeOK
      <3>3. blocked'[p[2]] = IF IsBlocked(p[2]) THEN blocked[p[2]] ELSE 0
        BY <1>2, <3>1 DEF TypeOK
      <3> QED
        BY <3>2, <3>3
    <2>2. now \in Nat /\ ~(0 > now)
      BY DEF TypeOK
    <2> QED
      BY <1>1, <2>1, <2>2 DEF IsBlocked
  <1>4. ASSUME NEW q \in Pairs
        PROVE  /\ IsHealthy(q)' <=> IsHealthy(q)
               /\ IsDegraded(q)' <=> IsDegraded(q)
               /\ health'[q].permanent <=> health[q].permanent
    <2>1. health'[q] = health[q] \/ health'[q] = Forgiven(health[q])
      <3>1. health' = health \/ health' = [health EXCEPT ![p] = Forgiven(@)]
        BY DEF CheckAdmission
      <3> QED
        BY <3>1 DEF TypeOK
    <2> QED
      BY <1>1, <2>1, SamePairSameViews, ForgivenSameViews
  <1>5. unhealthy' = unhealthy /\ degraded' = degraded /\ permanent' = permanent
    BY <1>4 DEF unhealthy, degraded, permanent
  <1>6. closed' = closed
    BY <1>3 DEF closed
  <1> QED
    BY <1>1, <1>5, <1>6
       DEF Views!views, unhealthy, degraded, permanent, closed

LEMMA PreferredViews ==
  ASSUME NEW g \in Groups, NEW m \in Models, NEW c \in Channels, RememberPreferred(g, m, c)
  PROVE  Views!Preferred(g, m, c)
  BY DEF RememberPreferred, Views!Preferred, IsHealthy, CircuitOpen, IsDegraded, IsBlocked

LEMMA ClearPermanentViews ==
  ASSUME TypeOK, NEW c \in Channels, ClearPermanent(c)
  PROVE  Views!Reconfigured(c)
  <1>1. now' = now /\ blocked' = blocked /\ preferred' = preferred
    BY DEF ClearPermanent
  <1>2. ASSUME NEW q \in Pairs
        PROVE  /\ IsHealthy(q)' <=> IsHealthy(q)
               /\ IsDegraded(q)' <=> IsDegraded(q)
               /\ health'[q].permanent <=> health[q].permanent /\ q[2] # c
    <2>1. CASE q[2] = c
      <3>1. health'[q] = [health[q] EXCEPT !.permanent = FALSE]
        BY <2>1 DEF ClearPermanent
      <3>2. health[q] \in Entry
        BY DEF TypeOK
      <3>3. health'[q].fail = health[q].fail /\ health'[q].lastFail = health[q].lastFail
            /\ health'[q].degraded = health[q].degraded /\ ~health'[q].permanent
        BY <3>1, <3>2 DEF Entry
      <3>4. IsHealthy(q)' <=> IsHealthy(q)
        BY <1>1, <3>3 DEF IsHealthy, CircuitOpen
      <3> QED
        BY <2>1, <3>3, <3>4 DEF IsDegraded
    <2>2. CASE q[2] # c
      <3>1. health'[q] = health[q]
        BY <2>2 DEF ClearPermanent
      <3> QED
        BY <1>1, <2>2, <3>1, SamePairSameViews
    <2> QED
      BY <2>1, <2>2
  <1>3. unhealthy' = unhealthy /\ degraded' = degraded
    BY <1>2 DEF unhealthy, degraded
  <1>4. permanent' = permanent \ Views!Of(permanent, c)
    BY <1>2 DEF permanent, Views!Of
  <1>5. closed' = closed
    BY <1>1 DEF closed, IsBlocked
  <1> QED
    BY <1>1, <1>3, <1>4, <1>5
       DEF Views!Reconfigured, unhealthy, degraded, permanent, closed

LEMMA RemoveChannelViews ==
  ASSUME TypeOK, NEW c \in Channels, RemoveChannel(c)
  PROVE  Views!Removed(c)
  <1>1. now' = now
    BY DEF RemoveChannel
  <1>2. \A q \in Pairs : q[2] # c => health'[q] = health[q]
    BY DEF RemoveChannel
  <1>3. \A q \in Pairs : q[2] = c =>
          IsHealthy(q)' /\ ~IsDegraded(q)' /\ ~health'[q].permanent
    <2> SUFFICES ASSUME NEW q \in Pairs, q[2] = c
                 PROVE  IsHealthy(q)' /\ ~IsDegraded(q)' /\ ~health'[q].permanent
      OBVIOUS
    <2>1. health'[q] = NoFailures
      BY DEF RemoveChannel
    <2> QED
      BY <2>1, OutcomesAssumption DEF IsHealthy, CircuitOpen, IsDegraded, NoFailures
  <1>4. \A q \in Pairs : q[2] # c =>
          /\ IsHealthy(q)' <=> IsHealthy(q)
          /\ IsDegraded(q)' <=> IsDegraded(q)
          /\ health'[q].permanent <=> health[q].permanent
    BY <1>1, <1>2, SamePairSameViews
  <1>5. unhealthy' = unhealthy \ Views!Of(unhealthy, c)
    BY <1>3, <1>4 DEF unhealthy, Views!Of
  <1>6. degraded' = degraded \ Views!Of(degraded, c)
    BY <1>3, <1>4 DEF degraded, Views!Of
  <1>7. permanent' = permanent \ Views!Of(permanent, c)
    BY <1>3, <1>4 DEF permanent, Views!Of
  <1>8. closed' = closed \ {c}
    <2>1. blocked'[c] = 0 /\ (\A d \in Channels : d # c => blocked'[d] = blocked[d])
      BY DEF RemoveChannel, TypeOK
    <2>2. now \in Nat /\ ~(0 > now)
      BY DEF TypeOK
    <2>3. ~IsBlocked(c)' /\ (\A d \in Channels : d # c => (IsBlocked(d)' <=> IsBlocked(d)))
      BY <1>1, <2>1, <2>2 DEF IsBlocked
    <2> QED
      BY <2>3 DEF closed
  <1>9. preferred' = [gm \in Groups \X Models |->
                        IF preferred[gm] = c THEN NoChannel ELSE preferred[gm]]
    BY DEF RemoveChannel
  <1> QED
    BY <1>5, <1>6, <1>7, <1>8, <1>9
       DEF Views!Removed, unhealthy, degraded, permanent, closed

LEMMA ReloadViews ==
  ASSUME NEW onDisk, Reload(onDisk)
  PROVE  Views!Restarted
  <1>1. \A p \in Pairs : health'[p] = NoFailures
    BY DEF Reload, EmptyHealth
  <1>2. \A p \in Pairs : IsHealthy(p)' /\ ~IsDegraded(p)' /\ ~health'[p].permanent
    BY <1>1, OutcomesAssumption DEF IsHealthy, CircuitOpen, IsDegraded, NoFailures
  <1>3. unhealthy' = {} /\ degraded' = {} /\ permanent' = {}
    BY <1>2 DEF unhealthy, degraded, permanent
  <1>4. closed' \in SUBSET Channels
    BY DEF closed
  <1>5. preferred' = Views!EmptyPreferred
    BY DEF Reload, EmptyPreferred, Views!EmptyPreferred
  <1> QED
    BY <1>3, <1>4, <1>5 DEF Views!Restarted, unhealthy, degraded, permanent, closed

-----------------------------------------------------------------------------
LEMMA SamePairs == Views!Pairs = Pairs /\ Views!FailureKinds = FailureKinds
  BY DEF Pairs, Views!Pairs, FailureKinds, Views!FailureKinds

LEMMA StutterViews == UNCHANGED vars => UNCHANGED Views!views
  BY DEF vars, ledger, Views!views, IsHealthy, CircuitOpen, IsDegraded, IsBlocked

LEMMA NextViews == TypeOK /\ [Next]_vars => [Views!Next]_Views!views
  <1> SUFFICES ASSUME TypeOK, [Next]_vars
               PROVE  Views!Next \/ UNCHANGED Views!views
    OBVIOUS
  <1>1. CASE Tick
    BY <1>1, TickViews DEF Views!Next, Views!Others
  <1>2. ASSUME NEW p \in Pairs, RecordSuccess(p)
        PROVE  Views!Next
    BY <1>2, SuccessViews, SamePairs DEF Views!Next, Views!Others
  <1>3. ASSUME NEW p \in Pairs, NEW kind \in FailureKinds, RecordFailure(p, kind)
        PROVE  Views!Next
    BY <1>3, FailureViews, SamePairs DEF Views!Next, Views!Others
  <1>4. CASE RecordCancelled
    BY <1>4, StutterViews DEF RecordCancelled
  <1>5. ASSUME NEW p \in Pairs, NEW checkHealth \in BOOLEAN, CheckAdmission(p, checkHealth)
        PROVE  UNCHANGED Views!views
    BY <1>5, CheckAdmissionViews
  <1>6. ASSUME NEW c \in Channels, NEW reset \in Resets, RecordQuotaWindow(c, reset)
        PROVE  Views!Next
    BY <1>6, QuotaWindowViews DEF Views!Next, Views!Others
  <1>7. ASSUME NEW c \in Channels, NEW g \in Groups, NEW m \in Models,
               RememberPreferred(g, m, c)
        PROVE  Views!Next
    BY <1>7, PreferredViews DEF Views!Next, Views!Others
  <1>8. ASSUME NEW c \in Channels, ClearPermanent(c)
        PROVE  Views!Next
    BY <1>8, ClearPermanentViews DEF Views!Next, Views!Others
  <1>9. ASSUME NEW c \in Channels, RemoveChannel(c)
        PROVE  Views!Next
    BY <1>9, RemoveChannelViews DEF Views!Next, Views!Others
  <1>10. ASSUME NEW onDisk, Reload(onDisk)
         PROVE  Views!Next
    BY <1>10, ReloadViews DEF Views!Next
  <1>11. CASE UNCHANGED vars
    BY <1>11, StutterViews
  <1> QED
    BY <1>1, <1>2, <1>3, <1>4, <1>5, <1>6, <1>7, <1>8, <1>9, <1>10, <1>11 DEF Next

\* The ledger behaves as its readers are promised (LedgerViews): an event changes
\* the views of its own channel alone, a read that forgets expired state changes
\* none, and time heals circuits and windows but never a degradation
\* (outcomes.py, record, is_healthy, is_blocked and admits).
THEOREM LedgerImplementsViews == Spec => ImplementsViews
  <1>1. TypeOK /\ [Next]_vars => [Views!Next]_Views!views
    BY NextViews
  <1> QED
    BY <1>1, InitViews, TypeCorrect, PTL DEF Spec, ImplementsViews, Views!Spec
=============================================================================
