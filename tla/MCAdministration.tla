-------------------------- MODULE MCAdministration --------------------------
(* One channel and two model groups that may want the same name, two requests  *)
(* and two changes of the settings, and three events in all.                   *)
EXTENDS Administration, TLC

CONSTANTS c, g, h, u1, u2, n1, r1, r2, p1, p2

MCFile(url, odd, old, legacy) ==
  [entries |-> [id \in Ids |-> IF id = c /\ url # Absent THEN [key |-> url, on |-> TRUE] ELSE Absent],
   odd |-> odd, old |-> old, legacy |-> legacy]

MCFiles == {Missing, Corrupt, MCFile(u2, TRUE, TRUE, 2)}
MCStored == {[timeout |-> 2, limit |-> 1]}
MCChanges == {[timeout |-> 1, limit |-> 2], [timeout |-> 2, limit |-> Same]}
MCSymmetry == Permutations({r1, r2}) \cup Permutations({p1, p2}) \cup Permutations({g, h})

\* When both requests have begun, only what reaches the pool is begun: changes and
\* deletions of channels, changes of the settings and crashes.
OneUnbegun == \E r \in Requests : request[r].at = "ready"
ReachesPool ==
  /\ op = NoOp /\ op' # NoOp => op'.ask.id \in Channels /\ op'.ask.kind \in {"update", "delete"}
  /\ op' = op /\ up' = up => signature' = signature

MCSpec == Init /\ [][Next /\ (OneUnbegun \/ ReachesPool)]_vars
=============================================================================
