--------------------------- MODULE MCLoadBalancer ---------------------------
(* Small instances of LoadBalancer: three sessions over a cache of one or two  *)
(* entries and channels that differ in priority or not; three channels of      *)
(* weight one to three taking turns, without sessions.                         *)
EXTENDS LoadBalancer, TLC

CONSTANTS s1, s2, s3

MCHash == (s1 :> <<1, 2, 3>>) @@ (s2 :> <<3, 2, 1>>) @@ (s3 :> <<1, 2, 3>>)

Config(s, t, n) == [strategy |-> s, ttl |-> t, capacity |-> n]

MCConfigs == {Config("sticky", 2, 1), Config("sticky", 2, 2), Config("sticky", 3, 2),
              Config("backup", 2, 2), Config("round_robin", 2, 2)}

MCScenarios ==
  {[priority |-> <<1, 1, 2>>, weights |-> {<<1, 2, 1>>},
    sessions |-> {s1, s2, s3}, rotating |-> FALSE],
   [priority |-> <<1, 1, 1>>, weights |-> [Catalog -> Weights],
    sessions |-> {}, rotating |-> TRUE]}
=============================================================================
