---------------------------- MODULE MCRequestLogs ----------------------------
(* Small instances of RequestLogs: months of two days, two writers that meet  *)
(* at the turn of the month, three ways of keeping rows and raw fields.       *)
EXTENDS RequestLogs, TLC

MCPolicies == {[rows |-> 1, raw |-> 0], [rows |-> 2, raw |-> 1], [rows |-> 0, raw |-> 1]}
WriterSymmetry == Permutations(Writers)
=============================================================================
