----------------------------- MODULE MCResponses -----------------------------
(* Three turns, of one conversation or of several, in a store of one or two    *)
(* records that live for one or two ticks.                                     *)
EXTENDS StatefulResponses

MCSettings == {[ttl |-> 1, capacity |-> 2], [ttl |-> 2, capacity |-> 1]}
=============================================================================
