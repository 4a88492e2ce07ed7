-------------------------- MODULE MCUpstreamCatalog --------------------------
(* A small instance of UpstreamCatalog: two built-in revisions, one published *)
(* in three variants, of which one lacks a profile and one has conflicts.     *)
EXTENDS UpstreamCatalog, TLC

CONSTANTS b2, b1, x, y, z, p, q, c1

MCRevisionOf == (b2 :> "builtin-2") @@ (b1 :> "builtin-1") @@ (x :> "new") @@ (y :> "new") @@ (z :> "new")
MCProfilesOf == (b2 :> {p}) @@ (b1 :> {p}) @@ (x :> {p, q}) @@ (y :> {q}) @@ (z :> {p, q})
=============================================================================
