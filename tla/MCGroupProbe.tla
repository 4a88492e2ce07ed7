----------------------------- MODULE MCGroupProbe -----------------------------
(* Small instances of GroupProbe.                                             *)
EXTENDS GroupProbe, TLC

CONSTANTS c1, c2, m1, g1

MCModels    == {m1}
MCChannels  == {c1, c2}
MCGroups    == {g1}
MCLists     == g1 :> {m1}
MCRank      == c1 :> 1 @@ c2 :> 2
MCEndpoints == c1 :> 2 @@ c2 :> 1
=============================================================================
