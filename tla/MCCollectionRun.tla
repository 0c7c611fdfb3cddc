-------------------------- MODULE MCCollectionRun --------------------------
(* Instance of CollectionRun for TLC. *)
EXTENDS CollectionRun, TLC

CONSTANTS c1, c2, s1, s2, o1

MCConfigs == {c1, c2}
MCScopeOf == (c1 :> {s1, s2}) @@ (c2 :> {s1})
MCMaxRunsOf == (c1 :> 1) @@ (c2 :> 2)
MCShops == {s1, s2}
MCOperators == {o1}
=============================================================================
