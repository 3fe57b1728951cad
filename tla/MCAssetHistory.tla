--------------------------- MODULE MCAssetHistory ---------------------------
(* Values for model checking AssetHistory: two routes and a chain.          *)
EXTENDS AssetHistory
CONSTANTS c1, c2
r1 == <<"route", 1>>
r2 == <<"route", 2>>
chain == <<"chain", 1>>
ThreeIdentities == <<r2, chain, r1>>
FourSnapshots ==
  { [id \in {r1} |-> c1],
    [id \in {r1, chain} |-> IF id = r1 THEN c2 ELSE c1],
    [id \in {r1, r2, chain} |-> c1],
    [id \in {r2} |-> c2] }
=============================================================================
