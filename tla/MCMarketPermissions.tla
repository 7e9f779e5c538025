------------------------- MODULE MCMarketPermissions -------------------------
(* Small instance of MarketPermissions: a lax rule and a strict one.         *)
EXTENDS MarketPermissions, TLC

Poor == [assets |-> 0, months |-> 1]
Rich == [assets |-> 1, months |-> 1]
Lax == [assets |-> 0, months |-> 0, disclosure |-> "d1"]
Strict == [assets |-> 1, months |-> 1, disclosure |-> "d2"]

Profiles == {Poor, Rich}
Disclosures == {"d1", "d2"}

CONSTANT main
Rules == [m \in Market |-> IF m = main THEN {Lax} ELSE {Lax, Strict}]

PermissionSymmetry == Permutations(Request) \union Permutations(Key)
=============================================================================
