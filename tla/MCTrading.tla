------------------------------ MODULE MCTrading ------------------------------
(***************************************************************************)
(* The account that trades and its permissions, checked in one run: each   *)
(* behaviour follows one of them while the other rests in an initial       *)
(* state.  What they share is the account: the permissions see of it that  *)
(* it is reset and that orders ask for the entitlement.                    *)
(***************************************************************************)
EXTENDS MCPaperTrading, MCMarketPermissions

VARIABLE followed

TradingInit ==
  /\ followed \in {"account", "permissions"}
  /\ PaperInit /\ PermissionsInit
  \* one graph for the behaviours that follow another component
  /\ followed # "permissions" => \A m \in Market : rules[m] = Lax

TradingNext ==
  /\ UNCHANGED followed
  /\ \/ followed = "account" /\ PaperNext /\ UNCHANGED permissionVars
     \/ followed = "permissions" /\ PermissionsNext /\ UNCHANGED paperVars

TradingSpec == TradingInit /\ [][TradingNext]_<<followed, paperVars, permissionVars>>

TradingSymmetry == OrderSymmetry \union PermissionSymmetry
=============================================================================
