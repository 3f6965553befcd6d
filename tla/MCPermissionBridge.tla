------------------------- MODULE MCPermissionBridge -------------------------
(* Values for checking PermissionBridge: two commands of the same tool in one *)
(* turn; the row of the second may land after its request.                    *)
EXTENDS PermissionBridge

CONSTANTS a, b

SameTool(c) == "bash"
=============================================================================
