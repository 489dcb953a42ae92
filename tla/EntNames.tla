------------------------------ MODULE EntNames ------------------------------
(* Names the modules of the enterprise records have in common.                *)
CONSTANTS Invites,   \* invite tokens
          Requests,  \* invocations that can be under way at the same time
          None

ASSUME NoneIsNobody == None \notin Invites
=============================================================================
