---------------------------- MODULE MCEntInvite ----------------------------
(* EntInvite with the constants of the configurations.                        *)
EXTENDS EntInvite
=============================================================================
