--------------------------- MODULE MCProvisioning ---------------------------
(* Small instance of Provisioning for TLC; the values are in the cfg files. *)
EXTENDS Provisioning
=============================================================================
