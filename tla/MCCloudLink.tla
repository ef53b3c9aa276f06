---------------------------- MODULE MCCloudLink ----------------------------
(* The instances are given by the configurations.                          *)
EXTENDS CloudLink
=============================================================================
