---------------------------- MODULE MCWifiDriver ----------------------------
(* Instances of WifiDriver for TLC. *)
EXTENDS WifiDriver
=============================================================================
