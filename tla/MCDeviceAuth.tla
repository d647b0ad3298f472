----------------------------- MODULE MCDeviceAuth ---------------------------
(* An instance of DeviceAuth for TLC.                                      *)
EXTENDS DeviceAuth
=============================================================================
