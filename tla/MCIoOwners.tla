----------------------------- MODULE MCIoOwners -----------------------------
(* Instances of IoOwners for TLC: the values are in the cfg files. *)
EXTENDS IoOwners
=============================================================================
