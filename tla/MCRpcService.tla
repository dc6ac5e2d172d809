---------------------------- MODULE MCRpcService ----------------------------
(* Instances of RpcService for TLC: the values are in the cfg files. *)
EXTENDS RpcService
=============================================================================
