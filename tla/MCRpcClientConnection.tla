----------------------- MODULE MCRpcClientConnection -----------------------
(* Instances of RpcClientConnection for TLC: the values are in the cfg files. *)
EXTENDS RpcClientConnection
=============================================================================
