-------------------------- MODULE MCRpcClientEntry --------------------------
(* Instances of RpcClientEntry for TLC: the values are in the cfg files. *)
EXTENDS RpcClientCalls
=============================================================================
