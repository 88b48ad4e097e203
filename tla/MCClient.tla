------------------------------ MODULE MCClient ------------------------------
(***************************************************************************)
(* A client that makes two requests and a ping over two sockets.           *)
(***************************************************************************)
EXTENDS BrokerClient
=============================================================================
