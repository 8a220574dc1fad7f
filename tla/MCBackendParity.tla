---------------------------- MODULE MCBackendParity ---------------------------
(* A small instance of BackendParity for TLC, on the calls of the compressed *)
(* back end's instances. *)
EXTENDS BackendParity, MCCompressedBackend
===============================================================================
