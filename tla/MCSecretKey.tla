----------------------------- MODULE MCSecretKey -----------------------------
(* A small instance of SecretKey. *)
EXTENDS SecretKey

CONSTANTS web, worker, ipw, rpw
=============================================================================
