--------------------------- MODULE MCBackendRuntimes ---------------------------
(* Small instances of BackendRuntimes for TLC.                                 *)
EXTENDS BackendRuntimes
===============================================================================
