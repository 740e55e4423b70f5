--------------------------- MODULE MCServiceClient ---------------------------
(* Small instances of ServiceClient for TLC.                                 *)
EXTENDS ServiceClient
CONSTANTS v1, v2
=============================================================================
