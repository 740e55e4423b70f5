------------------------------ MODULE MCTopic ------------------------------
(* Small instances of Topic for TLC.                                       *)
EXTENDS Topic
CONSTANTS v1, v2, ta, tb
=============================================================================
