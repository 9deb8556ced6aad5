----------------------------- MODULE MCService ------------------------------
(* Small instances of Service: three processes.                            *)
EXTENDS Service
=============================================================================
