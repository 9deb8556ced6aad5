------------------------------- MODULE MCPage -------------------------------
(* Small instances of Page: two views and two requests at once.            *)
EXTENDS Page
CONSTANTS v1, v2
=============================================================================
