------------------------------- MODULE MCService -------------------------------
(* An instance of the service small enough to check.                          *)
EXTENDS Service
=============================================================================
