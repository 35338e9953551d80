------------------------------- MODULE MCLogger -------------------------------
(* An instance of the logger small enough to check.                           *)
EXTENDS Logger

CONSTANTS t1, t2

TwoThreads == {t1, t2}
=============================================================================
