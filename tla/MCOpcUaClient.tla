----------------------------- MODULE MCOpcUaClient -----------------------------
(* An instance of the OPC UA client small enough to check.                    *)
EXTENDS OpcUaClient

CONSTANTS t1, t2

TwoCallers == {t1, t2}
=============================================================================
