------------------------------ MODULE MCAccess ------------------------------
(* Two api processes with different tokens and a worker, the four files of *)
(* db/migrations, and two callers.                                         *)
EXTENDS Access

CONSTANTS api1, api2, worker1, caller1, caller2, token1, token2

MCApiToken == [p \in ApiProcesses |-> IF p = api1 THEN token1 ELSE token2]
=============================================================================
