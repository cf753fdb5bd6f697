---------------------------- MODULE MCServerRun ----------------------------
(* ServerRun with CDC enabled: Run waits for the main and the CDC database. *)
EXTENDS ServerRun

CONSTANTS main, cdc

MCDBs == {main, cdc}
=============================================================================
