---------------------------- MODULE MCWasmWorker ----------------------------
(* Small instances of WasmWorker: timeouts in tens of milliseconds, two of *)
(* them out of range; one name, one module.                                *)
EXTENDS WasmWorker
=============================================================================
