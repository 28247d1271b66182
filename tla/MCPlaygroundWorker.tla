------------------------- MODULE MCPlaygroundWorker -------------------------
(* The playground's worker with a client that posts a few requests in any  *)
(* order.                                                                  *)
EXTENDS PlaygroundWorker
=============================================================================
