---- MODULE MCBatchInfer ----
(* Two executions of the job of one batch; all constants are in the .cfg.  *)
EXTENDS BatchInfer
====
