------------------------------ MODULE MCWorker ------------------------------
(* TLC instance of Worker.                                                  *)
EXTENDS Worker
=============================================================================
