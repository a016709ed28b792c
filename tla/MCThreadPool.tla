---------------------------- MODULE MCThreadPool ----------------------------
(* Model checking of ThreadPool.                                           *)
EXTENDS ThreadPool
=============================================================================
