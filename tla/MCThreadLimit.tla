--------------------------- MODULE MCThreadLimit ---------------------------
(* Model checking of ThreadLimit.  The configurations give it fewer        *)
(* threads than connections, so that connections overflow into the queue.  *)
EXTENDS ThreadLimit
=============================================================================
