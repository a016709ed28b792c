---------------------------- MODULE TaskService ----------------------------
(***************************************************************************)
(* What the connection server asks of whatever runs its connections, be it *)
(* ThreadPool or ThreadLimit: every connection handed over is either run   *)
(* and then released, or released without having been run while the        *)
(* service shuts down; its resources are released exactly once; and once   *)
(* the service is gone nothing it was given is still held or running.      *)
(***************************************************************************)

CONSTANT Tasks

VARIABLES
  status,   \* status[t]: where task t is in its life
  closing,  \* the owner has started to shut the service down
  closed    \* the shutdown has returned to the owner

vars == <<status, closing, closed>>

Status == {"new", "pending", "running", "released"}

TypeOK ==
  /\ status \in [Tasks -> Status]
  /\ closing \in BOOLEAN
  /\ closed \in BOOLEAN

Init ==
  /\ status = [t \in Tasks |-> "new"]
  /\ closing = FALSE
  /\ closed = FALSE

Submit(t) ==
  /\ ~closing
  /\ status[t] = "new"
  /\ status' = [status EXCEPT ![t] = "pending"]
  /\ UNCHANGED <<closing, closed>>

Start(t) ==
  /\ status[t] = "pending"
  /\ status' = [status EXCEPT ![t] = "running"]
  /\ UNCHANGED <<closing, closed>>

Release(t) ==
  /\ status[t] = "running"
  /\ status' = [status EXCEPT ![t] = "released"]
  /\ UNCHANGED <<closing, closed>>

\* A task nobody started is released only by the shutdown.
Drop(t) ==
  /\ closing
  /\ ~closed
  /\ status[t] = "pending"
  /\ status' = [status EXCEPT ![t] = "released"]
  /\ UNCHANGED <<closing, closed>>

BeginClose ==
  /\ ~closing
  /\ closing' = TRUE
  /\ UNCHANGED <<status, closed>>

EndClose ==
  /\ closing
  /\ ~closed
  /\ \A t \in Tasks : status[t] \in {"new", "released"}
  /\ closed' = TRUE
  /\ UNCHANGED <<status, closing>>

Next ==
  \/ \E t \in Tasks : Submit(t) \/ Start(t) \/ Release(t) \/ Drop(t)
  \/ BeginClose
  \/ EndClose

Spec == Init /\ [][Next]_vars
=============================================================================
