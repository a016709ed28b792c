---------------------------- MODULE MCSqliteGate ----------------------------
(***************************************************************************)
(* Model checking of SqliteGate.  No action and no property tells threads, *)
(* addresses or ports apart by anything but their identity.                *)
(***************************************************************************)
EXTENDS SqliteGate, TLC

Symmetry ==
  Permutations(Threads) \cup Permutations(IPs) \cup Permutations(Ports)

\* For the run with several clients: good answers are posted by one of them
\* and to one port, and what is asked once the clock has gone on is followed
\* until a new id would be made.
OnePosts == Cardinality({k \in Clients : answered[k] # Never}) <= 1

NoNewIdsLater ==
  now > 0 => \A th \in Threads :
    pc[th] \notin {"cleanup_ids", "cleanup_challenges", "read_port",
                   "delete_id", "seq_read", "seq_write", "exists",
                   "insert_id", "insert_challenge"}
=============================================================================
