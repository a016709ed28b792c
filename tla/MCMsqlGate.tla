----------------------------- MODULE MCMsqlGate -----------------------------
(***************************************************************************)
(* Model checking of MsqlGate.  Some things are rare, and are not followed *)
(* when they come together: the numbers start again (and then one of them  *)
(* is handed out a second time), a session is lost, two requests make ids  *)
(* or challenges at once, the clock goes on.  Ids in use are met by new    *)
(* ones, sessions are lost at any statement, and the clock passes every    *)
(* timeout by one.                                                         *)
(***************************************************************************)
EXTENDS MsqlGate

Lost == \E th \in Threads : dead[th]
Crowd == Rows(ID_TO_PORT, "page") > 1 \/ Rows(CHALLENGE_FACTORS, "js") > 1

FewAtOnce ==
  /\ wrapped => SEQ_ID[1] <= 2 /\ ~Lost /\ now <= 1
  /\ Crowd => ~Lost /\ now = 0
=============================================================================
