---------------------------- MODULE MCConnection ----------------------------
(***************************************************************************)
(* Connection with a few descriptor numbers.                               *)
(***************************************************************************)
EXTENDS Connection

\* A behaviour is followed up to and including the first use of a socket by
\* one it does not belong to; what several threads do to each other's
\* sockets from then on is not explored.
FirstMisuse == ~misused

\* One thread is busy at a time where two add nothing to the case: a socket
\* of connect_msql was lost (one at most), a client's requests had two
\* destinations, or a destination took a part of a request.
Alone == Cardinality({t \in Threads : th[t].pc # "idle"}) <= 1
LostFds == {n \in Fds : file[n].role = "lost"}

OneAtATime ==
  /\ LostFds # {} => Alone /\ Cardinality(LostFds) = 1
  /\ \A t \in Threads : th[t].part \/ th[t].asked = Dests => Alone

\* A thread that does not ask MySQL has one destination and a client that
\* takes its responses.  (With Override the destination of the listening
\* port is one of those a request may have and plays no part of its own.)
OneVaries ==
  \A t \in Threads :
    /\ th[t].port_dest \in {"none", "d1"}
    /\ t \notin AskMsql => ~th[t].remaining_buffer /\ "d1" \notin th[t].asked
=============================================================================
