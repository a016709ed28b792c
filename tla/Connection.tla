----------------------------- MODULE Connection -----------------------------
(***************************************************************************)
(* The sockets of cxx_impl: the accept loop of main(), the request loop of *)
(* thread_handle_connection_fn, the request half of                        *)
(* do_ipv4_socket_forwarding with its kept destination connection, the     *)
(* MySQL connection of a handler, and thread_cleanup_fn (main.cc).         *)
(*                                                                         *)
(* The program knows its sockets by number, and the kernel gives a new     *)
(* socket the lowest free number.  `file' is the kernel's table: the       *)
(* socket behind each number, who opened it and for what.  A handler only  *)
(* has numbers, which may by now stand for someone else's socket; the      *)
(* history `misused' records the first time somebody reads, writes or      *)
(* closes a socket that is not the one he means.                           *)
(*                                                                         *)
(* What the gate decides (SqliteGate, MsqlGate) and how a response is      *)
(* relayed (Relay) is left open here: a request is answered or forwarded,  *)
(* the relay of a response ends or is given up.                            *)
(***************************************************************************)
EXTENDS Integers, FiniteSetsExt

CONSTANTS
  Threads,               \* threads that run thread_handle_connection_fn
  Dests,                 \* destinations, as <<address, port>>
  MaxFd,                 \* the numbers the process may have open are 1..MaxFd
  THREAD_TIMEOUT_TICKS,
  AskMsql,               \* threads whose clients send requests that look into
                         \* MySQL; none when SQLite is used (flag 4 unset)
  Override               \* flag 1: --enable-override-dest-url

ASSUME BoundsAssumption ==
  MaxFd \in Nat \ {0} /\ THREAD_TIMEOUT_TICKS \in Nat \ {0}
ASSUME FlagsAssumption == AskMsql \subseteq Threads /\ Override \in BOOLEAN
ASSUME NamesAssumption == "main" \notin Threads

VARIABLES
  file,       \* file[n]: the socket with number n
  accepted,   \* main(): the number accept() returned, or NoFd
  th,         \* th[t]: program counter and data of thread t
  misused,    \* history: a socket was used by one it does not belong to
  strayed     \* history: the number of a closed socket was left behind

vars == <<file, accepted, th, misused, strayed>>

NoFd == -1
Fds == 1..MaxFd
Closed == [own |-> "nobody", role |-> "none", peer |-> "none"]

Socket(t, role, peer) == [own |-> t, role |-> role, peer |-> peer]

Sockets ==
  {Closed} \cup {Socket("main", "client", "client")}
    \cup {Socket(t, "client", "client") : t \in Threads}
    \cup {Socket(t, "db", "db") : t \in Threads}
    \cup {Socket(t, "lost", "db") : t \in Threads}
    \cup {Socket(t, "dest", d) : t \in Threads, d \in Dests}

IsOpen(n) == n \in Fds /\ file[n] # Closed

\* n is still the socket that t opened for this role.
Belongs(n, t, role) == n \in Fds /\ file[n].own = t /\ file[n].role = role

\* t reads or writes n.
Uses(n, t, role) ==
  misused' = (misused \/ (IsOpen(n) /\ ~Belongs(n, t, role)))

FreeFds == {n \in Fds : file[n] = Closed}
LowestFree == Min(FreeFds)

\* What a handler has before it is given a connection.  part: some of the
\* request is written; cut: that part went to a connection that was given up;
\* asked (history): the destinations of the requests of this client.
Fresh ==
  [pc |-> "idle", conn_fd |-> NoFd, dest_conn_fd |-> NoFd,
   socket_fd |-> NoFd, using_dest_conn_fd |-> TRUE, port_dest |-> "none",
   dest |-> "none", remaining_buffer |-> FALSE, ticks |-> 0,
   part |-> FALSE, cut |-> FALSE, asked |-> {},
   msql |-> "none", msql_fd |-> NoFd, new_fd |-> NoFd]

Pcs == {"idle", "poll", "gate", "assign", "ping", "respond",
        "write", "reconnect", "connect", "relay", "unwind", "cleanup",
        "cleanup_dest"}

TypeOK ==
  /\ file \in [Fds -> Sockets]
  /\ accepted \in Fds \cup {NoFd}
  /\ th \in [Threads ->
       [pc : Pcs, conn_fd : Fds \cup {NoFd}, dest_conn_fd : Fds \cup {NoFd},
        socket_fd : Fds \cup {NoFd}, using_dest_conn_fd : BOOLEAN,
        port_dest : Dests \cup {"none"}, dest : Dests \cup {"none"},
        remaining_buffer : BOOLEAN,
        ticks : 0..THREAD_TIMEOUT_TICKS, msql : {"none", "valid", "invalid"},
        msql_fd : Fds \cup {NoFd}, new_fd : Fds \cup {NoFd},
        part : BOOLEAN, cut : BOOLEAN, asked : SUBSET Dests]]
  /\ misused \in BOOLEAN
  /\ strayed \in BOOLEAN

Init ==
  /\ file = [n \in Fds |-> Closed]
  /\ accepted = NoFd
  /\ th = [t \in Threads |-> Fresh]
  /\ misused = FALSE /\ strayed = FALSE

-----------------------------------------------------------------------------
(* main(): accept, and hand the connection to an executor.                 *)

Accept ==
  /\ accepted = NoFd /\ FreeFds # {}
  /\ accepted' = LowestFree
  /\ file' = [file EXCEPT ![LowestFree] = Socket("main", "client", "client")]
  /\ UNCHANGED <<th, misused, strayed>>

\* fcntl() cannot make the socket non-blocking.
Refuse ==
  /\ accepted # NoFd
  /\ accepted' = NoFd
  /\ file' = [file EXCEPT ![accepted] = Closed]
  /\ misused' = (misused \/ (IsOpen(accepted)
                               /\ ~Belongs(accepted, "main", "client")))
  /\ UNCHANGED <<th, strayed>>

\* The executor gives the new ThreadData to a thread.
Dispatch(t) ==
  /\ accepted # NoFd /\ th[t].pc = "idle"
  /\ \E d \in Dests :
       th' = [th EXCEPT ![t] = [Fresh EXCEPT !.pc = "poll",
                                             !.conn_fd = accepted,
                                             !.port_dest = d]]
  /\ file' = IF Belongs(accepted, "main", "client")
             THEN [file EXCEPT ![accepted] = Socket(t, "client", "client")]
             ELSE file
  /\ accepted' = NoFd
  /\ UNCHANGED <<misused, strayed>>

-----------------------------------------------------------------------------
(* thread_handle_connection_fn: one action per turn of its loop.           *)

\* A change of Turn: the loop does not look at ticks.
TurnNoLimit(t) == th[t].pc = "poll"

Turn(t) == th[t].pc = "poll" /\ th[t].ticks < THREAD_TIMEOUT_TICKS

\* The loop is left; ticks is not looked at again.
Leave(t) ==
  th' = [th EXCEPT ![t].pc = "unwind", ![t].ticks = 0]

\* The rest of the last response is written, in part (or not at all), whole,
\* or not any more.
FlushBuffer(t) ==
  /\ Turn(t) /\ th[t].remaining_buffer
  /\ \/ /\ IsOpen(th[t].conn_fd)
        /\ th' = [th EXCEPT ![t].ticks = @ + 1]
     \/ /\ IsOpen(th[t].conn_fd)
        /\ th' = [th EXCEPT ![t].remaining_buffer = FALSE, ![t].ticks = 0]
     \/ Leave(t)
  /\ Uses(th[t].conn_fd, t, "client")
  /\ UNCHANGED <<file, accepted, strayed>>

ReadNothing(t) ==
  /\ Turn(t) /\ ~th[t].remaining_buffer /\ IsOpen(th[t].conn_fd)
  /\ th' = [th EXCEPT ![t].ticks = @ + 1]
  /\ Uses(th[t].conn_fd, t, "client")
  /\ UNCHANGED <<file, accepted, strayed>>

\* End of file, a read error, or a request that cannot be parsed.
ReadEnds(t) ==
  /\ Turn(t) /\ ~th[t].remaining_buffer
  /\ Leave(t)
  /\ Uses(th[t].conn_fd, t, "client")
  /\ UNCHANGED <<file, accepted, strayed>>

ReadRequest(t) ==
  /\ Turn(t) /\ ~th[t].remaining_buffer /\ IsOpen(th[t].conn_fd)
  /\ th' = [th EXCEPT ![t].pc = "gate", ![t].ticks = 0]
  /\ Uses(th[t].conn_fd, t, "client")
  /\ UNCHANGED <<file, accepted, strayed>>

TimedOut(t) ==
  /\ th[t].pc = "poll" /\ th[t].ticks >= THREAD_TIMEOUT_TICKS
  /\ Leave(t)
  /\ UNCHANGED <<file, accepted, misused, strayed>>

\* Where a request of t may have to go: the override-dest-url header, or the
\* destination of the listening port.
DestsOf(t) == IF Override THEN Dests ELSE {th[t].port_dest}

\* do_ipv4_socket_forwarding begins: the url is parsed (or refused), and the
\* kept connection is tried first.
Forward(t) ==
  \/ \E d \in DestsOf(t) :
       th' = [th EXCEPT ![t].pc = "write", ![t].dest = d,
                        ![t].asked = @ \cup {d},
                        ![t].socket_fd = th[t].dest_conn_fd]
  \/ th' = [th EXCEPT ![t].pc = "poll"]

\* The request is answered here, or forwarded.
AnswerOrForward(t) == th' = [th EXCEPT ![t].pc = "respond"] \/ Forward(t)

\* SQLite, a client found in the cache, or a request answered without a
\* look into the database.
Decide(t) ==
  /\ th[t].pc = "gate"
  /\ AnswerOrForward(t)
  /\ UNCHANGED <<file, accepted, misused, strayed>>

\* A request that needs the database, over a connection that calls itself
\* valid.  Whatever becomes of its statements, the connection stays as it is.
DecideMsql(t) ==
  /\ t \in AskMsql /\ th[t].pc = "gate" /\ th[t].msql = "valid"
  /\ AnswerOrForward(t)
  /\ Uses(th[t].msql_fd, t, "db")
  /\ UNCHANGED <<file, accepted, strayed>>

\* connect_msql: a new connection, or none, which empties msql_conn_opt (the
\* destructor of an invalid connection closes nothing).  After an error of
\* read() or write() in the handshake the socket of the attempt stays open
\* and its number is gone.
ConnectMsql(t) ==
  /\ t \in AskMsql /\ th[t].pc = "gate" /\ th[t].msql # "valid"
  /\ \/ /\ FreeFds # {}
        /\ file' = [file EXCEPT ![LowestFree] = Socket(t, "db", "db")]
        /\ th' = [th EXCEPT ![t].pc = "assign", ![t].new_fd = LowestFree]
     \/ /\ \/ UNCHANGED file
           \/ /\ FreeFds # {}
              /\ file' = [file EXCEPT ![LowestFree] = Socket(t, "lost", "db")]
        /\ th' = [th EXCEPT ![t].pc = "respond", ![t].msql = "none",
                            ![t].msql_fd = NoFd]
  /\ UNCHANGED <<accepted, misused, strayed>>

\* msql_conn_opt = ...: the move assignment closes the number of an old,
\* invalid connection, which ping_check has closed already.
AssignMsql(t) ==
  /\ th[t].pc = "assign"
  /\ file' = IF th[t].msql = "invalid"
             THEN [file EXCEPT ![th[t].msql_fd] = Closed]
             ELSE file
  /\ misused' = (misused \/ (th[t].msql = "invalid" /\ IsOpen(th[t].msql_fd)))
  /\ th' = [th EXCEPT ![t].pc = "ping", ![t].msql = "valid",
                      ![t].msql_fd = th[t].new_fd, ![t].new_fd = NoFd]
  /\ UNCHANGED <<accepted, strayed>>

\* ping_check; when it fails it closes the socket but keeps its number.
PingCheck(t) ==
  /\ th[t].pc = "ping"
  /\ Uses(th[t].msql_fd, t, "db")
  /\ \/ /\ Belongs(th[t].msql_fd, t, "db")
        /\ AnswerOrForward(t)
        /\ UNCHANGED <<file, strayed>>
     \/ /\ file' = [file EXCEPT ![th[t].msql_fd] = Closed]
        /\ th' = [th EXCEPT ![t].pc = "respond", ![t].msql = "invalid"]
        /\ strayed' = TRUE
  /\ UNCHANGED accepted

\* The response is written, in part, or not at all (EAGAIN included).
Respond(t) ==
  /\ th[t].pc = "respond"
  /\ \/ /\ IsOpen(th[t].conn_fd)
        /\ \E left \in BOOLEAN :
             th' = [th EXCEPT ![t].pc = "poll", ![t].remaining_buffer = left]
     \/ Leave(t)
  /\ Uses(th[t].conn_fd, t, "client")
  /\ UNCHANGED <<file, accepted, strayed>>

-----------------------------------------------------------------------------
(* do_ipv4_socket_forwarding, from the write of the request on.            *)

\* do_ipv4_socket_forwarding returns and its locals are gone.
Return(t, kept) ==
  th' = [th EXCEPT ![t].pc = "poll", ![t].dest_conn_fd = kept,
                   ![t].socket_fd = NoFd, ![t].using_dest_conn_fd = TRUE,
                   ![t].part = FALSE, ![t].cut = FALSE, ![t].dest = "none"]

\* An early return: cleanup_socket closes socket_fd, dest_conn_fd stays.
GiveUp(t) ==
  /\ Return(t, th[t].dest_conn_fd)
  /\ file' = IF th[t].socket_fd = NoFd THEN file
             ELSE [file EXCEPT ![th[t].socket_fd] = Closed]
  /\ strayed' = (strayed \/ th[t].dest_conn_fd # NoFd)

\* The socket takes some of the request.
WritePart(t) ==
  /\ th[t].pc = "write" /\ IsOpen(th[t].socket_fd) /\ ~th[t].part
  /\ th' = [th EXCEPT ![t].part = TRUE]
  /\ Uses(th[t].socket_fd, t, "dest")
  /\ UNCHANGED <<file, accepted, strayed>>

\* The last byte of the request is written.
WriteRequest(t) ==
  /\ th[t].pc = "write" /\ IsOpen(th[t].socket_fd)
  /\ th' = [th EXCEPT ![t].pc = "relay"]
  /\ Uses(th[t].socket_fd, t, "dest")
  /\ UNCHANGED <<file, accepted, strayed>>

\* A change of WriteFails: a new connection is tried as often as it fails.
WriteFailsAgain(t) ==
  /\ th[t].pc = "write"
  /\ th' = [th EXCEPT ![t].pc = "reconnect"]
  /\ Uses(th[t].socket_fd, t, "dest")
  /\ UNCHANGED <<file, accepted, strayed>>

\* There is no socket, or write() fails on it: once, another one is tried.
\* `remaining' is not set back: what the first one took is not sent again.
WriteFails(t) ==
  /\ th[t].pc = "write" /\ th[t].using_dest_conn_fd
  /\ th' = [th EXCEPT ![t].pc = "reconnect",
                      ![t].using_dest_conn_fd = FALSE]
  /\ Uses(th[t].socket_fd, t, "dest")
  /\ UNCHANGED <<file, accepted, strayed>>

\* write() fails on a new socket, or the socket takes nothing for
\* req_timeout_ticks.
WriteGivesUp(t) ==
  /\ th[t].pc = "write"
  /\ ~th[t].using_dest_conn_fd \/ IsOpen(th[t].socket_fd)
  /\ GiveUp(t)
  /\ Uses(th[t].socket_fd, t, "dest")
  /\ UNCHANGED accepted

CloseKept(t) ==
  /\ th[t].pc = "reconnect"
  /\ file' = IF th[t].socket_fd = NoFd THEN file
             ELSE [file EXCEPT ![th[t].socket_fd] = Closed]
  /\ Uses(th[t].socket_fd, t, "dest")
  /\ th' = [th EXCEPT ![t].pc = "connect", ![t].socket_fd = NoFd,
                      ![t].cut = th[t].part]
  /\ UNCHANGED <<accepted, strayed>>

\* A change of ConnectDest: the new connection is made to the destination of
\* the listening port, the override-dest-url header is forgotten.
ConnectDestPort(t) ==
  /\ th[t].pc = "connect"
  /\ \/ /\ FreeFds # {}
        /\ file' = [file EXCEPT ![LowestFree] =
                      Socket(t, "dest", th[t].port_dest)]
        /\ th' = [th EXCEPT ![t].pc = "write", ![t].socket_fd = LowestFree]
        /\ UNCHANGED strayed
     \/ GiveUp(t)
  /\ UNCHANGED <<accepted, misused>>

\* connect_ipv4_socket_client.
ConnectDest(t) ==
  /\ th[t].pc = "connect"
  /\ \/ /\ FreeFds # {}
        /\ file' = [file EXCEPT ![LowestFree] =
                      Socket(t, "dest", th[t].dest)]
        /\ th' = [th EXCEPT ![t].pc = "write", ![t].socket_fd = LowestFree]
        /\ UNCHANGED strayed
     \/ GiveUp(t)
  /\ UNCHANGED <<accepted, misused>>

\* A change of RelayEnds: socket_fd is not set to -1, and cleanup_socket
\* closes the connection that is kept.
RelayEndsCloses(t) ==
  /\ th[t].pc = "relay"
  /\ Return(t, th[t].socket_fd)
  /\ file' = [file EXCEPT ![th[t].socket_fd] = Closed]
  /\ UNCHANGED <<accepted, misused, strayed>>

\* The response loop comes to its end: the connection is kept.
RelayEnds(t) ==
  /\ th[t].pc = "relay"
  /\ Return(t, th[t].socket_fd)
  /\ misused' = (\/ misused
                 \/ /\ IsOpen(th[t].socket_fd)
                    /\ ~Belongs(th[t].socket_fd, t, "dest")
                 \/ /\ IsOpen(th[t].conn_fd)
                    /\ ~Belongs(th[t].conn_fd, t, "client"))
  /\ UNCHANGED <<file, accepted, strayed>>

\* The response loop returns early.
RelayGivesUp(t) ==
  /\ th[t].pc = "relay"
  /\ GiveUp(t)
  /\ Uses(th[t].socket_fd, t, "dest")
  /\ UNCHANGED accepted

-----------------------------------------------------------------------------
(* The end of a connection.                                                *)

\* thread_handle_connection_fn returns and msql_conn_opt is destroyed.
Unwind(t) ==
  /\ th[t].pc = "unwind"
  /\ th' = [th EXCEPT ![t].pc = "cleanup"]
  /\ IF th[t].msql = "valid"
     THEN /\ file' = [file EXCEPT ![th[t].msql_fd] = Closed]
          /\ Uses(th[t].msql_fd, t, "db")
     ELSE UNCHANGED <<file, misused>>
  /\ UNCHANGED <<accepted, strayed>>

\* thread_cleanup_fn closes the two numbers of ThreadData.
CleanupConn(t) ==
  /\ th[t].pc = "cleanup"
  /\ th' = [th EXCEPT ![t].pc = "cleanup_dest"]
  /\ file' = [file EXCEPT ![th[t].conn_fd] = Closed]
  /\ Uses(th[t].conn_fd, t, "client")
  /\ UNCHANGED <<accepted, strayed>>

\* A change of CleanupDest: the kept destination connection is forgotten.
CleanupDestSkipped(t) ==
  /\ th[t].pc = "cleanup_dest"
  /\ th' = [th EXCEPT ![t] = Fresh]
  /\ UNCHANGED <<file, accepted, misused, strayed>>

CleanupDest(t) ==
  /\ th[t].pc = "cleanup_dest"
  /\ th' = [th EXCEPT ![t] = Fresh]
  /\ file' = IF th[t].dest_conn_fd = NoFd THEN file
             ELSE [file EXCEPT ![th[t].dest_conn_fd] = Closed]
  /\ Uses(th[t].dest_conn_fd, t, "dest")
  /\ UNCHANGED <<accepted, strayed>>

-----------------------------------------------------------------------------

Step(t) ==
  \/ FlushBuffer(t) \/ ReadNothing(t) \/ ReadEnds(t) \/ ReadRequest(t)
  \/ TimedOut(t) \/ Decide(t) \/ DecideMsql(t) \/ ConnectMsql(t)
  \/ AssignMsql(t) \/ PingCheck(t) \/ Respond(t)
  \/ WritePart(t) \/ WriteRequest(t) \/ WriteFails(t) \/ WriteGivesUp(t)
  \/ CloseKept(t) \/ ConnectDest(t) \/ RelayEnds(t) \/ RelayGivesUp(t)
  \/ Unwind(t) \/ CleanupConn(t) \/ CleanupDest(t)

Next ==
  \/ Accept \/ Refuse
  \/ \E t \in Threads : Dispatch(t) \/ Step(t)

Spec == Init /\ [][Next]_vars

\* Every thread that can go on does.  Nothing is promised of a relay: its
\* writes to the client are retried without a limit (main.cc:1089), so that a
\* client that stays and takes nothing holds the thread.  That a request gets
\* past the gate means that the MySQL server answers or its connection ends:
\* db_msql.cc has no timeout either, and one loop in it that only an end of
\* file leaves (SpinPrepare of MsqlClient).
FairSpec ==
  Spec /\ \A t \in Threads : WF_vars(th[t].pc # "relay" /\ Step(t))

-----------------------------------------------------------------------------
(* Properties.                                                             *)

\* Only two things make one thread touch the socket of another: a forwarding
\* given up while a destination connection was kept (its early return closes
\* the socket but leaves the number in dest_conn_fd), and a MySQL connection
\* whose first ping failed (the number stays in the closed Connection).
MisuseHasCause == misused => strayed

\* No socket is forgotten: whoever opened it still has its number, so that
\* thread_cleanup_fn, cleanup_socket, ~Connection or main() will close it.
\* There is one leak, the socket of a connect_msql that ended with an error of
\* read() or write() in the handshake.
NothingLeaks ==
  \A n \in Fds :
    file[n] # Closed =>
      \/ file[n].own = "main" /\ accepted = n
      \/ \E t \in Threads :
           /\ file[n].own = t
           /\ n \in {th[t].conn_fd, th[t].dest_conn_fd, th[t].socket_fd,
                     th[t].msql_fd, th[t].new_fd}
      \/ file[n].role = "lost"

\* A request over a connection made for it goes to its destination.  Over a
\* kept connection it goes to one that some request of the same client had
\* (with --enable-override-dest-url a later header is ignored as long as the
\* connection lives; without it there is only the one of the listening port),
\* never to that of another client the thread has served.  It goes out from
\* its first byte on, unless a kept connection took its beginning and failed:
\* the first request of a client is always whole.
RightDestination ==
  \A t \in Threads :
    th[t].pc = "relay" /\ Belongs(th[t].socket_fd, t, "dest") =>
      /\ file[th[t].socket_fd].peer \in
           IF th[t].using_dest_conn_fd THEN th[t].asked ELSE {th[t].dest}
      /\ th[t].cut => ~th[t].using_dest_conn_fd /\ th[t].dest_conn_fd # NoFd

\* A thread that waits for its client gets another request or is free again:
\* a client that sends nothing, takes nothing of a rest or leaves does not
\* hold it.  A request that was read is answered or forwarded, whatever the
\* destination does, up to the relay of its response.  (A client that goes on
\* sending keeps its thread, and so does one that takes nothing in a relay.)
ThreadsComeBack ==
  \A t \in Threads :
    /\ th[t].pc = "poll" ~> th[t].pc \in {"gate", "idle"}
    /\ th[t].pc = "gate" ~> th[t].pc \in {"poll", "relay", "idle"}

=============================================================================
