----------------------------- MODULE MsqlClient -----------------------------
(***************************************************************************)
(* The MySQL protocol client of db_msql.cc: connect_msql, ping_check,      *)
(* execute_stmt and close_stmt over one non-blocking connection.           *)
(*                                                                         *)
(* The stream from the server is a sequence of packets; read() returns all *)
(* that have arrived.  With Segmented an answer may arrive in pieces, cut  *)
(* between packets; without it the whole answer to a command arrives at    *)
(* once, as it does when it is small and the server is near.  The server   *)
(* may answer any statement with an error, or with one of the two errors   *)
(* (1205, 1213) that execute_stmt tries again after; the connection may be *)
(* lost at any time.                                                       *)
(***************************************************************************)
EXTENDS Integers, Sequences, FiniteSets

CONSTANTS
  MaxCalls,                    \* bound: calls of execute_stmt
  CONNECTION_RETRY_COUNT_MAX,
  MaxConnects,                 \* bound: calls of connect_msql
  Segmented                    \* whether answers may arrive in pieces

ASSUME ClientAssumption ==
  /\ MaxCalls \in Nat /\ MaxConnects \in Nat
  /\ CONNECTION_RETRY_COUNT_MAX \in Nat
  /\ Segmented \in BOOLEAN

VARIABLES
  pc, up,                 \* up: the server is there
  flight, avail,          \* packets on their way; in the socket buffer
  call, kind,             \* the statement being executed: number and sort
  stmt_id, next_pkt, attempt_fetch_more, recv_part, ret_vecs,
  execute_retry_count,
  prep, open,             \* server: prep[id] = call of statement id; open ids
  executed, rows,         \* server: how often, with how many rows, it ran
  last,                   \* history: the last call that returned
  errored,                \* history: ids answered with an error
  torn,                   \* history: an answer was not read to its end
  connects, sockets, lost \* history: connects; descriptors; those dropped

net == <<up, flight, avail>>
stmt == <<call, kind, stmt_id, next_pkt, attempt_fetch_more, recv_part,
          ret_vecs, execute_retry_count>>
server == <<prep, open, executed, rows>>
conn == <<connects, sockets, lost>>
vars == <<pc, net, stmt, server, last, errored, torn, conn>>

Calls == 1..MaxCalls
MaxIds == MaxCalls * (CONNECTION_RETRY_COUNT_MAX + 1)
NoStmt == 0
UnknownStmt == MaxIds + 1   \* what other bytes give as an id

\* call: the statement a packet is about (0: none); id: in prep_ok.
Packet(k, c, id) == [kind |-> k, call |-> c, id |-> id]
Packets == [kind : {"greeting", "ok", "prep_ok", "err", "lock_err", "def",
                    "count", "row", "eof"},
            call : 0..MaxCalls, id : 0..MaxIds]

TypeOK ==
  /\ pc \in {"none", "greeting", "auth", "auth_result", "ping", "pong",
             "idle", "prepare", "prepare_resp", "prepare_spin", "execute",
             "execute_read", "execute_parse"}
  /\ up \in BOOLEAN
  /\ flight \in Seq(Packets) /\ avail \in Seq(Packets)
  /\ call \in 0..MaxCalls /\ kind \in {"select", "write"}
  /\ stmt_id \in 0..UnknownStmt
  /\ next_pkt \in {"COLUMN_COUNT", "COLUMN_DEF", "ROW"}
  /\ attempt_fetch_more \in BOOLEAN
  /\ recv_part \in Seq(Packets) /\ ret_vecs \in Seq(Packets)
  /\ execute_retry_count \in 0..CONNECTION_RETRY_COUNT_MAX
  /\ prep \in Seq(Calls) /\ open \subseteq DOMAIN prep
  /\ executed \in [Calls -> Nat] /\ rows \in [Calls -> Nat]
  /\ last \in [ok : BOOLEAN, call : 0..MaxCalls, up : BOOLEAN,
               torn : BOOLEAN, rows : Seq(Packets)]
  /\ errored \subseteq DOMAIN prep /\ torn \in BOOLEAN
  /\ connects \in 0..MaxConnects /\ sockets \in Nat /\ lost \in Nat

Init ==
  /\ pc = "none" /\ up = FALSE /\ flight = <<>> /\ avail = <<>>
  /\ call = 0 /\ kind = "write" /\ stmt_id = NoStmt
  /\ next_pkt = "COLUMN_COUNT" /\ attempt_fetch_more = FALSE
  /\ recv_part = <<>> /\ ret_vecs = <<>> /\ execute_retry_count = 0
  /\ prep = <<>> /\ open = {}
  /\ executed = [c \in Calls |-> 0] /\ rows = [c \in Calls |-> 0]
  /\ last = [ok |-> FALSE, call |-> 0, up |-> FALSE, torn |-> FALSE,
             rows |-> <<>>]
  /\ errored = {} /\ torn = FALSE
  /\ connects = 0 /\ sockets = 0 /\ lost = 0

-----------------------------------------------------------------------------
(* The network.                                                            *)

Arrive ==
  /\ flight # <<>>
  /\ \E n \in IF Segmented THEN 1..Len(flight) ELSE {Len(flight)} :
       /\ avail' = avail \o SubSeq(flight, 1, n)
       /\ flight' = SubSeq(flight, n + 1, Len(flight))
  /\ UNCHANGED <<pc, up, stmt, server, last, errored, torn, conn>>

\* The connection is lost; the server forgets the statements of the session.
Break ==
  /\ up
  /\ up' = FALSE /\ flight' = <<>> /\ avail' = <<>>
  /\ open' = {}
  /\ UNCHANGED <<pc, stmt, prep, executed, rows, last, errored, torn, conn>>

\* What the server sends next on the connection.
Send(ps) == flight' = flight \o ps /\ UNCHANGED <<up, avail>>

Gone == ~up /\ avail = <<>>   \* read() or write() fails, or read() returns 0

-----------------------------------------------------------------------------
(* connect_msql and the ping_check after it.                               *)

\* connect() on the socket succeeds; the server greets.
Connect ==
  /\ pc = "none" /\ connects < MaxConnects
  /\ connects' = connects + 1
  /\ sockets' = sockets + 1
  /\ up' = TRUE /\ avail' = <<>>
  /\ flight' = <<Packet("greeting", 0, 0)>>
  /\ pc' = "greeting"
  /\ torn' = FALSE
  /\ UNCHANGED <<stmt, server, last, errored, lost>>

\* Mutant of ConnectFails: a refused user leaves the socket open.
ConnectFailsOpen(ioerror) ==
  /\ pc' = "none"
  /\ lost' = lost + (IF ioerror THEN 1 ELSE 0)
  /\ up' = FALSE /\ flight' = <<>> /\ avail' = <<>>
  /\ UNCHANGED sockets

\* connect_msql gives up and has no connection to return: the descriptor is
\* closed if the peer closed or sent nonsense, not after an error of read()
\* or write().
ConnectFails(ioerror) ==
  /\ pc' = "none"
  /\ IF ioerror THEN lost' = lost + 1 /\ UNCHANGED sockets
                ELSE sockets' = sockets - 1 /\ UNCHANGED lost
  /\ up' = FALSE /\ flight' = <<>> /\ avail' = <<>>

ReadGreeting ==
  /\ pc = "greeting"
  /\ \/ /\ Gone
        /\ \E ioerror \in BOOLEAN : ConnectFails(ioerror)
     \/ /\ avail # <<>>
        /\ avail' = <<>> /\ pc' = "auth"
        /\ UNCHANGED <<up, flight, sockets, lost>>
  /\ UNCHANGED <<stmt, server, last, errored, torn, connects>>

\* The handshake response; the server lets the user in or not.
SendAuth ==
  /\ pc = "auth"
  /\ \/ Gone /\ ConnectFails(TRUE)
     \/ /\ up
        /\ \E k \in {"ok", "err"} : Send(<<Packet(k, 0, 0)>>)
        /\ pc' = "auth_result"
        /\ UNCHANGED <<sockets, lost>>
  /\ UNCHANGED <<stmt, server, last, errored, torn, connects>>

ReadAuthResult ==
  /\ pc = "auth_result"
  /\ \/ /\ Gone
        /\ \E ioerror \in BOOLEAN : ConnectFails(ioerror)
     \/ /\ avail # <<>>
        /\ IF avail[1].kind = "ok"
           THEN /\ avail' = <<>> /\ pc' = "ping"
                /\ UNCHANGED <<up, flight, sockets, lost>>
           ELSE ConnectFails(FALSE)
  /\ UNCHANGED <<stmt, server, last, errored, torn, connects>>

\* ping_check closes the descriptor whatever went wrong.
SendPing ==
  /\ pc = "ping"
  /\ \/ Gone /\ ConnectFails(FALSE)
     \/ /\ up
        /\ Send(<<Packet("ok", 0, 0)>>)
        /\ pc' = "pong"
        /\ UNCHANGED <<sockets, lost>>
  /\ UNCHANGED <<stmt, server, last, errored, torn, connects>>

ReadPong ==
  /\ pc = "pong"
  /\ \/ Gone /\ ConnectFails(FALSE)
     \/ /\ avail # <<>>
        /\ avail' = <<>> /\ pc' = "idle"
        /\ UNCHANGED <<up, flight, sockets, lost>>
  /\ UNCHANGED <<stmt, server, last, errored, torn, connects>>

\* ~Connection, when the client connection of the thread ends.
Disconnect ==
  /\ pc = "idle"
  /\ pc' = "none"
  /\ sockets' = sockets - 1
  /\ up' = FALSE /\ flight' = <<>> /\ avail' = <<>>
  /\ open' = {}
  /\ UNCHANGED <<stmt, prep, executed, rows, last, errored, torn, connects, lost>>

-----------------------------------------------------------------------------
(* execute_stmt                                                            *)

\* The call returns, with a value (the rows it collected) or without.
\* torn' is fixed before.
Return(ok) ==
  /\ pc' = "idle"
  /\ last' = [ok |-> ok, call |-> call, up |-> up, torn |-> torn',
              rows |-> IF ok THEN ret_vecs ELSE <<>>]
  /\ execute_retry_count' = 0
  /\ stmt_id' = NoStmt /\ next_pkt' = "COLUMN_COUNT"
  /\ attempt_fetch_more' = FALSE /\ recv_part' = <<>> /\ ret_vecs' = <<>>
  /\ UNCHANGED <<call, kind>>

\* Mutant of CloseStmt: not sent.
CloseStmtSkipped == UNCHANGED server

\* close_stmt; the server does not answer it.
CloseStmt == open' = open \ {stmt_id} /\ UNCHANGED <<prep, executed, rows>>

Call(k) ==
  /\ pc = "idle" /\ call < MaxCalls
  /\ call' = call + 1 /\ kind' = k
  /\ pc' = "prepare"
  /\ UNCHANGED <<net, stmt_id, next_pkt, attempt_fetch_more, recv_part,
                 ret_vecs, execute_retry_count, server, last, errored, torn, conn>>

\* COM_STMT_PREPARE is written.  The answer of the server is an error, or the
\* id and a definition packet for every parameter and column.
SendPrepare ==
  /\ pc = "prepare"
  /\ UNCHANGED <<errored, torn, conn>>
  /\ \/ Gone /\ Return(FALSE) /\ UNCHANGED <<net, server>>
     \/ /\ up
        /\ \/ /\ prep' = Append(prep, call)
              /\ open' = open \cup {Len(prep')}
              /\ \E n \in 0..1 :
                   Send(<<Packet("prep_ok", call, Len(prep'))>>
                        \o [i \in 1..n |-> Packet("def", call, 0)])
           \/ /\ Send(<<Packet("err", call, 0)>>)
              /\ UNCHANGED <<prep, open>>
        /\ pc' = "prepare_resp"
        /\ UNCHANGED <<stmt, executed, rows, last>>

\* One read(), of which the first packet is looked at and the rest dropped.
\* parse_prepare_resp_pkt takes any packet that starts with 0 and is long
\* enough, which a row may be.
PrepareIds(p) ==
  IF p.kind = "prep_ok" THEN {p.id}
  ELSE IF p.kind = "row" THEN {NoStmt, UnknownStmt} ELSE {NoStmt}

\* read() goes on failing with an error that is not EAGAIN: this loop has no
\* branch for it, and reads again at once and for ever.  (An error that is
\* followed by an end of file, as after a reset, is an end of file here.)
SpinPrepare ==
  pc' = "prepare_spin" /\ UNCHANGED <<stmt, last>>

\* Mutant of ReadPrepare: waits for a definition packet that may not come.
ReadPrepareWaits ==
  /\ pc = "prepare_resp"
  /\ torn' = (torn \/ flight # <<>>)
  /\ \/ Gone /\ Return(FALSE) /\ UNCHANGED avail
     \/ /\ Len(avail) > 1
        /\ avail' = <<>> /\ stmt_id' = avail[1].id
        /\ pc' = "execute"
        /\ UNCHANGED <<call, kind, next_pkt, attempt_fetch_more, recv_part,
                       ret_vecs, execute_retry_count, last>>
  /\ UNCHANGED <<up, flight, server, errored, conn>>

ReadPrepare ==
  /\ pc = "prepare_resp"
  /\ torn' = (torn \/ flight # <<>>)
  /\ \/ Gone /\ (Return(FALSE) \/ SpinPrepare) /\ UNCHANGED avail
     \/ /\ avail # <<>>
        /\ avail' = <<>>
        /\ \E id \in PrepareIds(avail[1]) :
             \/ id = NoStmt /\ Return(FALSE)
             \/ /\ id # NoStmt
                /\ stmt_id' = id
                /\ pc' = "execute"
                /\ UNCHANGED <<call, kind, next_pkt, attempt_fetch_more,
                               recv_part, ret_vecs, execute_retry_count, last>>
  /\ UNCHANGED <<up, flight, server, errored, conn>>

\* The server runs statement id of sort k, or says why not.
ResultSet(c, n) ==
  <<Packet("count", c, 0), Packet("def", c, 0)>>
    \o [i \in 1..n |-> Packet("row", c, 0)] \o <<Packet("eof", c, 0)>>

ServerExecutes(id) ==
  \/ /\ id \in open
     /\ \E n \in 0..1 :
          /\ executed' = [executed EXCEPT ![prep[id]] = @ + 1]
          /\ rows' = [rows EXCEPT ![prep[id]] =
                        IF kind = "select" THEN n ELSE 0]
          /\ Send(IF kind = "select" THEN ResultSet(prep[id], n)
                  ELSE <<Packet("ok", prep[id], 0)>>)
     /\ UNCHANGED errored
  \/ /\ id \in open
     /\ \E k \in {"err", "lock_err"} : Send(<<Packet(k, prep[id], 0)>>)
     /\ errored' = errored \cup {id}
     /\ UNCHANGED <<executed, rows>>

\* COM_STMT_EXECUTE is written.
SendExecute ==
  /\ pc = "execute"
  /\ UNCHANGED <<torn, conn>>
  /\ \/ Gone /\ Return(FALSE) /\ UNCHANGED <<net, server, errored>>
     \/ /\ up
        /\ pc' = "execute_read"
        /\ IF stmt_id \in open THEN ServerExecutes(stmt_id)
           ELSE /\ Send(<<Packet("err", call, 0)>>)
                /\ UNCHANGED <<executed, rows, errored>>
        /\ UNCHANGED <<stmt, prep, open, last>>

\* EAGAIN is waited for before the first packet, and is an error after it.
ReadExecute ==
  /\ pc = "execute_read"
  /\ \/ /\ avail = <<>>
        /\ up => attempt_fetch_more
        /\ torn' = TRUE
        /\ Return(FALSE)
        /\ UNCHANGED avail
     \/ /\ avail # <<>>
        /\ recv_part' = avail /\ avail' = <<>>
        /\ attempt_fetch_more' = TRUE
        /\ pc' = "execute_parse"
        /\ UNCHANGED <<call, kind, stmt_id, next_pkt, ret_vecs,
                       execute_retry_count, last, torn>>
  /\ UNCHANGED <<up, flight, server, errored, conn>>

\* What a packet of the answer leads to.  Errors are told by the first byte,
\* 0xFF; 0xFE ends the answer, and so does 0 before the column count, which is
\* how OK packets, the answer to a prepare and rows start.
Outcomes(p) ==
  CASE p.kind = "err" -> {"fail"}
    [] p.kind = "lock_err" -> {"retry"}
    [] p.kind = "eof" -> {"done"}
    [] next_pkt = "COLUMN_COUNT" /\ p.kind \in {"ok", "prep_ok"} -> {"done"}
    [] next_pkt = "COLUMN_COUNT" /\ p.kind = "row" -> {"done", "fail"}
    [] next_pkt = "COLUMN_COUNT" /\ p.kind = "count" -> {"COLUMN_DEF"}
    [] next_pkt = "COLUMN_DEF" /\ p.kind = "def" -> {"ROW"}
    [] next_pkt = "ROW" /\ p.kind = "row" -> {"row"}
    [] next_pkt = "ROW" /\ p.kind \in {"ok", "prep_ok"} -> {"row", "fail_close"}
    [] OTHER -> {"fail_close"}

\* Mutant of GoOn: takes the column definitions for rows.
GoOnSkipsDefs(o) ==
  /\ next_pkt' = "ROW"
  /\ ret_vecs' = IF o = "row" THEN Append(ret_vecs, Head(recv_part))
                 ELSE ret_vecs
  /\ recv_part' = Tail(recv_part)
  /\ pc' = IF Len(recv_part) = 1 THEN "execute_read" ELSE "execute_parse"
  /\ UNCHANGED <<call, kind, stmt_id, attempt_fetch_more,
                 execute_retry_count, last>>

\* Another packet of the answer is wanted, from the buffer or by a read().
GoOn(o) ==
  /\ next_pkt' = IF o = "COLUMN_DEF" THEN "COLUMN_DEF" ELSE "ROW"
  /\ ret_vecs' = IF o = "row" THEN Append(ret_vecs, Head(recv_part))
                 ELSE ret_vecs
  /\ recv_part' = Tail(recv_part)
  /\ pc' = IF Len(recv_part) = 1 THEN "execute_read" ELSE "execute_parse"
  /\ UNCHANGED <<call, kind, stmt_id, attempt_fetch_more,
                 execute_retry_count, last>>

\* Mutant of Retry: the tries are not counted.
RetryNoCount ==
  /\ stmt_id' = NoStmt /\ next_pkt' = "COLUMN_COUNT"
  /\ attempt_fetch_more' = FALSE /\ recv_part' = <<>> /\ ret_vecs' = <<>>
  /\ pc' = "prepare"
  /\ UNCHANGED <<call, kind, last, execute_retry_count>>

\* The call is made again from the start, the statement is left open.
Retry ==
  IF execute_retry_count = CONNECTION_RETRY_COUNT_MAX THEN Return(FALSE)
  ELSE /\ execute_retry_count' = execute_retry_count + 1
       /\ stmt_id' = NoStmt /\ next_pkt' = "COLUMN_COUNT"
       /\ attempt_fetch_more' = FALSE /\ recv_part' = <<>> /\ ret_vecs' = <<>>
       /\ pc' = "prepare"
       /\ UNCHANGED <<call, kind, last>>

ParsePacket ==
  /\ pc = "execute_parse"
  /\ UNCHANGED <<net, errored, torn, conn>>
  /\ \E o \in Outcomes(Head(recv_part)) :
       \/ o \in {"COLUMN_DEF", "ROW", "row"} /\ GoOn(o) /\ UNCHANGED server
       \/ o = "retry" /\ Retry /\ UNCHANGED server
       \/ /\ o \in {"done", "fail", "fail_close"}
          /\ Return(o = "done")
          /\ IF o = "fail" THEN UNCHANGED server ELSE CloseStmt

-----------------------------------------------------------------------------
ClientStep ==
  \/ ReadGreeting \/ SendAuth \/ ReadAuthResult \/ SendPing \/ ReadPong
  \/ SendPrepare \/ ReadPrepare \/ SendExecute \/ ReadExecute \/ ParsePacket

Next ==
  \/ Arrive \/ Break \/ Connect \/ Disconnect
  \/ \E k \in {"select", "write"} : Call(k)
  \/ ClientStep

Spec == Init /\ [][Next]_vars

\* The thread runs, and what the server sent arrives unless the connection is
\* lost.  Nothing else is promised: execute_stmt has no timeout.
FairSpec == Spec /\ WF_vars(Arrive) /\ WF_vars(ClientStep)

-----------------------------------------------------------------------------
(* Properties                                                              *)

\* db_msql.h says of execute_stmt: "No value on failure. Vector on success.
\* Non-empty vector if there are results."  A value means that the statement
\* of this call ran exactly once, retries included, and the rows are its own.
ValueIsOwn ==
  last.ok => /\ executed[last.call] = 1
             /\ Len(last.rows) = rows[last.call]
             /\ \A i \in DOMAIN last.rows : last.rows[i].call = last.call

\* That is so, and no value means that the statement did not run (or that the
\* connection was lost), as long as no answer came in pieces: once
\* execute_stmt gave up in the middle of one, or took a prepare answer for
\* complete that was not, the connection is out of step.
ValueTellsOutcome ==
  last.call # 0 /\ ~last.torn =>
    ValueIsOwn /\ (last.ok \/ executed[last.call] = 0 \/ ~last.up)

\* Between calls the server keeps open no statement but those it answered
\* with an error (which execute_stmt does not close, before a retry or at
\* all), and no packet is left over for the next call.
CallsLeaveNothing ==
  pc = "idle" /\ ~torn => open \subseteq errored /\ flight = <<>> /\ avail = <<>>

\* connect_msql and ping_check close every descriptor they do not hand over,
\* except after an error of read() or write() in the handshake.
SocketsOwned == sockets = lost + (IF pc = "none" THEN 0 ELSE 1)

\* Every call returns, also when it is out of step with the server: it waits
\* only for packets that are still to come, and it gives up retrying.  There
\* is one place where it may stay for ever, the read() of the answer to a
\* PREPARE on a connection that is gone.
CallsReturn == pc \in {"prepare", "prepare_resp", "execute", "execute_read",
                      "execute_parse"} ~> pc \in {"idle", "none"}
                                          \/ (pc = "prepare_spin" /\ ~up)
=============================================================================
