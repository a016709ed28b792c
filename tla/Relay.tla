------------------------------- MODULE Relay --------------------------------
(***************************************************************************)
(* How cxx_impl hands the response of a destination on to its client: the  *)
(* response half of do_ipv4_socket_forwarding, which reads the bytes of    *)
(* the destination itself, and do_curl_forwarding with its callbacks,      *)
(* which libcurl calls (main.cc).                                          *)
(*                                                                         *)
(* A response is a sequence of tokens: the text of the status line ("S",   *)
(* "204" or "304"), of a header ("H", "L" for content-length, "T" for      *)
(* transfer-encoding: chunked, "E" for a name and a colon without a        *)
(* value), the line ends "CR" and "LF", a byte of the body ("b"), and of a *)
(* chunked body a piece ("c") and the last chunk ("z").  Every token       *)
(* carries the number of its response, so that the bytes of a late         *)
(* response are told from those of the next one on the same kept           *)
(* connection.  read() returns any part of what was sent, or nothing yet;  *)
(* the destination may close its end at any time.                          *)
(***************************************************************************)
EXTENDS Integers, Sequences, FiniteSets

CONSTANTS
  MaxResponses,       \* bound: requests of the client on its connection
  BodySize,           \* bound: bytes of a body, pieces of a chunked one
  req_timeout_ticks   \* --req-timeout-millis, in turns of the loop

ASSUME BoundsAssumption ==
  MaxResponses \in Nat /\ BodySize \in Nat /\ req_timeout_ticks \in Nat \ {0}

VARIABLES
  libcurl,            \* flag 5: --enable-libcurl
  pc,
  r,                  \* the number of the response
  frames,             \* how the destination delimits each, and its length
  wire,               \* what it has sent and nobody has read
  fin,                \* it has closed its end
  silent,             \* it has stopped in the middle, without closing
  kept,               \* dest_conn_fd is a connection
  buf,                \* what is left of the last read
  before_first_line, before_content,
  line,               \* header_name and temp
  chunked, not_modified,   \* forward_flags 0 and 1
  recv_content_size,
  wait_ticks,
  of,                 \* the responses that the head is made of
  out,                \* what the client was sent for this request
  result,             \* how the last relay ended
  late                \* history: left while its response was not yet read

conn == <<wire, fin, silent, kept>>
parser == <<buf, before_first_line, before_content, line, chunked,
            not_modified, recv_content_size, of>>
vars == <<libcurl, pc, r, frames, conn, parser, wait_ticks, out, result, late>>

None == -1
Texts ==
  {"S", "204", "304", "H", "L", "T", "E", "CR", "LF", "b", "c", "z"}
Token(text) == [text |-> text, of |-> r']

\* The text of a header, and the response it belongs to.
NoLine == [text |-> "", of |-> 0]
Tokens == [text : Texts, of : 0..MaxResponses]

\* What the client is sent: the status line and the headers, a chunk, bytes as
\* they came, the chunk that ends the body.  n: how much of the body the client
\* has got up to here.
Piece(kind, n, from) == [kind |-> kind, n |-> n, of |-> from]
Relayed(pieces) == IF pieces = <<>> THEN 0 ELSE pieces[Len(pieces)].n
From(toks) == {toks[i].of : i \in DOMAIN toks}
Count(toks, text) == Cardinality({i \in DOMAIN toks : toks[i].text = text})

\* A response: what its header says of the body's end ("close": nothing) and
\* the length; its status; bare: no body follows, whatever its header says (it
\* answers a HEAD, or its status is 204 or 304); ahead: what comes before that
\* header, a header with an empty value or a whole interim (1xx) response.
Frames ==
  {f \in [by : {"length", "chunked", "close"}, n : {0, BodySize},
          status : {"S", "204", "304"}, bare : BOOLEAN,
          ahead : {"", "empty", "interim"}] :
     /\ f.by # "length" => f.n = BodySize
     /\ f.status # "S" => f.bare}

TypeOK ==
  /\ libcurl \in BOOLEAN
  /\ pc \in {"idle", "read", "parse", "data", "end", "curl"}
  /\ r \in 0..MaxResponses /\ frames \in Seq(Frames) /\ Len(frames) = r
  /\ wire \in Seq(Tokens) /\ fin \in BOOLEAN /\ silent \in BOOLEAN
  /\ kept \in BOOLEAN
  /\ buf \in Seq(Tokens)
  /\ before_first_line \in BOOLEAN /\ before_content \in BOOLEAN
  /\ line \in [text : {"", "H", "L", "T", "E", "junk"}, of : 0..MaxResponses]
  /\ chunked \in BOOLEAN /\ not_modified \in BOOLEAN
  /\ recv_content_size \in Nat \cup {None}
  /\ wait_ticks \in 0..req_timeout_ticks
  /\ of \subseteq 0..MaxResponses
  /\ out \in Seq([kind : {"head", "chunk", "raw", "last", "end"},
                  n : Nat, of : SUBSET (0..MaxResponses)])
  /\ result \in {"none", "end", "eof", "timeout", "error"}
  /\ late \in BOOLEAN

Init ==
  /\ libcurl \in BOOLEAN /\ pc = "idle" /\ r = 0 /\ frames = <<>>
  /\ wire = <<>> /\ fin = FALSE /\ silent = FALSE /\ kept = FALSE /\ buf = <<>>
  /\ before_first_line = TRUE /\ before_content = TRUE /\ line = NoLine
  /\ chunked = FALSE /\ not_modified = FALSE /\ recv_content_size = None
  /\ wait_ticks = 0 /\ of = {} /\ out = <<>> /\ result = "none"
  /\ late = FALSE

-----------------------------------------------------------------------------
(* The destination.                                                        *)

Line(text) == <<Token(text), Token("CR"), Token("LF")>>
Body(text, n) == [i \in 1..n |-> Token(text)]

\* The tokens of a response; there is always some header.
Framing(f) ==
  CASE f.by = "length" -> Line("L")
    [] f.by = "chunked" -> Line("T")
    [] OTHER -> <<>>

Headers(f) ==
  CASE f.ahead = "empty" -> Line("E") \o Framing(f)
    [] f.ahead # "empty" /\ f.by = "chunked" -> Line("T") \o Line("H")
    [] OTHER -> Line("H") \o Framing(f)

Content(f) ==
  CASE f.bare -> <<>>
    [] ~f.bare /\ f.by = "chunked" -> Body("c", f.n) \o <<Token("z")>>
    [] OTHER -> Body("b", f.n)

FinalResponse(f) ==
  Line(f.status) \o Headers(f) \o <<Token("CR"), Token("LF")>> \o Content(f)

Response(f) ==
  IF f.ahead = "interim"
  THEN Line("S") \o Line("H") \o <<Token("CR"), Token("LF")>>
         \o FinalResponse(f)
  ELSE FinalResponse(f)

\* The destination sends no more: it closes its end, or it is just silent.
\* Nobody can tell before the next read or request.
DestStops ==
  /\ pc \in {"read", "curl"} \/ (kept /\ pc = "idle")
  /\ ~fin
  /\ \/ fin' = TRUE /\ UNCHANGED silent
     \/ silent' = TRUE /\ UNCHANGED fin
  /\ \E n \in 0..Len(wire) : wire' = SubSeq(wire, 1, n)
  /\ UNCHANGED <<libcurl, pc, r, frames, kept, parser, wait_ticks, out,
                 result, late>>

\* A request is written to the destination and the relay begins.  The kept
\* connection is taken when there is one; if the destination has closed it,
\* write() may notice, and another connection is made, or may not.
Request ==
  /\ pc = "idle" /\ r < MaxResponses
  /\ r' = r + 1
  /\ \E f \in Frames :
       /\ frames' = Append(frames, f)
       /\ \/ /\ kept
             /\ wire' = IF fin \/ silent THEN wire ELSE wire \o Response(f)
             /\ UNCHANGED <<fin, silent, late>>
          \/ /\ ~kept \/ fin
             /\ wire' = Response(f)
             /\ fin' = FALSE /\ silent' = FALSE /\ late' = FALSE
  /\ kept' = ~libcurl
  /\ pc' = IF libcurl THEN "curl" ELSE "read"
  /\ buf' = <<>> /\ before_first_line' = TRUE /\ before_content' = TRUE
  /\ line' = NoLine /\ chunked' = FALSE /\ not_modified' = FALSE
  /\ recv_content_size' = None /\ of' = {} /\ wait_ticks' = 0
  /\ out' = <<>> /\ result' = "none"
  /\ UNCHANGED libcurl

-----------------------------------------------------------------------------
(* The response loop of do_ipv4_socket_forwarding.                         *)

\* A change of Return: the connection is kept with what is unread on it.
ReturnKeeps == pc' = "idle" /\ result' = "error" /\ UNCHANGED conn

\* An early return: the client is gone or the response is not understood.
\* The destination connection is closed.
Return ==
  /\ pc' = "idle" /\ result' = "error"
  /\ kept' = FALSE /\ wire' = <<>> /\ fin' = FALSE /\ silent' = FALSE

\* The loop ends and the connection is kept for the next request.
Leave(how) ==
  /\ pc' = "idle" /\ result' = how
  /\ late' = (late \/ wire # <<>>)
  /\ UNCHANGED conn

Turn == pc = "read" /\ ~(not_modified /\ ~before_content)

\* The 304 response has no body.
NotModified ==
  /\ pc = "read" /\ not_modified /\ ~before_content
  /\ wait_ticks < req_timeout_ticks
  /\ pc' = "end" /\ result' = "end"
  /\ UNCHANGED <<libcurl, r, frames, conn, parser, wait_ticks, out, late>>

\* read() returns some of what was sent.
Read ==
  /\ Turn /\ wait_ticks < req_timeout_ticks /\ wire # <<>>
  /\ \E n \in 1..Len(wire) :
       buf' = SubSeq(wire, 1, n) /\ wire' = SubSeq(wire, n + 1, Len(wire))
  /\ wait_ticks' = 0
  /\ pc' = IF before_content THEN "parse" ELSE "data"
  /\ UNCHANGED <<libcurl, r, frames, fin, silent, kept, before_first_line,
                 before_content, line, chunked, not_modified,
                 recv_content_size, of, out, result, late>>

\* Changes of ReadNothing: the loop goes on at the limit; the turns are not
\* counted; any announced length is taken for a finished one.
ReadNothingNoLimit ==
  /\ Turn
  /\ wait_ticks' = wait_ticks + 1
  /\ UNCHANGED <<libcurl, pc, r, frames, conn, parser, out, result, late>>

ReadNothingNoCount ==
  /\ Turn /\ wait_ticks < req_timeout_ticks
  /\ recv_content_size = 0
  /\ pc' = "end" /\ result' = "end"
  /\ UNCHANGED <<libcurl, r, frames, conn, parser, wait_ticks, out, late>>

ReadNothingTooEarly ==
  /\ Turn /\ wait_ticks < req_timeout_ticks
  /\ IF recv_content_size # None
     THEN pc' = "end" /\ result' = "end" /\ UNCHANGED wait_ticks
     ELSE wait_ticks' = wait_ticks + 1 /\ UNCHANGED <<pc, result>>
  /\ UNCHANGED <<libcurl, r, frames, conn, parser, out, late>>

\* read() would block: all of the announced length is here, or wait.
ReadNothing ==
  /\ Turn /\ wait_ticks < req_timeout_ticks
  /\ IF recv_content_size = 0
     THEN pc' = "end" /\ result' = "end" /\ UNCHANGED wait_ticks
     ELSE wait_ticks' = wait_ticks + 1 /\ UNCHANGED <<pc, result>>
  /\ UNCHANGED <<libcurl, r, frames, conn, parser, out, late>>

ReadEof ==
  /\ Turn /\ wait_ticks < req_timeout_ticks /\ fin /\ wire = <<>>
  /\ pc' = "end" /\ result' = "eof"
  /\ UNCHANGED <<libcurl, r, frames, conn, parser, wait_ticks, out, late>>

ReadError ==
  /\ Turn /\ wait_ticks < req_timeout_ticks /\ fin
  /\ Return
  /\ UNCHANGED <<libcurl, r, frames, parser, wait_ticks, out, late>>

TimedOut ==
  /\ pc = "read" /\ wait_ticks >= req_timeout_ticks
  /\ Leave("timeout")
  /\ UNCHANGED <<libcurl, r, frames, parser, wait_ticks, out>>

\* The end of the chunked body is written in one piece or it is an error.
WriteEnd ==
  /\ pc = "end"
  /\ \/ /\ out' = Append(out, Piece("end", Relayed(out), {r}))
        /\ pc' = "idle"
        /\ late' = (late \/ wire # <<>>)
        /\ UNCHANGED <<conn, result>>
     \/ Return /\ UNCHANGED <<out, late>>
  /\ UNCHANGED <<libcurl, r, frames, parser, wait_ticks>>

StartsWith(texts) ==
  /\ Len(buf) >= Len(texts)
  /\ \A i \in DOMAIN texts : buf[i].text = texts[i]

Drop(n) == buf' = SubSeq(buf, n + 1, Len(buf))

Unparsed == Return /\ UNCHANGED <<parser, late>>

\* The status line, up to its line end; "\r\n" has to come in one read.
ParseStatus ==
  /\ pc = "parse" /\ before_first_line /\ buf # <<>>
  /\ \/ /\ buf[1].text # "CR"
        /\ Drop(1)
        /\ not_modified' = (not_modified \/ buf[1].text = "304")
        /\ of' = of \cup {buf[1].of}
        /\ UNCHANGED <<before_first_line, pc, conn, result, late>>
     \/ /\ StartsWith(<<"CR", "LF">>)
        /\ Drop(2)
        /\ before_first_line' = FALSE
        /\ UNCHANGED <<not_modified, of, pc, conn, result, late>>
     \/ /\ buf[1].text = "CR" /\ ~StartsWith(<<"CR", "LF">>)
        /\ Unparsed
  /\ UNCHANGED <<libcurl, r, frames, before_content, line, chunked,
                 recv_content_size, wait_ticks, out>>

\* Text of a header; a line feed that no line end claims is text as well.
\* Whatever follows a name without a value is taken for the value of that name.
ParseText ==
  /\ pc = "parse" /\ ~before_first_line /\ buf # <<>>
  /\ buf[1].text # "CR"
  /\ line' = IF line.text \in {"H", "L", "T"} THEN line
             ELSE IF line.text # "E" /\ buf[1].text \notin {"H", "L", "T", "E"}
             THEN [text |-> "junk", of |-> 0]
             ELSE [text |-> IF \/ line = NoLine
                               \/ line.text = "junk" /\ buf[1].text = "E"
                            THEN buf[1].text ELSE "H",
                   of |-> buf[1].of]
  /\ Drop(1)
  /\ UNCHANGED <<libcurl, pc, r, frames, conn, before_first_line,
                 before_content, chunked, not_modified, recv_content_size,
                 wait_ticks, of, out, result, late>>

\* A change of VerifyHeader: content-length is not recognised.
VerifyHeaderNoLength ==
  /\ chunked' = (chunked \/ line.text = "T")
  /\ line' = NoLine
  /\ UNCHANGED recv_content_size

\* verify_header_fn: transfer-encoding and content-length are taken note of;
\* a content-length of zero is not.
VerifyHeader ==
  /\ chunked' = (chunked \/ line.text = "T")
  /\ recv_content_size' = IF line.text = "L" /\ frames[line.of].n > 0
                          THEN frames[line.of].n
                          ELSE recv_content_size
  /\ line' = NoLine

\* "\r\n\r\n", all of it in one read, ends the head.
EndOfHead == StartsWith(<<"CR", "LF", "CR", "LF">>)

\* The end of a line.  An empty line of its own is not one, and neither is the
\* end of a name without a value: only the "\r" is skipped.
ParseLineEnd ==
  /\ pc = "parse" /\ ~before_first_line /\ buf # <<>>
  /\ buf[1].text = "CR" /\ ~EndOfHead
  /\ \/ /\ StartsWith(<<"CR", "LF">>) /\ line.text \in {"H", "L", "T"}
        /\ VerifyHeader /\ Drop(2)
        /\ UNCHANGED <<pc, conn, result, late, before_first_line,
                       before_content, not_modified, of>>
     \/ /\ StartsWith(<<"CR", "LF">>) /\ (line = NoLine \/ line.text = "E")
        /\ Drop(1)
        /\ UNCHANGED <<pc, conn, result, late, before_first_line, line,
                       before_content, chunked, not_modified,
                       recv_content_size, of>>
     \/ /\ line.text = "junk" \/ ~StartsWith(<<"CR", "LF">>)
        /\ Unparsed
  /\ UNCHANGED <<libcurl, r, frames, wait_ticks, out>>

\* A change of ParseHeadEnd: the headers are written when there are none.
ParseHeadEndSilent ==
  /\ pc = "parse" /\ ~before_first_line /\ buf # <<>> /\ EndOfHead
  /\ line.text # "junk"
  /\ VerifyHeader /\ Drop(4)
  /\ before_content' = FALSE
  /\ pc' = IF Len(buf) = 4 THEN "read" ELSE "data"
  /\ UNCHANGED <<libcurl, r, frames, conn, result, late, before_first_line,
                 not_modified, of, out, wait_ticks>>

\* The head is complete: it is written to the client, and what came with it
\* is data.
ParseHeadEnd ==
  /\ pc = "parse" /\ ~before_first_line /\ buf # <<>> /\ EndOfHead
  /\ \/ /\ line.text # "junk"
        /\ VerifyHeader /\ Drop(4)
        /\ before_content' = FALSE
        /\ pc' = IF Len(buf) = 4 THEN "read" ELSE "data"
        /\ out' = Append(out, Piece("head", 0, of))
        /\ UNCHANGED <<conn, result, late, before_first_line, not_modified,
                       of>>
     \/ Unparsed /\ UNCHANGED out
  /\ UNCHANGED <<libcurl, r, frames, wait_ticks>>

\* The whole read was part of the head.
ParseMore ==
  /\ pc = "parse" /\ buf = <<>>
  /\ pc' = "read"
  /\ UNCHANGED <<libcurl, r, frames, conn, parser, wait_ticks, out, result,
                 late>>

\* A read of data becomes a chunk, or is passed on as it is when it is
\* chunked already.  More than was announced is an error.
Data ==
  /\ pc = "data"
  /\ buf' = <<>>
  /\ \/ /\ chunked
        /\ out' = Append(out,
             Piece(IF Count(buf, "z") > 0 THEN "last" ELSE "raw",
                   Relayed(out) + Count(buf, "c"), From(buf)))
        /\ pc' = "read"
        /\ UNCHANGED <<conn, recv_content_size, result>>
     \/ /\ ~chunked
        /\ out' = Append(out, Piece("chunk", Relayed(out) + Len(buf),
                                    From(buf)))
        /\ IF recv_content_size = None
           THEN pc' = "read" /\ UNCHANGED <<conn, recv_content_size, result>>
           ELSE IF recv_content_size >= Len(buf)
           THEN /\ recv_content_size' = recv_content_size - Len(buf)
                /\ pc' = "read" /\ UNCHANGED <<conn, result>>
           ELSE Return /\ UNCHANGED recv_content_size
     \/ Return /\ UNCHANGED <<out, recv_content_size>>
  /\ UNCHANGED <<libcurl, r, frames, before_first_line, before_content, line,
                 chunked, not_modified, wait_ticks, of, late>>

-----------------------------------------------------------------------------
(* do_curl_forwarding: libcurl reads the response and calls back.          *)

frame == frames[r]

\* do_curl_forwarding returns; the handle and its connection are cleaned up.
CurlReturn(how) ==
  /\ pc' = "idle" /\ result' = how
  /\ wire' = <<>> /\ fin' = FALSE /\ silent' = FALSE
  /\ UNCHANGED kept

WireStarts(texts) ==
  /\ Len(wire) >= Len(texts)
  /\ \A i \in DOMAIN texts : wire[i].text \in texts[i]

\* pma_curl_header_callback with a line: the framing headers are left out.
CurlHeader ==
  /\ pc = "curl" /\ before_content
  /\ WireStarts(<<{"S", "204", "304", "H", "L", "T", "E"}, {"CR"}, {"LF"}>>)
  /\ \/ /\ wire' = SubSeq(wire, 4, Len(wire))
        /\ before_first_line' = FALSE
        /\ of' = of \cup {wire[1].of}
        /\ UNCHANGED <<pc, fin, silent, kept, result>>
     \/ /\ wire[1].text \notin {"L", "T"}
        /\ CurlReturn("error")
        /\ UNCHANGED <<before_first_line, of>>
  /\ UNCHANGED <<libcurl, r, frames, buf, before_content, line, chunked,
                 not_modified, recv_content_size, wait_ticks, out, late>>

\* ... and with the empty line: transfer-encoding: chunked ends the head.  After
\* that of an interim response libcurl goes on with the next head.
CurlHeadEnd ==
  /\ pc = "curl" /\ before_content /\ WireStarts(<<{"CR"}, {"LF"}>>)
  /\ \/ /\ wire' = SubSeq(wire, 3, Len(wire))
        /\ before_content' = (frame.ahead = "interim" /\ out = <<>>)
        /\ out' = Append(out, Piece("head", 0, of))
        /\ UNCHANGED <<pc, fin, silent, kept, result>>
     \/ CurlReturn("error") /\ UNCHANGED <<before_content, out>>
  /\ UNCHANGED <<libcurl, r, frames, buf, before_first_line, line, chunked,
                 not_modified, recv_content_size, wait_ticks, of, late>>

\* pma_curl_data_callback: the size, the data and the line end of a chunk.
CurlData ==
  /\ pc = "curl" /\ ~before_content
  /\ \/ \E n \in 1..Len(wire) :
          /\ \A i \in 1..n : wire[i].text \in {"b", "c"}
          /\ wire' = SubSeq(wire, n + 1, Len(wire))
          /\ out' = Append(out, Piece("chunk", Relayed(out) + n,
                                      From(SubSeq(wire, 1, n))))
          /\ UNCHANGED <<pc, fin, silent, kept, result>>
     \/ /\ WireStarts(<<{"b", "c"}>>)
        /\ CurlReturn("error") /\ UNCHANGED out
  /\ UNCHANGED <<libcurl, r, frames, parser, wait_ticks, late>>

\* curl_easy_perform has got the response to its end.  That a 204 or a 304 has
\* no body it knows; HEAD is a custom request (main.cc:569), and it waits for
\* the body that the header announces.
CurlComplete ==
  /\ ~before_content
  /\ \/ frame.status # "S"
     \/ CASE frame.by = "chunked" -> WireStarts(<<{"z"}>>)
          [] frame.by = "close" -> wire = <<>> /\ fin
          [] OTHER -> Relayed(out) = frame.n

CurlEnd ==
  /\ pc = "curl" /\ CurlComplete
  /\ \/ /\ CurlReturn("end")
        /\ out' = Append(out, Piece("end", Relayed(out), {r}))
     \/ CurlReturn("error") /\ UNCHANGED out
  /\ UNCHANGED <<libcurl, r, frames, parser, wait_ticks, late>>

\* A curl_easy_setopt or curl_easy_perform fails: the client gets no more.
CurlFails ==
  /\ pc = "curl"
  /\ before_first_line \/ (fin /\ ~CurlComplete)
  /\ CurlReturn("error")
  /\ UNCHANGED <<libcurl, r, frames, parser, wait_ticks, out, late>>

-----------------------------------------------------------------------------

Loop ==
  \/ NotModified \/ Read \/ ReadNothing \/ ReadEof \/ ReadError \/ TimedOut
  \/ WriteEnd \/ ParseStatus \/ ParseText \/ ParseLineEnd \/ ParseHeadEnd
  \/ ParseMore \/ Data

Curl == CurlHeader \/ CurlHeadEnd \/ CurlData \/ CurlEnd \/ CurlFails

Next == Request \/ DestStops \/ Loop \/ Curl

Spec == Init /\ [][Next]_vars

\* The thread goes on when it can; a client takes what it is sent, or fails.
FairSpec == Spec /\ WF_vars(Loop) /\ WF_vars(Curl)

-----------------------------------------------------------------------------
(* Properties.                                                             *)

Kinds == {out[i].kind : i \in DOMAIN out}

\* The client gets the status line and the headers first, and once, and
\* nothing after the end of the body.  Exceptions: libcurl hands on the head of
\* an interim response as well; a destination that closes before its head is
\* complete gives the end of a body that never began (the kept connection of
\* do_ipv4_socket_forwarding may have been closed since its last use), and one
\* that closes after chunks of its own a second end.
ResponseShape ==
  \/ late
  \/ out # <<>> /\ libcurl /\ frame.ahead = "interim"
  \/ /\ \A i \in DOMAIN out :
          \/ (out[i].kind = "head") <=> (i = 1)
          \/ out[i].kind = "end" /\ i = 1 /\ result = "eof" /\ before_content
     /\ \A i, j \in DOMAIN out :
          i < j /\ out[i].kind \in {"last", "end"} =>
            out[i].kind = "last" /\ out[j].kind = "end" /\ result = "eof"

\* Where the length is known, the end of the body says that all of it was
\* handed on, unless the destination closed before.
EndMeansWhole ==
  "end" \in Kinds /\ frame.by = "length" /\ ~frame.bare /\ ~late =>
    Relayed(out) = frame.n \/ result = "eof"

\* A client only gets the response to its own request.  What a relay has left
\* unread on a kept connection when it timed out is the one exception.
OwnResponse == late \/ \A i \in DOMAIN out : out[i].of \subseteq {r}

\* The responses that the loop cannot tell the end of (main.cc:971-979): no
\* header says where it is, or says 0 (taken for none), or is lost as the value
\* of a header that has none; no body follows what the header says; or an
\* interim response is taken for the response.  A 304 is known to be bare.
NoEndKnown(f) ==
  \/ f.ahead = "interim"
  \/ /\ f.status # "304"
     /\ \/ f.ahead = "empty" \/ f.bare \/ f.by = "close"
        \/ f.by = "length" /\ f.n = 0

\* When the loop times out although the destination has sent all of its
\* response and all was read, the client has got its end, except where the end
\* cannot be told and where the empty line of the head came in a read of its
\* own (main.cc:1032).
LeftWaiting ==
  result = "timeout" /\ ~late /\ ~silent /\ ~fin =>
    \/ "last" \in Kinds \/ "end" \in Kinds
    \/ before_content
    \/ NoEndKnown(frame)

\* The response loop over a socket always comes to an end: when the
\* destination falls silent, after req_timeout_ticks (main.cc:971-984).  With
\* libcurl there is only a limit for the connect (main.cc:326), and a
\* destination that falls silent later holds the thread.
SocketRelayReturns == pc # "idle" /\ ~libcurl ~> pc = "idle"

=============================================================================
