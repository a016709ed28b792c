---------------------------- MODULE RelayProofs -----------------------------
(***************************************************************************)
(* Proofs about Relay for any number of responses, length of a body and    *)
(* time limit.                                                             *)
(***************************************************************************)
EXTENDS Relay, FiniteSetTheorems, SequenceTheorems, TLAPS

\* The bytes of the responses so far.
Seen == {t \in Tokens : t.of \in 1..r}

\* The bytes of this response: what frames it says which sort it is.
Own == {t \in Seen : /\ t.of = r
                     /\ t.text = "L" => frame.by = "length"
                     /\ t.text = "T" => frame.by = "chunked"
                     /\ t.text = "z" => frame.by = "chunked" /\ ~frame.bare
                     /\ t.text = "304" => frame.bare}

\* The chunk that ends the body is the last of what is sent.
ZLast(s) == \A i \in DOMAIN s : s[i].text = "z" => i = Len(s)

Pieces == [kind : {"head", "chunk", "raw", "last", "end"},
           n : Nat, of : SUBSET (0..MaxResponses)]

\* What the parser knows of the head.
HeadTyped ==
  /\ before_first_line \in BOOLEAN
  /\ line \in [text : {"", "H", "L", "T", "E", "junk"}, of : 0..MaxResponses]
  /\ chunked \in BOOLEAN /\ not_modified \in BOOLEAN
  /\ recv_content_size \in Nat \cup {None}
  /\ of \subseteq 0..MaxResponses
  /\ line.text = "L" => line.of \in 1..r

HeadOwn ==
  /\ of \subseteq {r}
  /\ line.text = "L" => line.of = r /\ frame.by = "length"
  /\ line.text = "T" => frame.by = "chunked"
  /\ chunked => frame.by = "chunked"
  /\ recv_content_size # None => frame.by = "length"
  /\ not_modified => frame.bare

HeadOK == HeadTyped /\ (~late => HeadOwn)

\* As long as every relay has read its response to the end, all that is on
\* the way belongs to this response, and nothing follows its last chunk.
StreamOK ==
  /\ wire \in Seq(Seen) /\ buf \in Seq(Seen)
  /\ ~late => /\ wire \in Seq(Own) /\ buf \in Seq(Own)
              /\ ZLast(wire)
              /\ \A i \in DOMAIN buf :
                   buf[i].text = "z" => i = Len(buf) /\ wire = <<>>

PlaceOK ==
  /\ pc # "idle" => r > 0 /\ (pc = "curl" <=> libcurl)
  /\ pc = "parse" => before_content
  /\ pc = "data" => ~before_content /\ buf # <<>>
  /\ recv_content_size = 0 => ~before_content
  /\ pc = "idle" /\ ~late => wire = <<>>

\* libcurl hands on the head of an interim response and then another.
TwoHeads == libcurl /\ frame.ahead = "interim"

\* What was sent to the client while the relay goes on.
HeadFirst(s) == \A i \in DOMAIN s : s[i].kind = "head" <=> i = 1

Going(s) ==
  \A i \in DOMAIN s : /\ s[i].kind # "end"
                      /\ s[i].kind = "last" => i = Len(s)

Begun(s) == Going(s) /\ (TwoHeads \/ HeadFirst(s))

HasLast(s) == \E i \in DOMAIN s : s[i].kind = "last"

SentOK ==
  /\ \A i \in DOMAIN out : out[i].of \subseteq {r}
  /\ pc # "idle" =>
       /\ Begun(out)
       /\ out = <<>> => before_content
       /\ before_content => out = <<>> \/ TwoHeads
       /\ HasLast(out) => /\ wire = <<>> /\ buf = <<>> /\ pc # "curl"
                          /\ frame.by = "chunked" /\ ~frame.bare
  /\ pc = "end" =>
       \/ result = "eof"
       \/ result = "end" /\ ~before_content /\ ~HasLast(out)
  /\ pc = "idle" => ResponseShape

IInv == TypeOK /\ HeadOK /\ StreamOK /\ PlaceOK /\ (~late => SentOK)

LEMMA FrameFacts ==
  ASSUME NEW f \in Frames
  PROVE  /\ f.by \in {"length", "chunked", "close"} /\ f.n \in Nat
         /\ f.status \in {"S", "204", "304"} /\ f.bare \in BOOLEAN
         /\ f.ahead \in {"", "empty", "interim"}
         /\ f.status # "S" => f.bare
<1>1. /\ f \in [by : {"length", "chunked", "close"}, n : {0, BodySize},
                status : {"S", "204", "304"}, bare : BOOLEAN,
                ahead : {"", "empty", "interim"}]
      /\ f.status # "S" => f.bare
  BY DEF Frames
<1>2. f.n \in {0, BodySize}
  BY <1>1
<1>3. f.n \in Nat
  BY <1>2, BoundsAssumption
<1> QED BY <1>1, <1>3

-----------------------------------------------------------------------------
(* Sequences.                                                              *)

LEMMA SeqGrows ==
  ASSUME NEW S, NEW T, S \subseteq T, NEW s \in Seq(S)
  PROVE  s \in Seq(T)
OBVIOUS

\* t is what is left of s after its first n elements, or these.
IsSuffix(t, s, n, S) ==
  /\ t \in Seq(S) /\ Len(t) = Len(s) - n /\ Len(t) \in Nat
  /\ DOMAIN t = 1..Len(t)
  /\ \A i \in 1..Len(t) : n + i \in DOMAIN s /\ t[i] = s[n + i]
  /\ n = Len(s) => t = <<>>

IsFront(t, s, n, S) ==
  /\ t \in Seq(S) /\ Len(t) = n /\ DOMAIN t = 1..n
  /\ \A i \in 1..n : i \in DOMAIN s /\ t[i] = s[i]

LEMMA SuffixFacts ==
  ASSUME NEW S, NEW s \in Seq(S), NEW n \in 0..Len(s)
  PROVE  IsSuffix(SubSeq(s, n + 1, Len(s)), s, n, S)
BY DEF IsSuffix

LEMMA PrefixFacts ==
  ASSUME NEW S, NEW s \in Seq(S), NEW n \in 0..Len(s)
  PROVE  IsFront(SubSeq(s, 1, n), s, n, S)
BY DEF IsFront

\* s with one element more.
Extends(t, s, x, S) ==
  /\ t \in Seq(S) /\ Len(t) = Len(s) + 1 /\ Len(s) \in Nat
  /\ DOMAIN t = 1..(Len(s) + 1) /\ DOMAIN s = 1..Len(s)
  /\ \A i \in 1..Len(s) : t[i] = s[i]
  /\ t[Len(s) + 1] = x /\ t # <<>>

LEMMA AppendFacts ==
  ASSUME NEW S, NEW s \in Seq(S), NEW x \in S
  PROVE  Extends(Append(s, x), s, x, S)
BY DEF Extends

LEMMA SameFrame ==
  ASSUME UNCHANGED <<r, frames>>
  PROVE  Seen' = Seen /\ Own' = Own /\ frame' = frame
BY DEF Seen, Own, frame

LEMMA OwnIn == Own \subseteq Seen /\ Seen \subseteq Tokens
BY DEF Own, Seen

LEMMA PieceType ==
  ASSUME NEW k \in {"head", "chunk", "raw", "last", "end"}, NEW n \in Nat,
         NEW f \in SUBSET (0..MaxResponses)
  PROVE  /\ Piece(k, n, f) \in Pieces
         /\ Piece(k, n, f).kind = k /\ Piece(k, n, f).of = f
BY DEF Piece, Pieces

LEMMA RelayedType ==
  ASSUME NEW s \in Seq(Pieces)
  PROVE  Relayed(s) \in Nat
<1>1. CASE s = <<>>
  BY <1>1 DEF Relayed
<1>2. CASE s # <<>>
  <2>1. s[Len(s)] \in Pieces
    BY <1>2
  <2> QED BY <1>2, <2>1 DEF Relayed, Pieces
<1> QED BY <1>1, <1>2

LEMMA NoLineType ==
  /\ NoLine \in [text : {"", "H", "L", "T", "E", "junk"}, of : 0..MaxResponses]
  /\ NoLine.text = "" /\ NoLine.text \notin {"H", "L", "T", "E", "junk"}
<1>1. 0 \in 0..MaxResponses
  BY BoundsAssumption
<1> QED BY <1>1 DEF NoLine

LEMMA InitInv == Init => IInv
<1> SUFFICES ASSUME Init PROVE IInv
  OBVIOUS
<1> USE BoundsAssumption DEF Init
<1>1. HeadTyped
  <2>1. line \in [text : {"", "H", "L", "T", "E", "junk"}, of : 0..MaxResponses]
    BY NoLineType
  <2> QED BY <2>1, NoLineType DEF HeadTyped
<1>2. TypeOK
  <2>1. <<>> \in Seq(Frames) /\ <<>> \in Seq(Tokens) /\ Len(<<>>) = 0
    OBVIOUS
  <2>2. out \in Seq([kind : {"head", "chunk", "raw", "last", "end"},
                     n : Nat, of : SUBSET (0..MaxResponses)])
    OBVIOUS
  <2>3. r \in 0..MaxResponses /\ wait_ticks \in 0..req_timeout_ticks
    OBVIOUS
  <2> QED BY <1>1, <2>1, <2>2, <2>3 DEF TypeOK, HeadTyped
<1>3. HeadOK
  <2>1. HeadOwn
    BY NoLineType DEF HeadOwn
  <2> QED BY <1>1, <2>1 DEF HeadOK
<1>4. DOMAIN out = {} /\ DOMAIN wire = {} /\ DOMAIN buf = {}
  OBVIOUS
<1>5. StreamOK
  BY <1>4 DEF StreamOK, ZLast
<1>6. PlaceOK
  BY DEF PlaceOK, None
<1>7. SentOK
  BY <1>4 DEF SentOK, ResponseShape
<1> QED BY <1>2, <1>3, <1>5, <1>6, <1>7 DEF IInv

-----------------------------------------------------------------------------
(* A relay ends.                                                           *)

\* What of TypeOK the steps of a relay may change.
NetTyped ==
  /\ pc \in {"idle", "read", "parse", "data", "end", "curl"}
  /\ wire \in Seq(Tokens) /\ fin \in BOOLEAN /\ silent \in BOOLEAN
  /\ kept \in BOOLEAN /\ buf \in Seq(Tokens)
  /\ before_content \in BOOLEAN
  /\ wait_ticks \in 0..req_timeout_ticks
  /\ out \in Seq(Pieces)
  /\ result \in {"none", "end", "eof", "timeout", "error"}
  /\ late \in BOOLEAN

LEMMA TypeParts ==
  /\ TypeOK => NetTyped
  /\ TypeOK /\ UNCHANGED <<libcurl, r, frames>> /\ HeadTyped' /\ NetTyped' =>
       TypeOK'
<1>1. TypeOK => NetTyped
  BY DEF TypeOK, NetTyped, Pieces
<1>2. TypeOK /\ UNCHANGED <<libcurl, r, frames>> /\ HeadTyped' /\ NetTyped' =>
        TypeOK'
  BY DEF TypeOK, NetTyped, HeadTyped, Pieces
<1> QED BY <1>1, <1>2

\* The last step of a relay.
EndStep ==
  /\ pc # "idle" /\ pc' = "idle"
  /\ result' \in {"none", "end", "eof", "timeout", "error"}
  /\ fin' \in BOOLEAN /\ silent' \in BOOLEAN /\ kept' \in BOOLEAN
  /\ wire' = wire \/ wire' = <<>>
  /\ buf' = buf \/ buf' = <<>>
  /\ UNCHANGED <<libcurl, r, frames, before_first_line, before_content, line,
                 chunked, not_modified, recv_content_size, wait_ticks, of>>
  /\ late' \in BOOLEAN /\ (late => late')
  /\ ~late' => wire' = <<>>
  /\ out' \in Seq(Pieces)
  /\ ~late' => /\ \A i \in DOMAIN out' : out'[i].of \subseteq {r}
               /\ ResponseShape'

LEMMA EndInv ==
  ASSUME IInv, EndStep
  PROVE  IInv'
<1> USE DEF IInv
<1>1. Seen' = Seen /\ Own' = Own /\ frame' = frame
  BY SameFrame DEF EndStep
<1>2. HeadOK'
  BY <1>1 DEF HeadOK, HeadTyped, HeadOwn, EndStep
<1>3. StreamOK'
  <2>1. <<>> \in Seq(Seen) /\ <<>> \in Seq(Own) /\ DOMAIN <<>> = {}
    OBVIOUS
  <2>2. wire' = <<>> => ZLast(wire)'
    BY DEF ZLast
  <2>3. ~late' => ~late /\ wire' = <<>>
    BY DEF EndStep
  <2>4. wire' \in Seq(Seen) /\ buf' \in Seq(Seen)
    BY <2>1 DEF StreamOK, EndStep
  <2>5. ~late' => /\ wire' \in Seq(Own) /\ buf' \in Seq(Own)
                  /\ \A i \in DOMAIN buf' :
                       buf'[i].text = "z" => i = Len(buf') /\ wire' = <<>>
    BY <2>1, <2>3 DEF StreamOK, EndStep
  <2> QED BY <1>1, <2>2, <2>3, <2>4, <2>5 DEF StreamOK
<1>4. NetTyped'
  <2>1. <<>> \in Seq(Tokens)
    OBVIOUS
  <2> QED BY <2>1, TypeParts DEF EndStep, NetTyped
<1>5. TypeOK'
  BY <1>2, <1>4, TypeParts DEF EndStep, HeadOK
<1>6. PlaceOK'
  BY DEF PlaceOK, EndStep
<1>7. ~late' => SentOK'
  BY DEF SentOK, EndStep
<1> QED BY <1>2, <1>3, <1>5, <1>6, <1>7

\* What was sent so far is a response, whatever its end.
LEMMA BegunOrder ==
  ASSUME NEW s \in Seq(Pieces), Going(s), HeadFirst(s)
  PROVE  /\ \A i \in DOMAIN s : (s[i].kind = "head") <=> (i = 1)
         /\ \A i, j \in DOMAIN s :
              ~(i < j /\ s[i].kind \in {"last", "end"})
<1>1. DOMAIN s = 1..Len(s) /\ Len(s) \in Nat
  OBVIOUS
<1>2. ASSUME NEW i \in DOMAIN s, NEW j \in DOMAIN s, i < j,
             s[i].kind \in {"last", "end"}
      PROVE  FALSE
  <2>1. i = Len(s)
    BY <1>2 DEF Going
  <2> QED BY <1>1, <1>2, <2>1
<1> QED BY <1>2 DEF HeadFirst

LEMMA BegunShape ==
  ASSUME Begun(out)', out' \in Seq(Pieces)
  PROVE  ResponseShape'
<1>1. DOMAIN out' = {} \/ out' # <<>>
  OBVIOUS
<1>2. CASE TwoHeads'
  BY <1>1, <1>2 DEF ResponseShape, TwoHeads
<1>3. CASE ~TwoHeads'
  <2>1. Going(out') /\ HeadFirst(out')
    BY <1>3 DEF Begun, Going, HeadFirst
  <2> QED BY <2>1, BegunOrder DEF ResponseShape
<1> QED BY <1>2, <1>3

\* The relay ends without sending more.
LEMMA QuietEnd ==
  ASSUME IInv, pc # "idle", pc' = "idle",
         result' \in {"none", "end", "eof", "timeout", "error"},
         fin' \in BOOLEAN /\ silent' \in BOOLEAN /\ kept' \in BOOLEAN,
         wire' = wire \/ wire' = <<>>,
         buf' = buf \/ buf' = <<>>,
         UNCHANGED <<libcurl, r, frames, before_first_line, before_content,
                     line, chunked, not_modified, recv_content_size,
                     wait_ticks, of, out>>,
         late' \in BOOLEAN, late => late', ~late' => wire' = <<>>
  PROVE  IInv'
<1>1. out' \in Seq(Pieces)
  BY DEF IInv, TypeOK, Pieces
<1>2. ~late' => \A i \in DOMAIN out' : out'[i].of \subseteq {r}
  BY DEF IInv, SentOK
<1>3. ~late' => Begun(out)'
  BY SameFrame DEF IInv, SentOK, Begun, Going, HeadFirst, TwoHeads
<1>4. EndStep
  BY <1>1, <1>2, <1>3, BegunShape DEF EndStep
<1> QED BY <1>4, EndInv

\* The end of the body is sent.
LEMMA EndedShape ==
  ASSUME UNCHANGED <<libcurl, r, frames>>, Begun(out),
         NEW e, Extends(out', out, e, Pieces), e.kind = "end",
         out = <<>> => result' = "eof" /\ before_content',
         HasLast(out) => result' = "eof"
  PROVE  ResponseShape'
<1>1. /\ DOMAIN out' = 1..(Len(out) + 1) /\ DOMAIN out = 1..Len(out)
      /\ Len(out) \in Nat /\ out'[Len(out) + 1] = e
      /\ \A i \in 1..Len(out) : out'[i] = out[i]
  BY DEF Extends
<1>2. \A i \in DOMAIN out' : i \in DOMAIN out \/ i = Len(out) + 1
  BY <1>1
<1>3. out # <<>> => Len(out) > 0
  BY <1>1
<1>4. ASSUME NEW i \in DOMAIN out', HeadFirst(out)
      PROVE  \/ (out'[i].kind = "head") <=> (i = 1)
             \/ /\ out'[i].kind = "end" /\ i = 1 /\ result' = "eof"
                /\ before_content'
  <2>1. CASE i \in DOMAIN out
    BY <1>1, <1>4, <2>1 DEF HeadFirst
  <2>2. CASE i = Len(out) + 1 /\ out # <<>>
    BY <1>1, <1>3, <2>2
  <2>3. CASE i = Len(out) + 1 /\ out = <<>>
    BY <1>1, <2>3
  <2> QED BY <1>2, <2>1, <2>2, <2>3
<1>5. ASSUME NEW i \in DOMAIN out', NEW j \in DOMAIN out', i < j,
             out'[i].kind \in {"last", "end"}
      PROVE  /\ out'[i].kind = "last" /\ out'[j].kind = "end"
             /\ result' = "eof"
  <2>1. i \in DOMAIN out
    BY <1>1, <1>2, <1>5
  <2>2. out'[i] = out[i] /\ out[i].kind = "last" /\ i = Len(out)
    BY <1>1, <1>5, <2>1 DEF Begun, Going
  <2>3. j = Len(out) + 1
    BY <1>1, <1>5, <2>2
  <2>4. result' = "eof"
    BY <2>1, <2>2 DEF HasLast
  <2> QED BY <1>1, <2>2, <2>3, <2>4
<1>6. CASE TwoHeads
  <2>1. out' # <<>> /\ frame' = frame
    BY SameFrame DEF Extends
  <2> QED BY <1>6, <2>1 DEF ResponseShape, TwoHeads
<1>7. CASE HeadFirst(out)
  BY <1>4, <1>5, <1>7 DEF ResponseShape
<1> QED BY <1>6, <1>7 DEF Begun

LEMMA ReadErrorInv ==
  ASSUME IInv, ReadError
  PROVE  IInv'
<1>1. late \in BOOLEAN
  BY DEF IInv, TypeOK
<1> QED BY <1>1, QuietEnd DEF ReadError, Return, Turn, parser

LEMMA TimedOutInv ==
  ASSUME IInv, TimedOut
  PROVE  IInv'
<1>1. /\ late \in BOOLEAN /\ fin \in BOOLEAN /\ silent \in BOOLEAN
      /\ kept \in BOOLEAN
  BY DEF IInv, TypeOK
<1>2. late' \in BOOLEAN /\ (late => late') /\ (~late' => wire' = <<>>)
  BY DEF TimedOut, Leave, conn
<1> QED BY <1>1, <1>2, QuietEnd DEF TimedOut, Leave, parser, conn

\* The relay sends the end of the body and ends.
LEMMA LoudEnd ==
  ASSUME IInv, pc # "idle", pc' = "idle",
         result' \in {"end", "eof"},
         fin' \in BOOLEAN /\ silent' \in BOOLEAN /\ kept' \in BOOLEAN,
         wire' = wire \/ wire' = <<>>,
         UNCHANGED <<libcurl, r, frames, parser, wait_ticks>>,
         late' \in BOOLEAN, late => late', ~late' => wire' = <<>>,
         out' = Append(out, Piece("end", Relayed(out), {r})),
         ~late => \/ result' = "eof"
                  \/ ~before_content /\ ~HasLast(out)
  PROVE  IInv'
<1>1. out \in Seq(Pieces) /\ r \in 0..MaxResponses
  BY DEF IInv, TypeOK, Pieces
<1>2. PICK e : e = Piece("end", Relayed(out), {r})
  OBVIOUS
<1>3. e \in Pieces /\ e.kind = "end" /\ e.of = {r}
  BY <1>1, <1>2, PieceType, RelayedType
<1>4. Extends(out', out, e, Pieces)
  BY <1>1, <1>2, <1>3, AppendFacts
<1>5. ASSUME ~late'
      PROVE  /\ \A i \in DOMAIN out' : out'[i].of \subseteq {r}
             /\ ResponseShape'
  <2>1. ~late /\ Begun(out) /\ (out = <<>> => before_content)
    BY <1>5 DEF IInv, SentOK
  <2>2. \A i \in DOMAIN out : out[i].of \subseteq {r}
    BY <2>1 DEF IInv, SentOK
  <2>3. \A i \in DOMAIN out' : out'[i].of \subseteq {r}
    <3>1. \A i \in DOMAIN out' : i \in DOMAIN out \/ i = Len(out) + 1
      BY <1>4 DEF Extends
    <3> QED BY <1>3, <1>4, <2>2, <3>1 DEF Extends
  <2>4. before_content' = before_content
    BY DEF parser
  <2>5. /\ out = <<>> => result' = "eof" /\ before_content'
        /\ HasLast(out) => result' = "eof"
    BY <2>1, <2>4
  <2>6. ResponseShape'
    BY <1>3, <1>4, <2>1, <2>5, EndedShape
  <2> QED BY <2>3, <2>6
<1>6. EndStep
  BY <1>4, <1>5 DEF EndStep, Extends, parser
<1> QED BY <1>6, EndInv

LEMMA WriteEndInv ==
  ASSUME IInv, WriteEnd
  PROVE  IInv'
<1>1. /\ late \in BOOLEAN /\ fin \in BOOLEAN /\ silent \in BOOLEAN
      /\ kept \in BOOLEAN /\ pc = "end"
  BY DEF IInv, TypeOK, WriteEnd
<1>2. UNCHANGED <<libcurl, r, frames, parser, wait_ticks>>
  BY DEF WriteEnd
<1>3. CASE Return /\ UNCHANGED <<out, late>>
  BY <1>1, <1>2, <1>3, QuietEnd DEF Return, parser
<1>4. CASE /\ out' = Append(out, Piece("end", Relayed(out), {r}))
           /\ pc' = "idle"
           /\ late' = (late \/ wire # <<>>) /\ UNCHANGED <<conn, result>>
  <2>1. late' \in BOOLEAN /\ (late => late') /\ (~late' => wire' = <<>>)
    BY <1>1, <1>4 DEF conn
  <2>2. CASE late
    <3>1. late'
      BY <1>4, <2>2
    <3>2. /\ out \in Seq(Pieces) /\ r \in 0..MaxResponses
          /\ result \in {"none", "end", "eof", "timeout", "error"}
      BY DEF IInv, TypeOK, Pieces
    <3>3. Piece("end", Relayed(out), {r}) \in Pieces
      BY <3>2, PieceType, RelayedType
    <3>4. out' \in Seq(Pieces)
      BY <1>4, <3>2, <3>3
    <3>5. EndStep
      BY <1>1, <1>2, <1>4, <2>1, <3>1, <3>2, <3>4 DEF EndStep, parser, conn
    <3> QED BY <3>5, EndInv
  <2>3. CASE ~late
    <3>1. /\ result' \in {"end", "eof"}
          /\ \/ result' = "eof"
             \/ ~before_content /\ ~HasLast(out)
      BY <1>1, <1>4, <2>3 DEF IInv, SentOK
    <3> QED BY <1>1, <1>2, <1>4, <2>1, <3>1, LoudEnd DEF conn
  <2> QED BY <2>2, <2>3
<1> QED BY <1>3, <1>4 DEF WriteEnd

-----------------------------------------------------------------------------
(* The stream.                                                             *)

LEMMA StreamSame ==
  ASSUME StreamOK, UNCHANGED <<r, frames, wire, buf, late>>
  PROVE  StreamOK'
BY SameFrame DEF StreamOK, ZLast

\* The parser goes on in the last read.
LEMMA StreamDrop ==
  ASSUME StreamOK, UNCHANGED <<r, frames, wire, late>>,
         NEW n \in 0..Len(buf), buf' = SubSeq(buf, n + 1, Len(buf))
  PROVE  StreamOK'
<1>1. Seen' = Seen /\ Own' = Own
  BY SameFrame
<1>2. buf \in Seq(Seen) /\ wire \in Seq(Seen)
  BY DEF StreamOK
<1>3. IsSuffix(buf', buf, n, Seen)
  BY <1>2, SuffixFacts
<1>4. ASSUME ~late
      PROVE  /\ buf' \in Seq(Own)
             /\ \A i \in DOMAIN buf' :
                  buf'[i].text = "z" => i = Len(buf') /\ wire = <<>>
  <2>1. buf \in Seq(Own)
    BY <1>4 DEF StreamOK
  <2>2. IsSuffix(buf', buf, n, Own)
    BY <2>1, SuffixFacts
  <2>3. ASSUME NEW i \in DOMAIN buf', buf'[i].text = "z"
        PROVE  i = Len(buf') /\ wire = <<>>
    <3>1. n + i \in DOMAIN buf /\ buf'[i] = buf[n + i] /\ i \in 1..Len(buf')
          /\ Len(buf') = Len(buf) - n
      BY <2>2 DEF IsSuffix
    <3>2. n + i = Len(buf) /\ wire = <<>>
      BY <1>4, <2>3, <3>1 DEF StreamOK
    <3> QED BY <1>2, <3>1, <3>2
  <2> QED BY <2>2, <2>3 DEF IsSuffix
<1> QED BY <1>1, <1>2, <1>3, <1>4 DEF StreamOK, IsSuffix, ZLast

\* The first n bytes are taken off the wire, into the buffer or not.
LEMMA StreamTake ==
  ASSUME StreamOK, UNCHANGED <<r, frames, late>>, NEW n \in 0..Len(wire),
         wire' = SubSeq(wire, n + 1, Len(wire)),
         buf' = buf \/ buf' = SubSeq(wire, 1, n)
  PROVE  StreamOK'
<1>1. Seen' = Seen /\ Own' = Own
  BY SameFrame
<1>2. buf \in Seq(Seen) /\ wire \in Seq(Seen) /\ Len(wire) \in Nat
  BY DEF StreamOK
<1>3. IsSuffix(wire', wire, n, Seen)
  BY <1>2, SuffixFacts
<1>4. IsFront(SubSeq(wire, 1, n), wire, n, Seen)
  BY <1>2, PrefixFacts
<1>5. ASSUME ~late
      PROVE  /\ buf' \in Seq(Own) /\ wire' \in Seq(Own) /\ ZLast(wire)'
             /\ \A i \in DOMAIN buf' :
                  buf'[i].text = "z" => i = Len(buf') /\ wire' = <<>>
  <2>1. wire \in Seq(Own) /\ buf \in Seq(Own) /\ ZLast(wire)
    BY <1>5 DEF StreamOK
  <2>2. IsSuffix(wire', wire, n, Own)
    BY <2>1, SuffixFacts
  <2>3. IsFront(SubSeq(wire, 1, n), wire, n, Own)
    BY <2>1, PrefixFacts
  <2>4. ASSUME NEW i \in DOMAIN wire', wire'[i].text = "z"
        PROVE  i = Len(wire')
    <3>1. /\ n + i \in DOMAIN wire /\ wire'[i] = wire[n + i]
          /\ i \in 1..Len(wire')
          /\ Len(wire') = Len(wire) - n
      BY <2>2 DEF IsSuffix
    <3>2. n + i = Len(wire)
      BY <2>1, <2>4, <3>1 DEF ZLast
    <3> QED BY <1>2, <3>1, <3>2
  <2>5. CASE buf' = buf
    <3>1. wire = <<>> => wire' = <<>>
      BY <1>2, <2>2 DEF IsSuffix
    <3> QED BY <1>5, <2>1, <2>2, <2>4, <2>5, <3>1 DEF StreamOK, IsSuffix, ZLast
  <2>6. CASE buf' = SubSeq(wire, 1, n)
    <3>1. ASSUME NEW i \in DOMAIN buf', buf'[i].text = "z"
          PROVE  i = Len(buf') /\ wire' = <<>>
      <4>1. i \in 1..n /\ i \in DOMAIN wire /\ buf'[i] = wire[i]
            /\ Len(buf') = n
        BY <2>3, <2>6 DEF IsFront
      <4>2. i = Len(wire)
        BY <2>1, <3>1, <4>1 DEF ZLast
      <4>3. n = Len(wire)
        BY <1>2, <4>1, <4>2
      <4> QED BY <2>2, <4>1, <4>2, <4>3 DEF IsSuffix
    <3> QED BY <2>2, <2>3, <2>4, <2>6, <3>1 DEF IsSuffix, IsFront, ZLast
  <2> QED BY <2>5, <2>6
<1>6. wire' \in Seq(Seen) /\ buf' \in Seq(Seen)
  BY <1>2, <1>3, <1>4 DEF IsSuffix, IsFront
<1> QED BY <1>1, <1>5, <1>6 DEF StreamOK

\* The destination stops after the first n bytes.
LEMMA StreamCut ==
  ASSUME StreamOK, UNCHANGED <<r, frames, late, buf>>, NEW n \in 0..Len(wire),
         wire' = SubSeq(wire, 1, n)
  PROVE  StreamOK' /\ (wire = <<>> => wire' = <<>>)
<1>1. Seen' = Seen /\ Own' = Own
  BY SameFrame
<1>2. buf \in Seq(Seen) /\ wire \in Seq(Seen) /\ Len(wire) \in Nat
  BY DEF StreamOK
<1>3. IsFront(wire', wire, n, Seen)
  BY <1>2, PrefixFacts
<1>4. wire = <<>> => wire' = <<>>
  <2>1. wire = <<>> => n = 0
    BY <1>2
  <2> QED BY <1>3, <2>1 DEF IsFront
<1>5. ASSUME ~late
      PROVE  wire' \in Seq(Own) /\ ZLast(wire)'
  <2>1. wire \in Seq(Own) /\ ZLast(wire)
    BY <1>5 DEF StreamOK
  <2>2. IsFront(wire', wire, n, Own)
    BY <2>1, PrefixFacts
  <2>3. ASSUME NEW i \in DOMAIN wire', wire'[i].text = "z"
        PROVE  i = Len(wire')
    <3>1. i \in 1..n /\ i \in DOMAIN wire /\ wire'[i] = wire[i]
          /\ Len(wire') = n
      BY <2>2 DEF IsFront
    <3>2. i = Len(wire)
      BY <2>1, <2>3, <3>1 DEF ZLast
    <3> QED BY <1>2, <3>1, <3>2
  <2> QED BY <2>2, <2>3 DEF IsFront, ZLast
<1> QED BY <1>1, <1>2, <1>3, <1>4, <1>5 DEF StreamOK, IsFront

LEMMA HeadSame ==
  ASSUME HeadOK, UNCHANGED <<r, frames, late, before_first_line, line,
                             chunked, not_modified, recv_content_size, of>>
  PROVE  HeadOK'
BY SameFrame DEF HeadOK, HeadTyped, HeadOwn

LEMMA StreamIn == StreamOK => wire \in Seq(Tokens) /\ buf \in Seq(Tokens)
BY OwnIn, SeqGrows DEF StreamOK

-----------------------------------------------------------------------------
(* A relay goes on.                                                        *)

LEMMA DestStopsInv ==
  ASSUME IInv, DestStops
  PROVE  IInv'
<1> USE DEF IInv
<1>1. /\ UNCHANGED <<libcurl, pc, r, frames, kept, parser, wait_ticks, out,
                     result, late>>
      /\ fin' \in {fin, TRUE} /\ silent' \in {silent, TRUE}
  BY DEF DestStops
<1>2. PICK n \in 0..Len(wire) : wire' = SubSeq(wire, 1, n)
  BY DEF DestStops
<1>3. StreamOK' /\ (wire = <<>> => wire' = <<>>)
  BY <1>1, <1>2, StreamCut DEF parser
<1>4. HeadOK'
  BY <1>1, HeadSame DEF parser
<1>5. NetTyped'
  <2>1. wire' \in Seq(Tokens)
    <3>1. wire \in Seq(Tokens)
      BY DEF TypeOK
    <3> QED BY <1>2, <3>1
  <2> QED BY <1>1, <2>1, TypeParts DEF NetTyped, parser
<1>6. TypeOK'
  BY <1>1, <1>4, <1>5, TypeParts DEF HeadOK
<1>7. PlaceOK'
  BY <1>1, <1>3 DEF PlaceOK, parser
<1>8. ~late' => SentOK'
  <2>1. frame' = frame
    BY <1>1, SameFrame
  <2>2. /\ (Begun(out)' <=> Begun(out)) /\ (HasLast(out)' <=> HasLast(out))
        /\ (TwoHeads' <=> TwoHeads)
    BY <1>1, <2>1 DEF Begun, Going, HeadFirst, TwoHeads, HasLast
  <2>3. ResponseShape' <=> ResponseShape
    BY <1>1, <2>1 DEF ResponseShape, parser
  <2> QED BY <1>1, <1>3, <2>1, <2>2, <2>3 DEF SentOK, parser
<1> QED BY <1>3, <1>4, <1>6, <1>7, <1>8

\* A step of a relay that sends nothing to the client.
QuietStep ==
  /\ pc # "idle"
  /\ pc' \in {"read", "parse", "data", "end", "curl"}
  /\ UNCHANGED <<libcurl, r, frames, before_content, out, late, fin, silent,
                 kept>>
  /\ HeadOK' /\ StreamOK'
  /\ wait_ticks' \in 0..req_timeout_ticks
  /\ result' \in {"none", "end", "eof", "timeout", "error"}
  /\ pc' = "parse" => before_content
  /\ pc' = "data" => ~before_content /\ buf' # <<>>
  /\ recv_content_size' = 0 => ~before_content
  /\ pc' = "curl" <=> pc = "curl"
  /\ ~late => /\ HasLast(out) => wire' = <<>> /\ buf' = <<>>
              /\ pc' = "end" =>
                   \/ result' = "eof"
                   \/ result' = "end" /\ ~before_content /\ ~HasLast(out)

LEMMA QuietInv ==
  ASSUME IInv, QuietStep
  PROVE  IInv'
<1> USE DEF IInv
<1>1. HeadOK' /\ StreamOK'
  BY DEF QuietStep
<1>2. NetTyped'
  <2>1. wire' \in Seq(Tokens) /\ buf' \in Seq(Tokens)
    <3>1. wire' \in Seq(Seen) /\ buf' \in Seq(Seen)
      BY SameFrame DEF QuietStep, StreamOK
    <3> QED BY <3>1, OwnIn, SeqGrows
  <2> QED BY <2>1, TypeParts DEF NetTyped, QuietStep
<1>3. TypeOK'
  BY <1>1, <1>2, TypeParts DEF HeadOK, QuietStep
<1>4. PlaceOK'
  BY DEF PlaceOK, QuietStep
<1>5. ~late' => SentOK'
  <2>1. frame' = frame
    BY SameFrame DEF QuietStep
  <2>2. /\ (Begun(out)' <=> Begun(out)) /\ (HasLast(out)' <=> HasLast(out))
        /\ (TwoHeads' <=> TwoHeads)
    BY <2>1 DEF Begun, Going, HeadFirst, TwoHeads, HasLast, QuietStep
  <2> QED BY <2>1, <2>2 DEF SentOK, QuietStep
<1> QED BY <1>1, <1>3, <1>4, <1>5

LEMMA WaitInv ==
  ASSUME IInv, NotModified \/ ReadNothing \/ ReadEof \/ ParseMore
  PROVE  IInv'
<1> USE DEF IInv
<1>1. /\ UNCHANGED <<libcurl, r, frames, conn, parser, out, late>>
      /\ pc \in {"read", "parse"}
  BY DEF NotModified, ReadNothing, ReadEof, ParseMore, Turn
<1>2. HeadOK' /\ StreamOK'
  BY <1>1, HeadSame, StreamSame DEF parser, conn
<1>3. /\ wait_ticks \in 0..req_timeout_ticks
      /\ result \in {"none", "end", "eof", "timeout", "error"}
  BY DEF TypeOK
<1>4. ~late /\ HasLast(out) => /\ wire = <<>> /\ buf = <<>>
                               /\ frame.by = "chunked" /\ ~frame.bare
  BY <1>1 DEF SentOK
<1>5. ~late /\ not_modified => ~HasLast(out)
  BY <1>4 DEF HeadOK, HeadOwn
<1>6. ~late /\ recv_content_size # None => ~HasLast(out)
  BY <1>4 DEF HeadOK, HeadOwn
<1>7. recv_content_size = 0 => ~before_content /\ recv_content_size # None
  BY DEF PlaceOK, None
<1>8. CASE NotModified
  BY <1>1, <1>2, <1>3, <1>4, <1>5, <1>7, <1>8, QuietInv
  DEF NotModified, QuietStep, conn, parser
<1>9. CASE ReadNothing
  <2>1. wait_ticks' \in 0..req_timeout_ticks
    BY <1>3, <1>9, BoundsAssumption DEF ReadNothing
  <2>2. \/ pc' = "end" /\ result' = "end" /\ recv_content_size = 0
        \/ UNCHANGED <<pc, result>> /\ pc = "read"
    BY <1>9 DEF ReadNothing, Turn
  <2> QED BY <1>1, <1>2, <1>3, <1>4, <1>6, <1>7, <2>1, <2>2, QuietInv
          DEF QuietStep, conn, parser
<1>10. CASE ReadEof
  BY <1>1, <1>2, <1>3, <1>4, <1>7, <1>10, QuietInv
  DEF ReadEof, QuietStep, conn, parser
<1>11. CASE ParseMore
  BY <1>1, <1>2, <1>3, <1>4, <1>7, <1>11, QuietInv
  DEF ParseMore, QuietStep, conn, parser
<1> QED BY <1>8, <1>9, <1>10, <1>11

LEMMA ReadInv ==
  ASSUME IInv, Read
  PROVE  IInv'
<1> USE DEF IInv
<1>1. PICK n \in 1..Len(wire) :
        buf' = SubSeq(wire, 1, n) /\ wire' = SubSeq(wire, n + 1, Len(wire))
  BY DEF Read
<1>2. /\ wire # <<>> /\ pc = "read" /\ wait_ticks' = 0
      /\ pc' = IF before_content THEN "parse" ELSE "data"
      /\ UNCHANGED <<libcurl, r, frames, fin, silent, kept, before_first_line,
                     before_content, line, chunked, not_modified,
                     recv_content_size, of, out, result, late>>
  BY DEF Read, Turn
<1>3. wire \in Seq(Seen) /\ Len(wire) \in Nat
  BY DEF StreamOK
<1>4. n \in 0..Len(wire)
  BY <1>3
<1>5. StreamOK'
  BY <1>1, <1>2, <1>4, StreamTake
<1>6. HeadOK'
  BY <1>2, HeadSame
<1>7. buf' # <<>>
  <2>1. IsFront(SubSeq(wire, 1, n), wire, n, Seen)
    BY <1>3, <1>4, PrefixFacts
  <2>2. Len(buf') = n
    BY <1>1, <2>1 DEF IsFront
  <2> QED BY <2>2
<1>8. ~late => ~HasLast(out)
  BY <1>2 DEF SentOK
<1>9. 0 \in 0..req_timeout_ticks
  BY BoundsAssumption
<1>10. result \in {"none", "end", "eof", "timeout", "error"}
  BY DEF TypeOK
<1>11. recv_content_size = 0 => ~before_content
  BY DEF PlaceOK
<1>12. before_content \in BOOLEAN
  BY DEF TypeOK
<1>13. QuietStep
  BY <1>2, <1>5, <1>6, <1>7, <1>8, <1>9, <1>10, <1>11, <1>12 DEF QuietStep
<1> QED BY <1>13, QuietInv

-----------------------------------------------------------------------------
(* The head is parsed.                                                     *)

LEMMA ParseStepInv ==
  ASSUME IInv, pc = "parse", pc' = "parse", NEW n \in 0..Len(buf),
         buf' = SubSeq(buf, n + 1, Len(buf)),
         UNCHANGED <<libcurl, r, frames, conn, before_content, wait_ticks,
                     out, result, late>>,
         HeadOK', recv_content_size' = 0 => recv_content_size = 0
  PROVE  IInv'
<1> USE DEF IInv
<1>1. StreamOK'
  BY StreamDrop DEF conn
<1>2. /\ wait_ticks \in 0..req_timeout_ticks
      /\ result \in {"none", "end", "eof", "timeout", "error"}
  BY DEF TypeOK
<1>3. before_content /\ recv_content_size # 0
  BY DEF PlaceOK
<1>4. ~late => ~HasLast(out)
  <2>1. ~late => out = <<>>
    BY <1>3 DEF SentOK, PlaceOK, TwoHeads
  <2> QED BY <2>1 DEF HasLast
<1>5. QuietStep
  BY <1>1, <1>2, <1>3, <1>4 DEF QuietStep, conn
<1> QED BY <1>5, QuietInv

\* A response that is not understood.
LEMMA UnparsedInv ==
  ASSUME IInv, pc = "parse", Unparsed,
         UNCHANGED <<libcurl, r, frames, wait_ticks, out>>
  PROVE  IInv'
<1>1. late \in BOOLEAN
  BY DEF IInv, TypeOK
<1> QED BY <1>1, QuietEnd DEF Unparsed, Return, parser

\* The first byte of the buffer.
LEMMA FirstByte ==
  ASSUME IInv, buf # <<>>
  PROVE  /\ 1 \in 0..Len(buf) /\ buf[1] \in Seen
         /\ buf[1].text \in Texts /\ buf[1].of \in 1..r
         /\ buf[1].of \in 0..MaxResponses
         /\ ~late => buf[1] \in Own
<1>1. buf \in Seq(Seen) /\ (~late => buf \in Seq(Own))
  BY DEF IInv, StreamOK
<1>2. 1 \in DOMAIN buf /\ 1 \in 0..Len(buf)
  BY <1>1
<1>3. buf[1] \in Seen
  BY <1>1, <1>2
<1>4. ~late => buf[1] \in Own
  BY <1>1, <1>2
<1> QED BY <1>2, <1>3, <1>4 DEF Seen, Tokens

LEMMA StartLength ==
  ASSUME buf \in Seq(Seen)
  PROVE  /\ StartsWith(<<"CR", "LF">>) => 2 \in 0..Len(buf)
         /\ EndOfHead => 4 \in 0..Len(buf) /\ StartsWith(<<"CR", "LF">>)
<1>1. Len(buf) \in Nat
  OBVIOUS
<1>2. StartsWith(<<"CR", "LF">>) => 2 \in 0..Len(buf)
  BY <1>1 DEF StartsWith
<1>3. EndOfHead => 4 \in 0..Len(buf)
  BY <1>1 DEF EndOfHead, StartsWith
<1>4. EndOfHead => StartsWith(<<"CR", "LF">>)
  BY <1>1 DEF EndOfHead, StartsWith
<1> QED BY <1>2, <1>3, <1>4

LEMMA ParseStatusInv ==
  ASSUME IInv, ParseStatus
  PROVE  IInv'
<1> USE DEF IInv
<1>1. /\ pc = "parse" /\ buf # <<>>
      /\ UNCHANGED <<libcurl, r, frames, before_content, line, chunked,
                     recv_content_size, wait_ticks, out>>
  BY DEF ParseStatus
<1>2. /\ 1 \in 0..Len(buf) /\ buf[1].of \in 0..MaxResponses
      /\ ~late => buf[1] \in Own
  BY <1>1, FirstByte
<1>3. frame' = frame
  BY <1>1, SameFrame
<1>4. CASE /\ Drop(1)
           /\ not_modified' = (not_modified \/ buf[1].text = "304")
           /\ of' = of \cup {buf[1].of}
           /\ UNCHANGED <<before_first_line, pc, conn, result, late>>
  <2>1. not_modified' \in BOOLEAN
    BY <1>4
  <2>2. HeadTyped'
    BY <1>1, <1>2, <1>4, <2>1 DEF HeadOK, HeadTyped
  <2>3. ~late => HeadOwn'
    BY <1>1, <1>2, <1>3, <1>4 DEF HeadOK, HeadOwn, Own
  <2>4. HeadOK'
    BY <1>4, <2>2, <2>3 DEF HeadOK
  <2> QED BY <1>1, <1>2, <1>4, <2>4, ParseStepInv DEF Drop
<1>5. CASE /\ StartsWith(<<"CR", "LF">>) /\ Drop(2)
           /\ before_first_line' = FALSE
           /\ UNCHANGED <<not_modified, of, pc, conn, result, late>>
  <2>1. HeadOK'
    BY <1>1, <1>3, <1>5 DEF HeadOK, HeadTyped, HeadOwn
  <2>2. 2 \in 0..Len(buf)
    BY <1>5, StartLength DEF StreamOK
  <2> QED BY <1>1, <1>5, <2>1, <2>2, ParseStepInv DEF Drop
<1>6. CASE Unparsed
  BY <1>1, <1>6, UnparsedInv
<1> QED BY <1>4, <1>5, <1>6 DEF ParseStatus

LEMMA ParseTextInv ==
  ASSUME IInv, ParseText
  PROVE  IInv'
<1> USE DEF IInv
<1>1. /\ pc = "parse" /\ buf # <<>> /\ Drop(1)
      /\ UNCHANGED <<libcurl, pc, r, frames, conn, before_first_line,
                     before_content, chunked, not_modified,
                     recv_content_size, wait_ticks, of, out, result, late>>
  BY DEF ParseText
<1>2. /\ 1 \in 0..Len(buf) /\ buf[1].of \in 0..MaxResponses
      /\ buf[1].of \in 1..r /\ (~late => buf[1] \in Own)
  BY <1>1, FirstByte
<1>3. frame' = frame
  BY <1>1, SameFrame
<1>4. \/ line' = line
      \/ line'.text = "junk" /\ line'.of = 0
         /\ line' \in [text : {"", "H", "L", "T", "E", "junk"},
                       of : 0..MaxResponses]
      \/ /\ line'.text = buf[1].text \/ line'.text = "H"
         /\ line'.of = buf[1].of
         /\ line' \in [text : {"", "H", "L", "T", "E", "junk"},
                       of : 0..MaxResponses]
  <2>1. 0 \in 0..MaxResponses
    BY BoundsAssumption
  <2>2. CASE line' = line
    BY <2>2
  <2>3. CASE line' = [text |-> "junk", of |-> 0]
    BY <2>1, <2>3
  <2>4. CASE /\ line.text = "E" \/ buf[1].text \in {"H", "L", "T", "E"}
             /\ line' = [text |-> IF \/ line = NoLine
                                     \/ line.text = "junk" /\ buf[1].text = "E"
                                  THEN buf[1].text ELSE "H",
                         of |-> buf[1].of]
    <3>1. PICK t : t = IF \/ line = NoLine
                          \/ line.text = "junk" /\ buf[1].text = "E"
                       THEN buf[1].text ELSE "H"
      OBVIOUS
    <3>2. line' = [text |-> t, of |-> buf[1].of]
      BY <2>4, <3>1
    <3>3. t \in {"H", "L", "T", "E"} /\ (t = buf[1].text \/ t = "H")
      BY <2>4, <3>1, NoLineType
    <3> QED BY <1>2, <3>2, <3>3
  <2> QED BY <2>2, <2>3, <2>4 DEF ParseText
<1>5. HeadTyped'
  BY <1>1, <1>2, <1>4 DEF HeadOK, HeadTyped
<1>6. ~late => HeadOwn'
  BY <1>1, <1>2, <1>3, <1>4 DEF HeadOK, HeadOwn, Own
<1>7. HeadOK'
  BY <1>1, <1>5, <1>6 DEF HeadOK
<1> QED BY <1>1, <1>2, <1>7, ParseStepInv DEF Drop

\* verify_header_fn keeps what is known of the head.
LEMMA VerifyHeaderOK ==
  ASSUME IInv, VerifyHeader,
         UNCHANGED <<r, frames, late, before_first_line, not_modified, of>>
  PROVE  HeadOK' /\ (recv_content_size' = 0 => recv_content_size = 0)
<1> USE DEF IInv
<1>1. frame' = frame
  BY SameFrame
<1>2. line.text = "L" => frames[line.of].n \in Nat
  <2>1. frames \in Seq(Frames) /\ Len(frames) = r
    BY DEF TypeOK
  <2>2. \A f \in Frames : f.n \in Nat
    BY FrameFacts
  <2>3. line.text = "L" => line.of \in DOMAIN frames
    <3>1. DOMAIN frames = 1..r
      BY <2>1
    <3>2. line.text = "L" => line.of \in 1..r
      BY DEF HeadOK, HeadTyped
    <3> QED BY <3>1, <3>2
  <2> QED BY <2>1, <2>2, <2>3
<1>3. /\ recv_content_size' \in Nat \cup {None}
      /\ recv_content_size' = recv_content_size \/ line.text = "L"
      /\ recv_content_size' = 0 => recv_content_size = 0
  <2>1. recv_content_size \in Nat \cup {None}
    BY DEF HeadOK, HeadTyped
  <2>2. CASE line.text = "L" /\ frames[line.of].n > 0
    <3>1. recv_content_size' = frames[line.of].n
      BY <2>2 DEF VerifyHeader
    <3> QED BY <1>2, <2>2, <3>1
  <2>3. CASE ~(line.text = "L" /\ frames[line.of].n > 0)
    BY <2>1, <2>3 DEF VerifyHeader
  <2> QED BY <2>2, <2>3
<1>4. chunked' \in BOOLEAN /\ (chunked' => chunked \/ line.text = "T")
  BY DEF VerifyHeader
<1>5. /\ line' \in [text : {"", "H", "L", "T", "E", "junk"}, of : 0..MaxResponses]
      /\ line'.text \notin {"L", "T"}
  BY NoLineType DEF VerifyHeader
<1>6. HeadTyped'
  BY <1>3, <1>4, <1>5 DEF HeadOK, HeadTyped
<1>7. ~late => HeadOwn'
  BY <1>1, <1>3, <1>4, <1>5 DEF HeadOK, HeadOwn
<1> QED BY <1>3, <1>6, <1>7 DEF HeadOK

LEMMA ParseLineEndInv ==
  ASSUME IInv, ParseLineEnd
  PROVE  IInv'
<1> USE DEF IInv
<1>1. /\ pc = "parse" /\ buf # <<>>
      /\ UNCHANGED <<libcurl, r, frames, wait_ticks, out>>
  BY DEF ParseLineEnd
<1>2. CASE /\ StartsWith(<<"CR", "LF">>) /\ VerifyHeader /\ Drop(2)
           /\ UNCHANGED <<pc, conn, result, late, before_first_line,
                          before_content, not_modified, of>>
  <2>1. HeadOK' /\ (recv_content_size' = 0 => recv_content_size = 0)
    BY <1>1, <1>2, VerifyHeaderOK
  <2>2. 2 \in 0..Len(buf)
    BY <1>2, StartLength DEF StreamOK
  <2> QED BY <1>1, <1>2, <2>1, <2>2, ParseStepInv DEF Drop
<1>3. CASE /\ Drop(1)
           /\ UNCHANGED <<pc, conn, result, late, before_first_line, line,
                          before_content, chunked, not_modified,
                          recv_content_size, of>>
  <2>1. HeadOK'
    BY <1>1, <1>3, HeadSame
  <2>2. 1 \in 0..Len(buf)
    BY <1>1, FirstByte
  <2> QED BY <1>1, <1>3, <2>1, <2>2, ParseStepInv DEF Drop
<1>4. CASE Unparsed
  BY <1>1, <1>4, UnparsedInv
<1> QED BY <1>2, <1>3, <1>4 DEF ParseLineEnd

-----------------------------------------------------------------------------
(* Something is sent to the client.                                        *)

\* p may follow what was sent.
Follows(p) ==
  /\ p.of \subseteq {r} /\ p.kind # "end" /\ ~HasLast(out)
  /\ out = <<>> => p.kind = "head"
  /\ p.kind = "head" => out = <<>> \/ TwoHeads

LEMMA BegunGrows ==
  ASSUME UNCHANGED <<libcurl, r, frames>>, Begun(out),
         NEW p, Follows(p), Extends(out', out, p, Pieces),
         \A i \in DOMAIN out : out[i].of \subseteq {r}
  PROVE  /\ Begun(out)' /\ out' # <<>>
         /\ \A i \in DOMAIN out' : out'[i].of \subseteq {r}
         /\ HasLast(out)' => p.kind = "last"
<1>1. /\ DOMAIN out' = 1..(Len(out) + 1) /\ DOMAIN out = 1..Len(out)
      /\ Len(out') = Len(out) + 1 /\ out' # <<>> /\ out' \in Seq(Pieces)
      /\ Len(out) \in Nat /\ out'[Len(out) + 1] = p
      /\ \A i \in 1..Len(out) : out'[i] = out[i]
  BY DEF Extends
<1>2. \A i \in DOMAIN out' : i \in DOMAIN out \/ i = Len(out) + 1
  BY <1>1
<1>3. out = <<>> <=> Len(out) + 1 = 1
  BY <1>1
<1>4. ASSUME NEW i \in DOMAIN out'
      PROVE  /\ TwoHeads \/ (out'[i].kind = "head" <=> i = 1)
             /\ out'[i].kind # "end"
             /\ out'[i].kind = "last" => i = Len(out') /\ p.kind = "last"
             /\ out'[i].of \subseteq {r}
  <2>1. CASE i \in DOMAIN out
    BY <1>1, <2>1 DEF Begun, Going, HeadFirst, Follows, HasLast
  <2>2. CASE i = Len(out) + 1
    BY <1>1, <1>3, <2>2 DEF Follows
  <2> QED BY <1>2, <2>1, <2>2
<1>5. Begun(out)'
  <2>1. TwoHeads' <=> TwoHeads
    BY SameFrame DEF TwoHeads
  <2>2. Going(out)'
    BY <1>4 DEF Going
  <2>3. TwoHeads \/ HeadFirst(out)'
    BY <1>4 DEF HeadFirst
  <2> QED BY <2>1, <2>2, <2>3 DEF Begun
<1> QED BY <1>1, <1>4, <1>5 DEF HasLast

\* A step of a relay that sends p and goes on.
SendStep(p) ==
  /\ pc # "idle" /\ pc' \in {"read", "data", "curl"}
  /\ UNCHANGED <<libcurl, r, frames, late, wait_ticks, result, fin, silent,
                 kept>>
  /\ HeadOK' /\ StreamOK'
  /\ before_content' \in BOOLEAN
  /\ before_content' => /\ TwoHeads /\ pc' = "curl"
                       /\ recv_content_size' # 0
  /\ pc' = "curl" <=> pc = "curl"
  /\ Extends(out', out, p, Pieces)
  /\ pc' = "data" => buf' # <<>>
  /\ ~late => /\ Follows(p)
              /\ p.kind = "last" => /\ wire' = <<>> /\ buf' = <<>>
                                    /\ pc' # "curl" /\ frame.by = "chunked"
                                    /\ ~frame.bare

LEMMA SendInv ==
  ASSUME IInv, NEW p, SendStep(p)
  PROVE  IInv'
<1> USE DEF IInv
<1>1. HeadOK' /\ StreamOK'
  BY DEF SendStep
<1>2. NetTyped'
  <2>1. wire' \in Seq(Tokens) /\ buf' \in Seq(Tokens)
    <3>1. wire' \in Seq(Seen) /\ buf' \in Seq(Seen)
      BY SameFrame DEF SendStep, StreamOK
    <3> QED BY <3>1, OwnIn, SeqGrows
  <2>2. out' \in Seq(Pieces)
    BY DEF SendStep, Extends
  <2> QED BY <2>1, <2>2, TypeParts DEF NetTyped, SendStep
<1>3. TypeOK'
  BY <1>1, <1>2, TypeParts DEF HeadOK, SendStep
<1>4. PlaceOK'
  BY DEF PlaceOK, SendStep
<1>5. ASSUME ~late' PROVE SentOK'
  <2>1. frame' = frame /\ ~late /\ Follows(p) /\ Extends(out', out, p, Pieces)
    BY <1>5, SameFrame DEF SendStep
  <2>2. Begun(out) /\ \A i \in DOMAIN out : out[i].of \subseteq {r}
    BY <2>1 DEF SentOK, SendStep
  <2>3. /\ Begun(out)' /\ out' # <<>>
        /\ \A i \in DOMAIN out' : out'[i].of \subseteq {r}
        /\ HasLast(out)' => p.kind = "last"
    BY <2>1, <2>2, BegunGrows DEF SendStep
  <2>4. TwoHeads' <=> TwoHeads
    BY <2>1 DEF TwoHeads, SendStep
  <2> QED BY <2>1, <2>3, <2>4 DEF SentOK, SendStep
<1> QED BY <1>1, <1>3, <1>4, <1>5

LEMMA ParseHeadEndInv ==
  ASSUME IInv, ParseHeadEnd
  PROVE  IInv'
<1> USE DEF IInv
<1>1. /\ pc = "parse" /\ buf # <<>> /\ EndOfHead
      /\ UNCHANGED <<libcurl, r, frames, wait_ticks>>
  BY DEF ParseHeadEnd
<1>2. CASE Unparsed /\ UNCHANGED out
  BY <1>1, <1>2, UnparsedInv
<1>3. CASE /\ VerifyHeader /\ Drop(4) /\ before_content' = FALSE
           /\ pc' = IF Len(buf) = 4 THEN "read" ELSE "data"
           /\ out' = Append(out, Piece("head", 0, of))
           /\ UNCHANGED <<conn, result, late, before_first_line,
                          not_modified, of>>
  <2>1. HeadOK'
    BY <1>1, <1>3, VerifyHeaderOK
  <2>2. 4 \in 0..Len(buf) /\ buf \in Seq(Seen)
    BY <1>1, StartLength DEF StreamOK
  <2>3. StreamOK'
    BY <1>1, <1>3, <2>2, StreamDrop DEF Drop, conn
  <2>4. pc' = "data" => buf' # <<>>
    <3>1. IsSuffix(SubSeq(buf, 4 + 1, Len(buf)), buf, 4, Seen)
      BY <2>2, SuffixFacts
    <3>2. Len(buf') = Len(buf) - 4
      BY <1>3, <3>1 DEF Drop, IsSuffix
    <3>3. Len(buf) \in Nat
      BY <2>2
    <3> QED BY <1>3, <3>2, <3>3
  <2>5. PICK p : p = Piece("head", 0, of)
    OBVIOUS
  <2>6. p \in Pieces /\ p.kind = "head" /\ p.of = of
    <3>1. of \in SUBSET (0..MaxResponses)
      BY DEF HeadOK, HeadTyped
    <3> QED BY <2>5, <3>1, PieceType
  <2>7. out \in Seq(Pieces)
    BY TypeParts DEF NetTyped
  <2>8. Extends(out', out, p, Pieces)
    BY <1>3, <2>5, <2>6, <2>7, AppendFacts
  <2>9. ~late => Follows(p)
    <3>1. before_content
      BY <1>1 DEF PlaceOK
    <3>2. ~late => out = <<>> /\ of \subseteq {r}
      BY <1>1, <3>1 DEF SentOK, HeadOK, HeadOwn, PlaceOK, TwoHeads
    <3> QED BY <2>6, <3>2 DEF Follows, HasLast
  <2>10. SendStep(p)
    BY <1>1, <1>3, <2>1, <2>3, <2>4, <2>6, <2>8, <2>9 DEF SendStep, conn
  <2> QED BY <2>10, SendInv
<1> QED BY <1>2, <1>3 DEF ParseHeadEnd

\* The responses that bytes belong to, and how many of a sort there are.
LEMMA FromIn ==
  ASSUME NEW S, NEW s \in Seq(S), S \subseteq Seen, r \in 0..MaxResponses
  PROVE  /\ From(s) \in SUBSET (0..MaxResponses)
         /\ S \subseteq Own => From(s) \subseteq {r}
<1>1. \A i \in DOMAIN s : s[i] \in S
  OBVIOUS
<1>2. \A t \in S : t.of \in 0..MaxResponses
  BY DEF Seen, Tokens
<1>3. \A t \in Own : t.of = r
  BY DEF Own
<1> QED BY <1>1, <1>2, <1>3 DEF From

LEMMA CountType ==
  ASSUME NEW S, NEW s \in Seq(S), NEW t
  PROVE  /\ Count(s, t) \in Nat
         /\ Count(s, t) > 0 => \E i \in DOMAIN s : s[i].text = t
<1> DEFINE T == {i \in DOMAIN s : s[i].text = t}
<1>1. T \subseteq 1..Len(s) /\ Len(s) \in Nat
  OBVIOUS
<1>2. IsFiniteSet(1..Len(s))
  BY <1>1, FS_Interval
<1>3. IsFiniteSet(T)
  BY <1>1, <1>2, FS_Subset
<1>4. Cardinality(T) \in Nat
  BY <1>3, FS_CardinalityType
<1>5. T = {} => Cardinality(T) = 0
  BY FS_EmptySet
<1>6. Count(s, t) = Cardinality(T)
  BY DEF Count
<1> HIDE DEF T
<1>7. Cardinality(T) > 0 => T # {}
  BY <1>4, <1>5
<1>8. T # {} => \E i \in DOMAIN s : s[i].text = t
  BY DEF T
<1> QED BY <1>4, <1>6, <1>7, <1>8

LEMMA DataInv ==
  ASSUME IInv, Data
  PROVE  IInv'
<1> USE DEF IInv
<1>1. /\ pc = "data" /\ buf' = <<>>
      /\ UNCHANGED <<libcurl, r, frames, before_first_line, before_content,
                     line, chunked, not_modified, wait_ticks, of, late>>
  BY DEF Data
<1>2. /\ ~before_content /\ buf # <<>> /\ buf \in Seq(Seen)
      /\ r \in 0..MaxResponses /\ late \in BOOLEAN /\ out \in Seq(Pieces)
      /\ before_content \in BOOLEAN /\ Len(buf) \in Nat
      /\ recv_content_size \in Nat \cup {None}
  <2>1. r \in 0..MaxResponses /\ NetTyped
    BY TypeParts DEF TypeOK
  <2>2. ~before_content /\ buf # <<>>
    BY <1>1 DEF PlaceOK
  <2>3. buf \in Seq(Seen) /\ Len(buf) \in Nat
    BY DEF StreamOK
  <2>4. recv_content_size \in Nat \cup {None}
    BY DEF HeadOK, HeadTyped
  <2> QED BY <2>1, <2>2, <2>3, <2>4 DEF NetTyped
<1>3. /\ From(buf) \in SUBSET (0..MaxResponses)
      /\ ~late => From(buf) \subseteq {r}
  <2>1. From(buf) \in SUBSET (0..MaxResponses)
    BY <1>2, FromIn
  <2>2. ~late => From(buf) \subseteq {r}
    <3>1. ~late => buf \in Seq(Own)
      BY DEF StreamOK
    <3> QED BY <1>2, <3>1, OwnIn, FromIn
  <2> QED BY <2>1, <2>2
<1>4. ~late => ~HasLast(out) /\ out # <<>>
  BY <1>1, <1>2 DEF SentOK
<1>5. UNCHANGED wire => StreamOK'
  <2>1. Len(buf) \in 0..Len(buf)
    BY <1>2
  <2>2. IsSuffix(SubSeq(buf, Len(buf) + 1, Len(buf)), buf, Len(buf), Seen)
    BY <1>2, <2>1, SuffixFacts
  <2>3. buf' = SubSeq(buf, Len(buf) + 1, Len(buf))
    BY <1>1, <2>2 DEF IsSuffix
  <2> QED BY <1>1, <2>1, <2>3, StreamDrop
<1>6. ASSUME NEW k \in {"chunk", "raw", "last"}, NEW n \in Nat
      PROVE  /\ Piece(k, n, From(buf)) \in Pieces
             /\ Piece(k, n, From(buf)).kind = k
             /\ ~late => Follows(Piece(k, n, From(buf)))
             /\ Extends(Append(out, Piece(k, n, From(buf))), out,
                        Piece(k, n, From(buf)), Pieces)
  <2>1. PICK p : p = Piece(k, n, From(buf))
    OBVIOUS
  <2>2. p \in Pieces /\ p.kind = k /\ p.of = From(buf)
    BY <1>3, <2>1, PieceType
  <2>3. ~late => Follows(p)
    BY <1>3, <1>4, <2>2 DEF Follows
  <2>4. Extends(Append(out, p), out, p, Pieces)
    BY <1>2, <2>2, AppendFacts
  <2> QED BY <2>1, <2>2, <2>3, <2>4
<1>7. CASE /\ chunked
           /\ out' = Append(out,
                Piece(IF Count(buf, "z") > 0 THEN "last" ELSE "raw",
                      Relayed(out) + Count(buf, "c"), From(buf)))
           /\ pc' = "read"
           /\ UNCHANGED <<conn, recv_content_size, result>>
  <2>1. /\ Count(buf, "c") \in Nat
        /\ Count(buf, "z") > 0 => \E i \in DOMAIN buf : buf[i].text = "z"
    BY <1>2, CountType
  <2>2. PICK k, n : /\ k = (IF Count(buf, "z") > 0 THEN "last" ELSE "raw")
                    /\ n = Relayed(out) + Count(buf, "c")
    OBVIOUS
  <2>3. PICK p : p = Piece(k, n, From(buf))
    OBVIOUS
  <2>4. /\ p.kind = k /\ (~late => Follows(p)) /\ Extends(out', out, p, Pieces)
    <3>1. k \in {"chunk", "raw", "last"} /\ n \in Nat
      BY <1>2, <2>1, <2>2, RelayedType
    <3>2. out' = Append(out, p)
      BY <1>7, <2>2, <2>3
    <3> QED BY <1>6, <2>3, <3>1, <3>2
  <2>5. ASSUME ~late, k = "last"
        PROVE  wire = <<>> /\ frame.by = "chunked" /\ ~frame.bare
    <3>1. PICK i \in DOMAIN buf : buf[i].text = "z"
      BY <2>1, <2>2, <2>5
    <3>2. buf \in Seq(Own) /\ wire = <<>>
      BY <2>5, <3>1 DEF StreamOK
    <3>3. buf[i] \in Own
      BY <3>1, <3>2
    <3> QED BY <3>1, <3>2, <3>3 DEF Own
  <2>6. HeadOK' /\ StreamOK'
    BY <1>1, <1>5, <1>7, HeadSame DEF conn
  <2>7. SendStep(p)
    BY <1>1, <1>2, <1>7, <2>4, <2>5, <2>6 DEF SendStep, conn
  <2> QED BY <2>7, SendInv
<1>8. CASE /\ ~chunked
           /\ out' = Append(out, Piece("chunk", Relayed(out) + Len(buf),
                                       From(buf)))
  <2>1. PICK n, p : /\ n = Relayed(out) + Len(buf)
                    /\ p = Piece("chunk", n, From(buf))
    OBVIOUS
  <2>2. /\ p.kind = "chunk" /\ (~late => Follows(p))
        /\ Extends(out', out, p, Pieces)
    <3>1. n \in Nat
      BY <1>2, <2>1, RelayedType
    <3>2. out' = Append(out, p)
      BY <1>8, <2>1
    <3> QED BY <1>6, <2>1, <3>1, <3>2
  <2>3. CASE /\ pc' = "read" /\ UNCHANGED <<conn, result>>
             /\ \/ UNCHANGED recv_content_size
                \/ /\ recv_content_size # None
                   /\ recv_content_size >= Len(buf)
                   /\ recv_content_size' = recv_content_size - Len(buf)
    <3>1. /\ recv_content_size' \in Nat \cup {None}
          /\ recv_content_size' # None => recv_content_size # None
      BY <1>2, <2>3
    <3>2. frame' = frame
      BY <1>1, SameFrame
    <3>3. HeadOK'
      BY <1>1, <3>1, <3>2 DEF HeadOK, HeadTyped, HeadOwn
    <3>4. StreamOK'
      BY <1>5, <2>3 DEF conn
    <3>5. SendStep(p)
      BY <1>1, <1>2, <2>2, <2>3, <3>3, <3>4 DEF SendStep, conn
    <3> QED BY <3>5, SendInv
  <2>4. CASE Return /\ UNCHANGED recv_content_size
    <3>1. ASSUME ~late
          PROVE  /\ ResponseShape'
                 /\ \A i \in DOMAIN out' : out'[i].of \subseteq {r}
      <4>1. Begun(out) /\ \A i \in DOMAIN out : out[i].of \subseteq {r}
        BY <1>1, <3>1 DEF SentOK
      <4>2. /\ Begun(out)'
            /\ \A i \in DOMAIN out' : out'[i].of \subseteq {r}
        BY <1>1, <2>2, <3>1, <4>1, BegunGrows
      <4>3. out' \in Seq(Pieces)
        BY <2>2 DEF Extends
      <4> QED BY <4>2, <4>3, BegunShape
    <3>2. EndStep
      BY <1>1, <1>2, <2>2, <2>4, <3>1 DEF EndStep, Return, Extends
    <3> QED BY <3>2, EndInv
  <2>5. \/ /\ pc' = "read" /\ UNCHANGED <<conn, result>>
           /\ \/ UNCHANGED recv_content_size
              \/ /\ recv_content_size # None
                 /\ recv_content_size >= Len(buf)
                 /\ recv_content_size' = recv_content_size - Len(buf)
        \/ Return /\ UNCHANGED recv_content_size
        \/ Return /\ UNCHANGED <<out, recv_content_size>>
    BY <1>8 DEF Data
  <2> QED BY <2>3, <2>4, <2>5
<1>9. CASE Return /\ UNCHANGED <<out, recv_content_size>>
  BY <1>1, <1>2, <1>9, QuietEnd DEF Return
<1> QED BY <1>7, <1>8, <1>9 DEF Data

-----------------------------------------------------------------------------
(* libcurl calls back.                                                     *)

LEMMA CurlReturnInv ==
  ASSUME IInv, pc = "curl", CurlReturn("error"),
         UNCHANGED <<libcurl, r, frames, parser, wait_ticks, out, late>>
  PROVE  IInv'
<1>1. late \in BOOLEAN /\ kept \in BOOLEAN
  BY DEF IInv, TypeOK
<1> QED BY <1>1, QuietEnd DEF CurlReturn, parser

LEMMA CurlFacts ==
  ASSUME IInv, pc = "curl"
  PROVE  /\ ~late => /\ ~HasLast(out) /\ (out = <<>> => before_content)
                     /\ before_content => out = <<>> \/ TwoHeads
         /\ libcurl
         /\ wire \in Seq(Seen) /\ Len(wire) \in Nat /\ out \in Seq(Pieces)
         /\ r \in 0..MaxResponses /\ before_content \in BOOLEAN
         /\ wait_ticks \in 0..req_timeout_ticks
         /\ result \in {"none", "end", "eof", "timeout", "error"}
         /\ fin \in BOOLEAN /\ silent \in BOOLEAN /\ kept \in BOOLEAN
         /\ late \in BOOLEAN
         /\ recv_content_size = 0 => ~before_content
<1> USE DEF IInv
<1>1. NetTyped /\ r \in 0..MaxResponses
  BY TypeParts DEF TypeOK
<1>2. ~late => /\ ~HasLast(out) /\ (out = <<>> => before_content)
               /\ before_content => out = <<>> \/ TwoHeads
  BY DEF SentOK
<1>3. wire \in Seq(Seen) /\ Len(wire) \in Nat
  BY DEF StreamOK
<1> QED BY <1>1, <1>2, <1>3 DEF NetTyped, PlaceOK

LEMMA CurlHeaderInv ==
  ASSUME IInv, CurlHeader
  PROVE  IInv'
<1> USE DEF IInv
<1>1. /\ pc = "curl" /\ before_content /\ Len(wire) >= 3
      /\ UNCHANGED <<libcurl, r, frames, buf, before_content, line, chunked,
                     not_modified, recv_content_size, wait_ticks, out, late>>
  BY DEF CurlHeader, WireStarts
<1>2. CASE CurlReturn("error") /\ UNCHANGED <<before_first_line, of>>
  BY <1>1, <1>2, CurlReturnInv DEF parser
<1>3. CASE /\ wire' = SubSeq(wire, 4, Len(wire)) /\ before_first_line' = FALSE
           /\ of' = of \cup {wire[1].of}
           /\ UNCHANGED <<pc, fin, silent, kept, result>>
  <2>1. wire \in Seq(Seen) /\ Len(wire) \in Nat /\ 3 \in 0..Len(wire)
    BY <1>1, CurlFacts
  <2>2. wire' = SubSeq(wire, 3 + 1, Len(wire))
    BY <1>3
  <2>3. StreamOK'
    BY <1>1, <2>1, <2>2, StreamTake
  <2>4. wire[1] \in Seen /\ (~late => wire[1] \in Own)
    <3>1. 1 \in DOMAIN wire
      BY <2>1
    <3>2. ~late => wire \in Seq(Own)
      BY DEF StreamOK
    <3>3. ~late => wire[1] \in Own
      BY <3>1, <3>2
    <3> QED BY <2>1, <3>1, <3>3
  <2>5. /\ wire[1].of \in 0..MaxResponses /\ (~late => wire[1].of = r)
    BY <2>4 DEF Seen, Own, Tokens
  <2>6. frame' = frame
    BY <1>1, SameFrame
  <2>7. HeadOK'
    BY <1>1, <1>3, <2>5, <2>6 DEF HeadOK, HeadTyped, HeadOwn
  <2>8. QuietStep
    BY <1>1, <1>3, <2>3, <2>7, CurlFacts DEF QuietStep
  <2> QED BY <2>8, QuietInv
<1> QED BY <1>2, <1>3 DEF CurlHeader

LEMMA CurlHeadEndInv ==
  ASSUME IInv, CurlHeadEnd
  PROVE  IInv'
<1> USE DEF IInv
<1>1. /\ pc = "curl" /\ before_content /\ Len(wire) >= 2
      /\ UNCHANGED <<libcurl, r, frames, buf, before_first_line, line,
                     chunked, not_modified, recv_content_size, wait_ticks,
                     of, late>>
  BY DEF CurlHeadEnd, WireStarts
<1>2. CASE CurlReturn("error") /\ UNCHANGED <<before_content, out>>
  BY <1>1, <1>2, CurlReturnInv DEF parser
<1>3. CASE /\ wire' = SubSeq(wire, 3, Len(wire))
           /\ before_content' = (frame.ahead = "interim" /\ out = <<>>)
           /\ out' = Append(out, Piece("head", 0, of))
           /\ UNCHANGED <<pc, fin, silent, kept, result>>
  <2>1. wire \in Seq(Seen) /\ Len(wire) \in Nat /\ 2 \in 0..Len(wire)
    BY <1>1, CurlFacts
  <2>2. wire' = SubSeq(wire, 2 + 1, Len(wire))
    BY <1>3
  <2>3. StreamOK'
    BY <1>1, <2>1, <2>2, StreamTake
  <2>4. HeadOK'
    BY <1>1, HeadSame
  <2>5. PICK p : p = Piece("head", 0, of)
    OBVIOUS
  <2>6. p \in Pieces /\ p.kind = "head" /\ p.of = of
    <3>1. of \in SUBSET (0..MaxResponses)
      BY DEF HeadOK, HeadTyped
    <3> QED BY <2>5, <3>1, PieceType
  <2>7. Extends(out', out, p, Pieces)
    <3>1. out \in Seq(Pieces)
      BY <1>1, CurlFacts
    <3> QED BY <1>3, <2>5, <2>6, <3>1, AppendFacts
  <2>8. ~late => Follows(p)
    <3>1. ~late => of \subseteq {r}
      BY DEF HeadOK, HeadOwn
    <3> QED BY <1>1, <2>6, <3>1, CurlFacts DEF Follows
  <2>9. /\ before_content' \in BOOLEAN
        /\ before_content' => TwoHeads /\ recv_content_size' # 0
    BY <1>1, <1>3, CurlFacts DEF TwoHeads
  <2>10. SendStep(p)
    BY <1>1, <1>3, <2>3, <2>4, <2>6, <2>7, <2>8, <2>9 DEF SendStep
  <2> QED BY <2>10, SendInv
<1> QED BY <1>2, <1>3 DEF CurlHeadEnd

LEMMA CurlDataInv ==
  ASSUME IInv, CurlData
  PROVE  IInv'
<1> USE DEF IInv
<1>1. /\ pc = "curl" /\ ~before_content
      /\ UNCHANGED <<libcurl, r, frames, parser, wait_ticks, late>>
  BY DEF CurlData
<1>2. CASE CurlReturn("error") /\ UNCHANGED out
  BY <1>1, <1>2, CurlReturnInv
<1>3. ASSUME NEW n \in 1..Len(wire),
             wire' = SubSeq(wire, n + 1, Len(wire)),
             out' = Append(out, Piece("chunk", Relayed(out) + n,
                                      From(SubSeq(wire, 1, n)))),
             UNCHANGED <<pc, fin, silent, kept, result>>
      PROVE  IInv'
  <2>1. wire \in Seq(Seen) /\ Len(wire) \in Nat
    BY <1>1, CurlFacts
  <2>2. n \in 0..Len(wire) /\ n \in Nat
    BY <2>1
  <2>3. StreamOK'
    BY <1>1, <1>3, <2>2, StreamTake DEF parser
  <2>4. HeadOK'
    BY <1>1, HeadSame DEF parser
  <2>5. PICK s : s = SubSeq(wire, 1, n)
    OBVIOUS
  <2>6. s \in Seq(Seen) /\ (~late => s \in Seq(Own))
    <3>1. s \in Seq(Seen)
      <4>1. IsFront(s, wire, n, Seen)
        BY <2>1, <2>2, <2>5, PrefixFacts
      <4> QED BY <4>1 DEF IsFront
    <3>2. ASSUME ~late PROVE s \in Seq(Own)
      <4>1. wire \in Seq(Own)
        BY <3>2 DEF StreamOK
      <4>2. IsFront(s, wire, n, Own)
        BY <2>2, <2>5, <4>1, PrefixFacts
      <4> QED BY <4>2 DEF IsFront
    <3> QED BY <3>1, <3>2
  <2>7. /\ From(s) \in SUBSET (0..MaxResponses)
        /\ ~late => From(s) \subseteq {r}
    <3>1. r \in 0..MaxResponses
      BY <1>1, CurlFacts
    <3>2. From(s) \in SUBSET (0..MaxResponses)
      BY <2>6, <3>1, FromIn
    <3>3. ~late => From(s) \subseteq {r}
      BY <2>6, <3>1, OwnIn, FromIn
    <3> QED BY <3>2, <3>3
  <2>8. PICK m, p : m = Relayed(out) + n /\ p = Piece("chunk", m, From(s))
    OBVIOUS
  <2>9. p \in Pieces /\ p.kind = "chunk" /\ p.of = From(s)
    <3>1. out \in Seq(Pieces)
      BY <1>1, CurlFacts
    <3>2. m \in Nat
      BY <2>2, <2>8, <3>1, RelayedType
    <3> QED BY <2>7, <2>8, <3>2, PieceType
  <2>10. Extends(out', out, p, Pieces)
    <3>1. out \in Seq(Pieces)
      BY <1>1, CurlFacts
    <3> QED BY <1>3, <2>5, <2>8, <2>9, <3>1, AppendFacts
  <2>11. ~late => Follows(p)
    BY <1>1, <2>7, <2>9, CurlFacts DEF Follows
  <2>12. before_content' = FALSE
    BY <1>1, CurlFacts DEF parser
  <2>13. SendStep(p)
    BY <1>1, <1>3, <2>3, <2>4, <2>9, <2>10, <2>11, <2>12 DEF SendStep
  <2> QED BY <2>13, SendInv
<1> QED BY <1>2, <1>3 DEF CurlData

LEMMA CurlEndInv ==
  ASSUME IInv, CurlEnd
  PROVE  IInv'
<1> USE DEF IInv
<1>1. /\ pc = "curl" /\ ~before_content
      /\ UNCHANGED <<libcurl, r, frames, parser, wait_ticks, late>>
  BY DEF CurlEnd, CurlComplete
<1>2. CASE CurlReturn("error") /\ UNCHANGED out
  BY <1>1, <1>2, CurlReturnInv
<1>3. CASE /\ CurlReturn("end")
           /\ out' = Append(out, Piece("end", Relayed(out), {r}))
  <2>1. late' \in BOOLEAN /\ kept' \in BOOLEAN /\ (~late => ~HasLast(out))
    BY <1>1, <1>3, CurlFacts DEF CurlReturn
  <2> QED BY <1>1, <1>3, <2>1, LoudEnd DEF CurlReturn
<1> QED BY <1>2, <1>3 DEF CurlEnd

LEMMA CurlFailsInv ==
  ASSUME IInv, CurlFails
  PROVE  IInv'
BY CurlReturnInv DEF CurlFails

-----------------------------------------------------------------------------
(* A request.                                                              *)

\* Concatenation keeps the last chunk last if only the second part has it.
LEMMA LastChunkStays ==
  ASSUME NEW O, NEW a \in Seq(O), NEW b \in Seq(O),
         \A i \in DOMAIN a : a[i].text # "z", ZLast(b)
  PROVE  a \o b \in Seq(O) /\ ZLast(a \o b)
<1>1. /\ a \o b \in Seq(O) /\ Len(a \o b) = Len(a) + Len(b)
      /\ Len(a) \in Nat /\ Len(b) \in Nat
      /\ DOMAIN a = 1..Len(a) /\ DOMAIN b = 1..Len(b)
      /\ DOMAIN (a \o b) = 1..(Len(a) + Len(b))
  OBVIOUS
<1>2. \A i \in 1..(Len(a) + Len(b)) :
        (a \o b)[i] = IF i <= Len(a) THEN a[i] ELSE b[i - Len(a)]
  OBVIOUS
<1>3. ASSUME NEW i \in DOMAIN (a \o b), (a \o b)[i].text = "z"
      PROVE  i = Len(a \o b)
  <2>1. i \in 1..(Len(a) + Len(b))
    BY <1>1
  <2>2. CASE i <= Len(a)
    BY <1>1, <1>2, <1>3, <2>1, <2>2
  <2>3. CASE i > Len(a)
    <3>1. i - Len(a) \in DOMAIN b /\ (a \o b)[i] = b[i - Len(a)]
      BY <1>1, <1>2, <2>1, <2>3
    <3>2. i - Len(a) = Len(b)
      BY <1>3, <3>1 DEF ZLast
    <3> QED BY <1>1, <2>1, <3>2
  <2> QED BY <1>1, <2>1, <2>2, <2>3
<1> QED BY <1>1, <1>3 DEF ZLast

\* What the destination sends is all of this response.
LEMMA ResponseOwn ==
  ASSUME NEW f \in Frames, r' \in 1..MaxResponses, frame' = f
  PROVE  Response(f) \in Seq(Own') /\ ZLast(Response(f))
<1> DEFINE O == Own'
           P == {t \in O : t.text # "z"}
<1>1. /\ f.by \in {"length", "chunked", "close"} /\ f.n \in Nat
      /\ f.status \in {"S", "204", "304"} /\ (f.status # "S" => f.bare)
      /\ f.ahead \in {"", "empty", "interim"} /\ f.bare \in BOOLEAN
  BY FrameFacts
<1>2. ASSUME NEW t \in Texts,
             t = "L" => f.by = "length", t = "T" => f.by = "chunked",
             t = "z" => f.by = "chunked" /\ ~f.bare, t = "304" => f.bare
      PROVE  Token(t) \in O /\ (t # "z" => Token(t) \in P) /\ Token(t).text = t
  <2>1. /\ Token(t) \in Tokens /\ Token(t).text = t /\ Token(t).of = r'
    BY <1>2 DEF Token, Tokens
  <2>2. r' \in 1..r'
    OBVIOUS
  <2> QED BY <1>2, <2>1, <2>2 DEF Own, Seen
<1>3. /\ Token("CR") \in P /\ Token("LF") \in P /\ Token("H") \in P
      /\ Token("b") \in P /\ Token("c") \in P /\ Token(f.status) \in P
      /\ Token("E") \in P /\ Token("S") \in P
      /\ f.by = "length" => Token("L") \in P
      /\ f.by = "chunked" => Token("T") \in P
      /\ f.by = "chunked" /\ ~f.bare => /\ Token("z") \in O
                                         /\ Token("z").text = "z"
  <2>1. /\ Token("CR") \in P /\ Token("LF") \in P /\ Token("H") \in P
        /\ Token("b") \in P /\ Token("c") \in P
        /\ Token("E") \in P /\ Token("S") \in P
    BY <1>2 DEF Texts
  <2>2. Token(f.status) \in P
    BY <1>1, <1>2 DEF Texts
  <2>3. /\ f.by = "length" => Token("L") \in P
        /\ f.by = "chunked" => Token("T") \in P
    BY <1>2 DEF Texts
  <2>4. f.by = "chunked" /\ ~f.bare => /\ Token("z") \in O
                                       /\ Token("z").text = "z"
    BY <1>2 DEF Texts
  <2> QED BY <2>1, <2>2, <2>3, <2>4
<1> HIDE DEF O, P
<1>4. ASSUME NEW t, Token(t) \in P
      PROVE  Line(t) \in Seq(P)
  BY <1>3, <1>4 DEF Line
<1>5. ASSUME NEW t, Token(t) \in P, NEW n \in Nat
      PROVE  Body(t, n) \in Seq(P)
  BY <1>5 DEF Body
<1>6. \A a, b \in Seq(P) : a \o b \in Seq(P)
  OBVIOUS
<1>7. Headers(f) \in Seq(P)
  <2>1. Line("H") \in Seq(P) /\ Line("E") \in Seq(P)
    BY <1>3, <1>4
  <2>2. f.by = "chunked" => Line("T") \in Seq(P)
    BY <1>3, <1>4
  <2>3. Framing(f) \in Seq(P)
    <3>1. CASE f.by = "length"
      <4>1. Line("L") \in Seq(P)
        BY <1>3, <1>4, <3>1
      <4> QED BY <3>1, <4>1 DEF Framing
    <3>2. CASE f.by = "chunked"
      BY <2>2, <3>2 DEF Framing
    <3>3. CASE f.by \notin {"length", "chunked"}
      <4>1. Framing(f) = <<>>
        BY <3>3 DEF Framing
      <4> QED BY <4>1
    <3> QED BY <3>1, <3>2, <3>3
  <2>4. PICK g, x, e, t : /\ g = Framing(f) /\ x = Line("H") /\ e = Line("E")
                          /\ t = Line("T")
    OBVIOUS
  <2>5. Headers(f) \in {e \o g, t \o x, x \o g}
        /\ (Headers(f) = t \o x \/ Headers(f) \in {e \o g, x \o g})
        /\ (f.by # "chunked" => Headers(f) \in {e \o g, x \o g})
    BY <2>4 DEF Headers
  <2>6. e \o g \in Seq(P) /\ x \o g \in Seq(P)
    BY <1>6, <2>1, <2>3, <2>4
  <2>7. f.by = "chunked" => t \o x \in Seq(P)
    BY <1>6, <2>1, <2>2, <2>4
  <2> QED BY <2>5, <2>6, <2>7
<1> DEFINE head ==
             (Line(f.status) \o Headers(f)) \o <<Token("CR"), Token("LF")>>
<1>8. head \in Seq(P)
  <2>1. Line(f.status) \in Seq(P) /\ <<Token("CR"), Token("LF")>> \in Seq(P)
    BY <1>3, <1>4
  <2>2. Line(f.status) \o Headers(f) \in Seq(P)
    BY <1>6, <1>7, <2>1
  <2> QED BY <1>6, <2>1, <2>2
<1>9. FinalResponse(f) = head \o Content(f)
  BY DEF FinalResponse
<1> HIDE DEF head
<1>10. P \subseteq O /\ \A s \in Seq(P) : \A i \in DOMAIN s : s[i].text # "z"
  <2>1. \A t \in P : t.text # "z" /\ t \in O
    BY DEF P
  <2> QED BY <2>1
<1>11. \A s \in Seq(P) : s \in Seq(O)
  BY <1>10, SeqGrows
<1>12. Content(f) \in Seq(O) /\ ZLast(Content(f))
  <2>1. CASE f.by = "chunked" /\ ~f.bare
    <3> DEFINE b == Body("c", f.n)
               z == <<Token("z")>>
    <3>1. b \in Seq(P) /\ Content(f) = b \o z
      BY <1>1, <1>3, <1>5, <2>1 DEF Content
    <3>2. z \in Seq(O) /\ Len(z) = 1 /\ DOMAIN z = {1}
      BY <1>3, <2>1
    <3> HIDE DEF b, z
    <3>3. ZLast(z)
      BY <3>2 DEF ZLast
    <3>4. b \in Seq(O) /\ \A i \in DOMAIN b : b[i].text # "z"
      BY <1>10, <1>11, <3>1
    <3>5. b \o z \in Seq(O) /\ ZLast(b \o z)
      BY <3>2, <3>3, <3>4, LastChunkStays
    <3> QED BY <3>1, <3>5
  <2>2. CASE f.by # "chunked" \/ f.bare
    <3>1. Content(f) \in Seq(P)
      <4>1. f.bare => Content(f) = <<>>
        BY DEF Content
      <4>2. ~f.bare => Content(f) = Body("b", f.n)
        BY <2>2 DEF Content
      <4>3. Body("b", f.n) \in Seq(P)
        BY <1>1, <1>3, <1>5
      <4>4. <<>> \in Seq(P)
        OBVIOUS
      <4> QED BY <1>1, <4>1, <4>2, <4>3, <4>4, Zenon
    <3>2. \A i \in DOMAIN Content(f) : Content(f)[i].text # "z"
      BY <1>10, <3>1
    <3> QED BY <1>11, <3>1, <3>2 DEF ZLast
  <2> QED BY <2>1, <2>2
<1>13. head \in Seq(O) /\ \A i \in DOMAIN head : head[i].text # "z"
  BY <1>8, <1>10, <1>11
<1>14. FinalResponse(f) \in Seq(O) /\ ZLast(FinalResponse(f))
  <2>1. PICK c : c = Content(f)
    OBVIOUS
  <2>2. c \in Seq(O) /\ ZLast(c)
    BY <1>12, <2>1
  <2>3. head \o c \in Seq(O) /\ ZLast(head \o c)
    BY <1>13, <2>2, LastChunkStays
  <2> QED BY <1>9, <2>1, <2>3
<1>15. CASE f.ahead # "interim"
  <2>1. Response(f) = FinalResponse(f)
    BY <1>15 DEF Response
  <2> QED BY <1>14, <2>1 DEF O
<1>16. CASE f.ahead = "interim"
  <2> DEFINE first ==
               (Line("S") \o Line("H")) \o <<Token("CR"), Token("LF")>>
  <2>1. first \in Seq(P)
    <3>1. /\ Line("S") \in Seq(P) /\ Line("H") \in Seq(P)
          /\ <<Token("CR"), Token("LF")>> \in Seq(P)
      BY <1>3, <1>4
    <3>2. Line("S") \o Line("H") \in Seq(P)
      BY <1>6, <3>1
    <3> QED BY <1>6, <3>1, <3>2
  <2>2. Response(f) = first \o FinalResponse(f)
    BY <1>16 DEF Response
  <2> HIDE DEF first
  <2>3. first \in Seq(O) /\ \A i \in DOMAIN first : first[i].text # "z"
    BY <1>10, <1>11, <2>1
  <2>4. PICK c : c = FinalResponse(f)
    OBVIOUS
  <2>5. c \in Seq(O) /\ ZLast(c)
    BY <1>14, <2>4
  <2>6. first \o c \in Seq(O) /\ ZLast(first \o c)
    BY <2>3, <2>5, LastChunkStays
  <2> QED BY <2>2, <2>4, <2>6 DEF O
<1> QED BY <1>15, <1>16

LEMMA RequestInv ==
  ASSUME IInv, Request
  PROVE  IInv'
<1> USE DEF IInv
<1>1. PICK f \in Frames :
        /\ frames' = Append(frames, f)
        /\ \/ /\ kept
              /\ wire' = IF fin \/ silent THEN wire ELSE wire \o Response(f)
              /\ UNCHANGED <<fin, silent, late>>
           \/ /\ ~kept \/ fin
              /\ wire' = Response(f)
              /\ fin' = FALSE /\ silent' = FALSE /\ late' = FALSE
  BY DEF Request
<1>2. /\ pc = "idle" /\ r < MaxResponses /\ r' = r + 1
      /\ kept' = ~libcurl /\ pc' = (IF libcurl THEN "curl" ELSE "read")
      /\ buf' = <<>> /\ before_first_line' = TRUE /\ before_content' = TRUE
      /\ line' = NoLine /\ chunked' = FALSE /\ not_modified' = FALSE
      /\ recv_content_size' = None /\ of' = {} /\ wait_ticks' = 0
      /\ out' = <<>> /\ result' = "none" /\ libcurl' = libcurl
  BY DEF Request
<1>3. /\ r \in 0..MaxResponses /\ r' \in 1..MaxResponses /\ r' > 0
      /\ frames \in Seq(Frames) /\ Len(frames) = r /\ libcurl \in BOOLEAN
      /\ fin \in BOOLEAN /\ silent \in BOOLEAN /\ late \in BOOLEAN
  <2>1. /\ r \in 0..MaxResponses
        /\ frames \in Seq(Frames) /\ Len(frames) = r /\ libcurl \in BOOLEAN
        /\ fin \in BOOLEAN /\ silent \in BOOLEAN /\ late \in BOOLEAN
    BY DEF TypeOK
  <2>2. r' = r + 1 /\ r < MaxResponses /\ MaxResponses \in Nat
    BY <1>2, BoundsAssumption
  <2>3. r' \in 1..MaxResponses /\ r' > 0
    BY ONLY <2>1, <2>2
  <2> QED BY <2>1, <2>3
<1>4. frames' \in Seq(Frames) /\ Len(frames') = r' /\ frame' = f
  BY <1>1, <1>2, <1>3 DEF frame
<1>5. Response(f) \in Seq(Own') /\ ZLast(Response(f))
  BY <1>3, <1>4, ResponseOwn
<1>6. Seen \subseteq Seen' /\ Own' \subseteq Seen' /\ Seen' \subseteq Tokens
  <2>1. 1..r \subseteq 1..r'
    BY <1>2, <1>3
  <2>2. Tokens' = Tokens
    BY DEF Tokens
  <2> QED BY <2>1, <2>2 DEF Seen, Own
<1>7. wire \in Seq(Seen') /\ Response(f) \in Seq(Seen')
  <2>1. wire \in Seq(Seen)
    BY DEF StreamOK
  <2> QED BY <1>5, <1>6, <2>1, SeqGrows
<1>8. wire' \in Seq(Seen')
  <2>1. PICK s : s = Response(f)
    OBVIOUS
  <2>2. wire \o s \in Seq(Seen')
    BY <1>7, <2>1
  <2> QED BY <1>1, <1>7, <2>1, <2>2
<1>9. ~late' => wire' = <<>> \/ wire' = Response(f)
  <2>1. CASE wire' = Response(f)
    BY <2>1
  <2>2. CASE /\ wire' = IF fin \/ silent THEN wire ELSE wire \o Response(f)
             /\ UNCHANGED late
    <3>1. ~late => wire = <<>>
      BY <1>2 DEF PlaceOK
    <3>2. <<>> \o Response(f) = Response(f)
      BY <1>5
    <3> QED BY <2>2, <3>1, <3>2
  <2> QED BY <1>1, <2>1, <2>2
<1>10. StreamOK'
  <2>1. <<>> \in Seq(Own') /\ <<>> \in Seq(Seen') /\ DOMAIN <<>> = {}
    OBVIOUS
  <2>2. ZLast(<<>>)
    BY <2>1 DEF ZLast
  <2>3. ~late' => wire' \in Seq(Own') /\ ZLast(wire')
    BY <1>5, <1>9, <2>1, <2>2
  <2>4. ~late' => ZLast(wire)'
    BY <2>3 DEF ZLast
  <2> QED BY <1>2, <1>8, <2>1, <2>3, <2>4 DEF StreamOK
<1>11. HeadOK'
  BY <1>2, NoLineType DEF HeadOK, HeadTyped, HeadOwn
<1>12. TypeOK'
  <2>1. /\ fin' \in BOOLEAN /\ silent' \in BOOLEAN /\ late' \in BOOLEAN
    BY <1>1, <1>3
  <2>2. wire' \in Seq(Tokens) /\ buf' \in Seq(Tokens)
    BY <1>2, <1>6, <1>8, SeqGrows
  <2>3. out' \in Seq([kind : {"head", "chunk", "raw", "last", "end"},
                      n : Nat, of : SUBSET (0..MaxResponses)])
    BY <1>2
  <2>4. r' \in 0..MaxResponses /\ 0 \in 0..req_timeout_ticks
    BY <1>3, BoundsAssumption
  <2>5. kept' \in BOOLEAN /\ libcurl' \in BOOLEAN
    BY <1>2, <1>3
  <2>6. pc' \in {"idle", "read", "parse", "data", "end", "curl"}
    BY <1>2
  <2> QED BY <1>2, <1>4, <1>11, <2>1, <2>2, <2>3, <2>4, <2>5, <2>6
          DEF TypeOK, HeadOK, HeadTyped
<1>13. PlaceOK'
  BY <1>2, <1>3 DEF PlaceOK, None
<1>14. SentOK'
  <2>1. DOMAIN out' = {}
    BY <1>2
  <2> QED BY <1>2, <2>1 DEF SentOK, Begun, Going, HeadFirst, HasLast
<1> QED BY <1>10, <1>11, <1>12, <1>13, <1>14

-----------------------------------------------------------------------------
(* The theorems.                                                           *)

LEMMA NextInv == IInv /\ [Next]_vars => IInv'
<1> SUFFICES ASSUME IInv, [Next]_vars PROVE IInv'
  OBVIOUS
<1>1. CASE UNCHANGED vars
  <2> USE <1>1 DEF vars, conn, parser
  <2>1. TypeOK' <=> TypeOK
    BY DEF TypeOK
  <2>2. frame' = frame
    BY SameFrame
  <2>3. HeadOK' <=> HeadOK
    BY <2>2 DEF HeadOK, HeadTyped, HeadOwn
  <2>4. StreamOK => StreamOK'
    BY StreamSame
  <2>5. PlaceOK' <=> PlaceOK
    BY DEF PlaceOK
  <2>6. SentOK' <=> SentOK
    BY <2>2 DEF SentOK, Begun, Going, HeadFirst, TwoHeads, HasLast,
                ResponseShape
  <2> QED BY <2>1, <2>3, <2>4, <2>5, <2>6 DEF IInv
<1>2. CASE Request
  BY <1>2, RequestInv
<1>3. CASE DestStops
  BY <1>3, DestStopsInv
<1>4. CASE Loop
  BY <1>4, WaitInv, ReadInv, ReadErrorInv, TimedOutInv, WriteEndInv,
     ParseStatusInv, ParseTextInv, ParseLineEndInv, ParseHeadEndInv, DataInv
  DEF Loop
<1>5. CASE Curl
  BY <1>5, CurlHeaderInv, CurlHeadEndInv, CurlDataInv, CurlEndInv,
     CurlFailsInv
  DEF Curl
<1> QED BY <1>1, <1>2, <1>3, <1>4, <1>5 DEF Next

LEMMA InvariantHolds == Spec => []IInv
BY InitInv, NextInv, PTL DEF Spec

\* The variables of the response loop and of the libcurl callbacks keep their
\* types: recv_content_size never falls below zero, and the loop never waits
\* longer than its limit.
THEOREM TypeCorrect == Spec => []TypeOK
<1>1. IInv => TypeOK
  BY DEF IInv
<1> QED BY <1>1, InvariantHolds, PTL

\* do_ipv4_socket_forwarding and do_curl_forwarding give a client only bytes of
\* the response to its own request, also over a connection that was kept,
\* unless a relay left a part of its response unread on it.
THEOREM OwnResponses == Spec => []OwnResponse
<1>1. IInv => OwnResponse
  BY DEF IInv, SentOK, OwnResponse
<1> QED BY <1>1, InvariantHolds, PTL

\* The client gets the head first and once and nothing after the end of the
\* body, in both ways of forwarding, but for a destination that closes early.
THEOREM ResponsesInShape == Spec => []ResponseShape
<1>1. IInv => ResponseShape
  <2> SUFFICES ASSUME IInv, ~late PROVE ResponseShape
    BY DEF ResponseShape
  <2>1. SentOK /\ out \in Seq(Pieces)
    BY DEF IInv, TypeOK, Pieces
  <2>2. CASE pc = "idle"
    BY <2>1, <2>2 DEF SentOK
  <2>3. CASE pc # "idle"
    <3>1. Going(out) /\ (TwoHeads \/ HeadFirst(out))
      BY <2>1, <2>3 DEF SentOK, Begun
    <3>2. CASE TwoHeads
      <4>1. DOMAIN out = {} \/ out # <<>>
        BY <2>1
      <4> QED BY <3>2, <4>1 DEF ResponseShape, TwoHeads
    <3>3. CASE HeadFirst(out)
      BY <2>1, <3>1, <3>3, BegunOrder DEF ResponseShape
    <3> QED BY <3>1, <3>2, <3>3
  <2> QED BY <2>2, <2>3
<1> QED BY <1>1, InvariantHolds, PTL

-----------------------------------------------------------------------------
(* What of the response is still to come.                                  *)

\* Of a content-length, what is to come and what was handed on are the whole.
CountedOK ==
  /\ pc # "idle" /\ recv_content_size # None =>
       recv_content_size + Relayed(out) = frame.n
  /\ pc = "curl" => recv_content_size = None
  /\ pc = "end" /\ result = "end" /\ frame.by = "length" /\ ~frame.bare =>
       recv_content_size = 0
  /\ pc = "idle" => EndMeansWhole

LEMMA NoEndYet ==
  ASSUME NEW s, Begun(s), NEW i \in DOMAIN s
  PROVE  s[i].kind # "end"
BY DEF Begun, Going

LEMMA CountedSame ==
  ASSUME IInv, CountedOK, ~late,
         UNCHANGED <<r, frames, out, recv_content_size>>,
         \/ UNCHANGED <<pc, result>>
         \/ pc # "idle" /\ pc' \in {"idle", "read", "parse", "data"}
         \/ /\ pc # "idle" /\ pc' = "end"
            /\ \/ result' = "eof"
               \/ recv_content_size = 0
               \/ frame.bare
  PROVE  CountedOK'
<1>1. frame' = frame /\ Kinds' = Kinds
  BY DEF frame, Kinds
<1>2. pc # "idle" => "end" \notin Kinds
  <2>1. pc # "idle" => Begun(out)
    BY DEF IInv, SentOK
  <2> QED BY <2>1, NoEndYet DEF Kinds
<1>3. pc' = "idle" => EndMeansWhole'
  BY <1>1, <1>2 DEF CountedOK, EndMeansWhole
<1> QED BY <1>1, <1>3 DEF CountedOK

\* A piece p of the response was sent.
LEMMA CountedSends ==
  ASSUME IInv, CountedOK, ~late, UNCHANGED <<r, frames>>, pc # "idle",
         NEW p, Extends(out', out, p, Pieces), p.kind # "end",
         pc' \in {"idle", "read", "data", "curl"},
         pc' # "idle" =>
           \/ recv_content_size' = None
           \/ pc' # "curl" /\ recv_content_size' + p.n = frame.n
  PROVE  CountedOK'
<1>1. frame' = frame
  BY DEF frame
<1>2. Begun(out)
  BY DEF IInv, SentOK
<1>3. Relayed(out)' = p.n
  BY DEF Extends, Relayed
<1>4. "end" \notin Kinds'
  <2> SUFFICES ASSUME NEW i \in DOMAIN out' PROVE out'[i].kind # "end"
    BY DEF Kinds
  <2>1. i \in DOMAIN out \/ i = Len(out) + 1
    BY DEF Extends
  <2> QED BY <1>2, <2>1, NoEndYet DEF Extends
<1>5. EndMeansWhole'
  BY <1>4 DEF EndMeansWhole
<1> QED BY <1>1, <1>3, <1>5 DEF CountedOK

\* The end of the body was sent.
LEMMA CountedEnds ==
  ASSUME IInv, UNCHANGED <<r, frames>>, pc' = "idle",
         out' = Append(out, Piece("end", Relayed(out), {r})),
         frame.by = "length" /\ ~frame.bare =>
           result' = "eof" \/ Relayed(out) = frame.n
  PROVE  CountedOK'
<1>1. frame' = frame
  BY DEF frame
<1>2. out \in Seq(Pieces) /\ r \in 0..MaxResponses
  BY DEF IInv, TypeOK, Pieces
<1>3. PICK n, e : n = Relayed(out) /\ e = Piece("end", n, {r})
  OBVIOUS
<1>4. e \in Pieces /\ e.n = n
  BY <1>2, <1>3, PieceType, RelayedType DEF Piece
<1>5. Extends(out', out, e, Pieces)
  BY <1>2, <1>3, <1>4, AppendFacts
<1>6. Relayed(out)' = n
  BY <1>4, <1>5 DEF Extends, Relayed
<1>7. EndMeansWhole'
  BY <1>1, <1>3, <1>6 DEF EndMeansWhole
<1> QED BY <1>7 DEF CountedOK

LEMMA CountedHead ==
  ASSUME IInv, CountedOK, ~late, pc = "parse", VerifyHeader
  PROVE  recv_content_size' # None => recv_content_size' = frame.n
<1>1. out = <<>> /\ before_content
  BY DEF IInv, PlaceOK, SentOK, TwoHeads
<1>2. Relayed(out) = 0
  BY <1>1 DEF Relayed
<1>3. line.text = "L" => frames[line.of] = frame
  BY DEF IInv, HeadOK, HeadOwn, frame
<1>4. recv_content_size \in Nat \cup {None}
  BY DEF IInv, TypeOK
<1>5. recv_content_size # None => recv_content_size = frame.n
  <2>1. recv_content_size # None => recv_content_size + 0 = frame.n
    BY <1>2 DEF CountedOK
  <2> QED BY <1>4, <2>1 DEF None
<1> QED BY <1>3, <1>5 DEF VerifyHeader

LEMMA FrameType ==
  ASSUME IInv, r > 0
  PROVE  frame \in Frames /\ frame.n \in Nat
<1>1. frames \in Seq(Frames) /\ Len(frames) = r /\ r \in 0..MaxResponses
  BY DEF IInv, TypeOK
<1>2. r \in DOMAIN frames
  BY <1>1, BoundsAssumption
<1>3. frame \in Frames
  BY <1>1, <1>2 DEF frame
<1>4. \A f \in Frames : f.n \in Nat
  BY FrameFacts
<1> QED BY <1>3, <1>4

LEMMA DataCounted ==
  ASSUME IInv, CountedOK, ~late, Data
  PROVE  CountedOK'
<1>1. /\ pc = "data" /\ UNCHANGED <<r, frames>> /\ r > 0
      /\ out \in Seq(Pieces) /\ recv_content_size \in Nat \cup {None}
      /\ buf \in Seq(Seen)
  BY DEF Data, IInv, TypeOK, Pieces, PlaceOK, StreamOK
<1>2. /\ Relayed(out) \in Nat /\ Len(buf) \in Nat /\ Count(buf, "c") \in Nat
      /\ frame.n \in Nat
  BY <1>1, RelayedType, CountType, FrameType
<1>3. From(buf) \in SUBSET (0..MaxResponses)
  <2>1. r \in 0..MaxResponses
    BY DEF IInv, TypeOK
  <2> QED BY <1>1, <2>1, FromIn
<1>4. ASSUME NEW k \in {"chunk", "raw", "last"}, NEW n \in Nat,
             out' = Append(out, Piece(k, n, From(buf)))
      PROVE  \E p : p.kind # "end" /\ p.n = n /\ Extends(out', out, p, Pieces)
  <2>1. PICK p : p = Piece(k, n, From(buf))
    OBVIOUS
  <2>2. p \in Pieces /\ p.kind = k /\ p.n = n
    BY <1>3, <2>1, PieceType DEF Piece
  <2>3. Extends(out', out, p, Pieces)
    BY <1>1, <1>4, <2>1, <2>2, AppendFacts
  <2> QED BY <2>2, <2>3
<1>5. CASE /\ chunked
           /\ out' = Append(out,
                Piece(IF Count(buf, "z") > 0 THEN "last" ELSE "raw",
                      Relayed(out) + Count(buf, "c"), From(buf)))
           /\ pc' = "read"
           /\ UNCHANGED <<conn, recv_content_size, result>>
  <2>1. recv_content_size' = None
    BY <1>5 DEF IInv, HeadOK, HeadOwn
  <2>2. PICK k, n : /\ k = (IF Count(buf, "z") > 0 THEN "last" ELSE "raw")
                    /\ n = Relayed(out) + Count(buf, "c")
    OBVIOUS
  <2>3. k \in {"chunk", "raw", "last"} /\ n \in Nat
    BY <1>2, <2>2
  <2>4. PICK p : p.kind # "end" /\ p.n = n /\ Extends(out', out, p, Pieces)
    BY <1>4, <1>5, <2>2, <2>3
  <2> QED BY <1>1, <1>5, <2>1, <2>4, CountedSends
<1>6. CASE /\ ~chunked
           /\ out' = Append(out, Piece("chunk", Relayed(out) + Len(buf),
                                       From(buf)))
  <2>1. PICK n : n = Relayed(out) + Len(buf)
    OBVIOUS
  <2>2. n \in Nat
    BY <1>2, <2>1
  <2>3. PICK p : p.kind # "end" /\ p.n = n /\ Extends(out', out, p, Pieces)
    BY <1>4, <1>6, <2>1, <2>2
  <2>4. CASE /\ recv_content_size # None /\ recv_content_size >= Len(buf)
             /\ recv_content_size' = recv_content_size - Len(buf)
             /\ pc' = "read"
    <3>1. /\ recv_content_size \in Nat
          /\ recv_content_size + Relayed(out) = frame.n
      BY <1>1, <2>4 DEF CountedOK
    <3>2. recv_content_size' + p.n = frame.n
      BY <1>2, <2>1, <2>3, <2>4, <3>1
    <3> QED BY <1>1, <2>3, <2>4, <3>2, CountedSends
  <2>5. CASE recv_content_size' = None /\ pc' = "read"
    BY <1>1, <2>3, <2>5, CountedSends
  <2>6. CASE Return
    BY <1>1, <2>3, <2>6, CountedSends DEF Return
  <2> QED BY <1>6, <2>4, <2>5, <2>6 DEF Data
<1>7. CASE Return /\ UNCHANGED <<out, recv_content_size>>
  BY <1>1, <1>7, CountedSame DEF Return
<1> QED BY <1>5, <1>6, <1>7 DEF Data

LEMMA LoopCounted ==
  ASSUME IInv, CountedOK, ~late, ~late', Loop
  PROVE  CountedOK'
<1> USE DEF conn, parser
<1>0. out \in Seq(Pieces) /\ r \in 0..MaxResponses
  BY DEF IInv, TypeOK, Pieces
<1>1. CASE NotModified
  <2>1. frame.bare
    BY <1>1 DEF NotModified, IInv, HeadOK, HeadOwn
  <2> QED BY <1>1, <2>1, CountedSame DEF NotModified
<1>2. CASE Read
  BY <1>2, CountedSame DEF Read, Turn
<1>3. CASE ReadNothing
  <2>1. /\ UNCHANGED <<r, frames, out, recv_content_size>> /\ pc = "read"
        /\ \/ UNCHANGED <<pc, result>>
           \/ pc' = "end" /\ recv_content_size = 0
    BY <1>3 DEF ReadNothing, Turn
  <2> QED BY <2>1, CountedSame
<1>4. CASE ReadEof
  BY <1>4, CountedSame DEF ReadEof, Turn
<1>5. CASE ReadError
  BY <1>5, CountedSame DEF ReadError, Turn, Return
<1>6. CASE TimedOut
  BY <1>6, CountedSame DEF TimedOut, Leave
<1>7. CASE WriteEnd
  <2>1. CASE Return /\ UNCHANGED out
    BY <1>7, <2>1, CountedSame DEF WriteEnd, Return
  <2>2. CASE /\ out' = Append(out, Piece("end", Relayed(out), {r}))
             /\ pc' = "idle" /\ UNCHANGED result
    <3>1. pc = "end" /\ UNCHANGED <<r, frames>>
      BY <1>7 DEF WriteEnd
    <3>2. result \in {"end", "eof"}
      BY <3>1 DEF IInv, SentOK
    <3>3. frame.by = "length" /\ ~frame.bare /\ result = "end" =>
            Relayed(out) = frame.n
      <4>1. Relayed(out) \in Nat
        BY <1>0, RelayedType
      <4>2. frame.by = "length" /\ ~frame.bare /\ result = "end" =>
              recv_content_size = 0 /\ 0 + Relayed(out) = frame.n
        BY <3>1 DEF CountedOK, None
      <4> QED BY <4>1, <4>2
    <3> QED BY <2>2, <3>1, <3>2, <3>3, CountedEnds
  <2> QED BY <1>7, <2>1, <2>2 DEF WriteEnd
<1>8. CASE ParseStatus
  BY <1>8, CountedSame DEF ParseStatus, Unparsed, Return
<1>9. CASE ParseText
  BY <1>9, CountedSame DEF ParseText
<1>10. CASE ParseLineEnd
  <2>1. CASE VerifyHeader /\ UNCHANGED pc
    <3>1. /\ pc = "parse" /\ UNCHANGED <<r, frames, out>>
      BY <1>10 DEF ParseLineEnd
    <3>2. frame' = frame
      BY <3>1 DEF frame
    <3>3. out = <<>> /\ Relayed(out) = 0
      BY <3>1 DEF IInv, PlaceOK, SentOK, TwoHeads, Relayed
    <3>4. recv_content_size' # None => recv_content_size' = frame.n
      BY <2>1, <3>1, CountedHead
    <3>5. r > 0 /\ frame.n \in Nat
      BY <1>0, <3>1, FrameType DEF IInv, PlaceOK
    <3>6. Relayed(out)' = 0
      BY <3>1, <3>3
    <3>7. recv_content_size' # None =>
            recv_content_size' + Relayed(out)' = frame.n
      BY <3>4, <3>5, <3>6
    <3> QED BY <2>1, <3>1, <3>2, <3>7 DEF CountedOK
  <2>2. CASE UNCHANGED <<pc, recv_content_size, result>>
    BY <1>10, <2>2, CountedSame DEF ParseLineEnd
  <2>3. CASE Unparsed
    BY <1>10, <2>3, CountedSame DEF ParseLineEnd, Unparsed, Return
  <2> QED BY <1>10, <2>1, <2>2, <2>3 DEF ParseLineEnd
<1>11. CASE ParseHeadEnd
  <2>1. CASE Unparsed /\ UNCHANGED out
    BY <1>11, <2>1, CountedSame DEF ParseHeadEnd, Unparsed, Return
  <2>2. CASE /\ VerifyHeader /\ pc' = IF Len(buf) = 4 THEN "read" ELSE "data"
             /\ out' = Append(out, Piece("head", 0, of))
    <3>1. pc = "parse" /\ UNCHANGED <<r, frames>>
      BY <1>11 DEF ParseHeadEnd
    <3>2. PICK p : p = Piece("head", 0, of)
      OBVIOUS
    <3>3. p \in Pieces /\ p.kind = "head" /\ p.n = 0
      <4>1. of \in SUBSET (0..MaxResponses)
        BY DEF IInv, TypeOK
      <4> QED BY <3>2, <4>1, PieceType DEF Piece
    <3>4. Extends(out', out, p, Pieces)
      BY <1>0, <2>2, <3>2, <3>3, AppendFacts
    <3>5. r > 0 /\ frame.n \in Nat
      BY <1>0, <3>1, FrameType DEF IInv, PlaceOK
    <3>6. recv_content_size' # None => recv_content_size' = frame.n
      BY <2>2, <3>1, CountedHead
    <3>7. recv_content_size' # None => recv_content_size' + p.n = frame.n
      BY <3>3, <3>5, <3>6
    <3>8. pc' \in {"read", "data"}
      BY <2>2
    <3> QED BY <3>1, <3>3, <3>4, <3>7, <3>8, CountedSends
  <2> QED BY <1>11, <2>1, <2>2 DEF ParseHeadEnd
<1>12. CASE ParseMore
  BY <1>12, CountedSame DEF ParseMore
<1>13. CASE Data
  BY <1>13, DataCounted
<1> QED BY <1>1, <1>2, <1>3, <1>4, <1>5, <1>6, <1>7, <1>8, <1>9, <1>10,
           <1>11, <1>12, <1>13 DEF Loop

\* Only a request makes a relay that was late one in step.
LEMMA LateStays ==
  ASSUME [Next]_vars, ~Request, late
  PROVE  late'
<1>1. CASE Loop
  BY <1>1 DEF Loop, NotModified, Read, ReadNothing, ReadEof, ReadError,
              TimedOut, Leave, WriteEnd, ParseStatus, Unparsed, ParseText,
              ParseLineEnd, ParseHeadEnd, ParseMore, Data
<1>2. CASE Curl
  BY <1>2 DEF Curl, CurlHeader, CurlHeadEnd, CurlData, CurlEnd, CurlFails
<1>3. CASE DestStops \/ UNCHANGED vars
  BY <1>3 DEF DestStops, vars
<1> QED BY <1>1, <1>2, <1>3 DEF Next

LEMMA CurlCounted ==
  ASSUME IInv, CountedOK, ~late, Curl
  PROVE  CountedOK'
<1> USE DEF parser
<1>1. /\ pc = "curl" /\ UNCHANGED <<r, frames, recv_content_size>>
  BY DEF Curl, CurlHeader, CurlHeadEnd, CurlData, CurlEnd, CurlFails
<1>2. /\ out \in Seq(Pieces) /\ r \in 0..MaxResponses
      /\ recv_content_size' = None /\ Relayed(out) \in Nat
      /\ wire \in Seq(Seen) /\ Len(wire) \in Nat
      /\ of \in SUBSET (0..MaxResponses)
  <2>1. out \in Seq(Pieces) /\ wire \in Seq(Seen) /\ Len(wire) \in Nat
    BY <1>1, CurlFacts
  <2>2. r \in 0..MaxResponses /\ of \in SUBSET (0..MaxResponses)
    BY DEF IInv, TypeOK
  <2>3. recv_content_size' = None
    BY <1>1 DEF CountedOK
  <2> QED BY <2>1, <2>2, <2>3, RelayedType
<1>3. CASE UNCHANGED out /\ (pc' = "idle" \/ UNCHANGED <<pc, result>>)
  BY <1>1, <1>3, CountedSame
<1>4. CASE /\ CurlHeadEnd /\ pc' = "curl"
           /\ out' = Append(out, Piece("head", 0, of))
  <2>1. PICK p : p = Piece("head", 0, of)
    OBVIOUS
  <2>2. p \in Pieces /\ p.kind = "head"
    BY <1>2, <2>1, PieceType
  <2>3. Extends(out', out, p, Pieces)
    BY <1>2, <1>4, <2>1, <2>2, AppendFacts
  <2> QED BY <1>1, <1>2, <1>4, <2>2, <2>3, CountedSends
<1>5. ASSUME NEW n \in 1..Len(wire), pc' = "curl",
             out' = Append(out, Piece("chunk", Relayed(out) + n,
                                      From(SubSeq(wire, 1, n))))
      PROVE  CountedOK'
  <2>1. PICK s, m, p : /\ s = SubSeq(wire, 1, n) /\ m = Relayed(out) + n
                       /\ p = Piece("chunk", m, From(s))
    OBVIOUS
  <2>2. n \in 0..Len(wire) /\ m \in Nat
    BY <1>2, <2>1
  <2>3. s \in Seq(Seen)
    BY <1>2, <2>1, <2>2, PrefixFacts DEF IsFront
  <2>4. p \in Pieces /\ p.kind = "chunk"
    <3>1. From(s) \in SUBSET (0..MaxResponses)
      BY <1>2, <2>3, FromIn
    <3> QED BY <2>1, <2>2, <3>1, PieceType
  <2>5. Extends(out', out, p, Pieces)
    BY <1>2, <1>5, <2>1, <2>4, AppendFacts
  <2> QED BY <1>1, <1>2, <1>5, <2>4, <2>5, CountedSends
<1>6. CASE /\ CurlComplete /\ pc' = "idle"
           /\ out' = Append(out, Piece("end", Relayed(out), {r}))
  <2>1. r > 0 /\ frame \in Frames
    BY <1>1, FrameType DEF IInv, PlaceOK
  <2>2. frame.by = "length" /\ ~frame.bare => Relayed(out) = frame.n
    BY <1>6, <2>1 DEF CurlComplete, Frames
  <2> QED BY <1>1, <1>6, <2>2, CountedEnds
<1> QED BY <1>1, <1>3, <1>4, <1>5, <1>6
        DEF Curl, CurlHeader, CurlHeadEnd, CurlData, CurlEnd, CurlFails,
            CurlReturn

LEMMA StepCounted ==
  ASSUME IInv, ~late => CountedOK, [Next]_vars
  PROVE  (~late => CountedOK)'
<1> SUFFICES ASSUME ~late' PROVE CountedOK'
  OBVIOUS
<1>1. CASE Request
  <2>1. /\ recv_content_size' = None /\ pc' \in {"curl", "read"}
    BY <1>1 DEF Request
  <2> QED BY <2>1 DEF CountedOK
<1>2. CASE ~Request
  <2>1. ~late /\ CountedOK
    BY <1>2, LateStays
  <2>2. CASE DestStops
    BY <2>1, <2>2, CountedSame DEF DestStops, parser
  <2>3. CASE UNCHANGED vars
    BY <2>1, <2>3, CountedSame DEF vars, parser
  <2> QED BY <1>2, <2>1, <2>2, <2>3, LoopCounted, CurlCounted DEF Next
<1> QED BY <1>1, <1>2

\* Where the length of the body is known, a client that gets its end has got
\* all of it, from do_ipv4_socket_forwarding and from do_curl_forwarding,
\* however it was cut by read(), unless the destination closed before.
THEOREM EndsMeanWhole == Spec => []EndMeansWhole
<1>1. Init => (~late => CountedOK)
  BY DEF Init, CountedOK, EndMeansWhole, Kinds
<1>2. IInv /\ (~late => CountedOK) => EndMeansWhole
  <2> SUFFICES ASSUME IInv, ~late, CountedOK PROVE EndMeansWhole
    BY DEF EndMeansWhole
  <2>1. pc # "idle" => "end" \notin Kinds
    <3>1. pc # "idle" => Begun(out)
      BY DEF IInv, SentOK
    <3> QED BY <3>1, NoEndYet DEF Kinds
  <2> QED BY <2>1 DEF CountedOK, EndMeansWhole
<1> QED BY <1>1, <1>2, StepCounted, InvariantHolds, PTL DEF Spec

-----------------------------------------------------------------------------
(* The loop does not wait for what has come.                               *)

\* wait_ticks starts again with every read(), and does not go on once a turn
\* of the loop would end it.
WaitOK ==
  /\ pc = "read" => buf = <<>>
  /\ pc \in {"parse", "data"} => wait_ticks = 0
  /\ /\ pc = "read" /\ ~before_content
     /\ recv_content_size = 0 \/ not_modified
     => wait_ticks = 0

LEMMA StepWaits ==
  ASSUME IInv, WaitOK, [Next]_vars
  PROVE  WaitOK'
<1> USE DEF conn, parser
<1>1. CASE Request
  BY <1>1 DEF Request, WaitOK
<1>2. CASE DestStops \/ UNCHANGED vars
  BY <1>2 DEF DestStops, vars, WaitOK
<1>3. CASE Curl
  BY <1>3 DEF Curl, CurlHeader, CurlHeadEnd, CurlData, CurlEnd, CurlFails,
              CurlReturn, WaitOK
<1>4. CASE NotModified \/ Read \/ ReadNothing \/ ReadEof \/ ReadError
  BY <1>4 DEF NotModified, Read, ReadNothing, ReadEof, ReadError, Return,
              Turn, WaitOK
<1>5. CASE TimedOut \/ WriteEnd
  BY <1>5 DEF TimedOut, Leave, WriteEnd, Return, WaitOK
<1>6. CASE ParseStatus \/ ParseText \/ ParseLineEnd \/ ParseMore
  BY <1>6 DEF ParseStatus, ParseText, ParseLineEnd, ParseMore, Unparsed,
              Return, WaitOK
<1>7. CASE ParseHeadEnd
  <2>1. Len(buf) = 4 => SubSeq(buf, 4 + 1, Len(buf)) = <<>>
    <3>1. buf \in Seq(Seen)
      BY DEF IInv, StreamOK
    <3>2. Len(buf) = 4 => 4 \in 0..Len(buf) /\ 4 + 1 = 5
      BY <3>1
    <3>3. Len(buf) = 4 => IsSuffix(SubSeq(buf, 4 + 1, Len(buf)), buf, 4, Seen)
      BY <3>1, <3>2, SuffixFacts
    <3> QED BY <3>2, <3>3 DEF IsSuffix
  <2>2. pc = "parse" /\ wait_ticks' = 0
    BY <1>7 DEF ParseHeadEnd, WaitOK
  <2>3. \/ pc' = "idle" \/ pc' = "data"
        \/ pc' = "read" /\ Len(buf) = 4 /\ buf' = SubSeq(buf, 4 + 1, Len(buf))
    BY <1>7 DEF ParseHeadEnd, Drop, Unparsed, Return
  <2> QED BY <2>1, <2>2, <2>3 DEF WaitOK
<1>8. CASE Data
  BY <1>8 DEF Data, Return, WaitOK
<1> QED BY <1>1, <1>2, <1>3, <1>4, <1>5, <1>6, <1>7, <1>8 DEF Next, Loop

-----------------------------------------------------------------------------
(* Where the parser is in the response.                                    *)

\* How many bytes there are that the parser has not seen, and what they say.
Ahead == Len(buf) + Len(wire)
TextAt(b, w, i) == IF i <= Len(b) THEN b[i].text ELSE w[i - Len(b)].text
At(i) == TextAt(buf, wire, i)

\* The head of a response with a content-length, and the beginning of that of
\* a chunked one, which says so in its first header.
HeadText(by) ==
  IF by = "length"
  THEN <<"S", "CR", "LF", "H", "CR", "LF", "L", "CR", "LF", "CR", "LF">>
  ELSE <<"S", "CR", "LF", "T", "CR", "LF", "H">>

HeadLen(by) == IF by = "length" THEN 11 ELSE 7

\* k texts of it are behind the parser, the others ahead.
Placed(by, k) ==
  /\ Ahead >= HeadLen(by) - k
  /\ \A i \in (k + 1)..HeadLen(by) : At(i - k) = HeadText(by)[i]

\* Between lines, or with the header of a line in hand.
Parsing(by, k) ==
  \/ k \in {0, 1} /\ before_first_line /\ line = NoLine
  \/ k \in {3, 6, 9} /\ ~before_first_line /\ line = NoLine
  \/ k \in {4, 7} /\ ~before_first_line /\ line.text = HeadText(by)[k]

\* After n more bytes there is no line end.
NoMoreLines(n) == \A i \in (n + 1)..Ahead : At(i) # "CR"

NoneLeft ==
  \/ not_modified
  \/ before_content /\ before_first_line /\ Ahead > 0 /\ At(1) = "304"

ChunksLeft ==
  /\ \/ chunked
     \/ /\ before_content
        /\ \E k \in {0, 1, 3, 4} :
             Placed("chunked", k) /\ Parsing("chunked", k)
  /\ \/ HasLast(out)
     \/ Ahead > 0 /\ At(Ahead) = "z"
     \/ before_content /\ Ahead = 0

\* The head is only found if it ends in one read(): else its empty line is
\* not taken for one, and no other comes.
BytesLeft ==
  \/ ~before_content /\ recv_content_size = Ahead
  \/ /\ before_content
     /\ \E k \in {0, 1, 3, 4, 6, 7, 9} :
          /\ Placed("length", k) /\ Parsing("length", k)
          /\ Ahead = 11 - k + frame.n /\ NoMoreLines(11 - k)
  \/ before_content /\ ~before_first_line /\ NoMoreLines(0)

Simple(f) == ~f.bare /\ f.ahead = ""

LeftOK ==
  pc \in {"read", "parse", "data"} /\ ~fin /\ ~silent =>
    /\ frame.status = "304" /\ frame.ahead # "interim" => NoneLeft
    /\ frame.by = "chunked" /\ Simple(frame) => ChunksLeft
    /\ frame.by = "length" /\ frame.n > 0 /\ Simple(frame) => BytesLeft

\* The parser or read() goes m bytes on.
Moved(m) ==
  /\ m \in 0..Ahead /\ Ahead \in Nat /\ Ahead' = Ahead - m
  /\ \A i \in 1..(Ahead - m) :
       TextAt(buf', wire', i) = TextAt(buf, wire, i + m)

LEMMA AheadType ==
  ASSUME IInv
  PROVE  /\ buf \in Seq(Seen) /\ wire \in Seq(Seen)
         /\ Len(buf) \in Nat /\ Len(wire) \in Nat /\ Ahead \in Nat
<1>1. buf \in Seq(Seen) /\ wire \in Seq(Seen)
  BY DEF IInv, StreamOK
<1> QED BY <1>1 DEF Ahead

LEMMA DropMoves ==
  ASSUME IInv, NEW m \in 0..Len(buf), Drop(m), UNCHANGED wire
  PROVE  Moved(m)
<1>1. /\ buf \in Seq(Seen) /\ Len(buf) \in Nat /\ Len(wire) \in Nat
      /\ Ahead \in Nat
  BY AheadType
<1>2. IsSuffix(buf', buf, m, Seen)
  BY <1>1, SuffixFacts DEF Drop
<1>3. Len(buf') = Len(buf) - m /\ \A i \in 1..Len(buf') : buf'[i] = buf[m + i]
  BY <1>2 DEF IsSuffix
<1>4. Ahead' = Ahead - m /\ m \in 0..Ahead
  BY <1>1, <1>3 DEF Ahead
<1>5. ASSUME NEW i \in 1..(Ahead - m)
      PROVE  TextAt(buf', wire', i) = TextAt(buf, wire, i + m)
  <2>1. CASE i <= Len(buf) - m
    <3>1. i \in 1..Len(buf') /\ i + m <= Len(buf) /\ m + i = i + m
      BY <1>1, <1>3, <2>1
    <3> QED BY <1>3, <2>1, <3>1 DEF TextAt
  <2>2. CASE i > Len(buf) - m
    <3>1. /\ ~(i <= Len(buf')) /\ ~(i + m <= Len(buf))
          /\ i - Len(buf') = (i + m) - Len(buf)
      BY <1>1, <1>3, <2>2
    <3> QED BY <3>1 DEF TextAt
  <2> QED BY <1>1, <2>1, <2>2
<1> QED BY <1>1, <1>4, <1>5 DEF Moved

LEMMA ReadMoves ==
  ASSUME IInv, WaitOK, Read
  PROVE  Moved(0)
<1>1. /\ wire \in Seq(Seen) /\ Len(buf) = 0 /\ Len(wire) \in Nat
      /\ Ahead = Len(wire) /\ Ahead \in Nat
  <2>1. buf = <<>>
    BY DEF Read, Turn, WaitOK
  <2>2. Len(buf) = 0
    BY <2>1
  <2> QED BY <2>2, AheadType DEF Ahead
<1>2. PICK n \in 1..Len(wire) :
        buf' = SubSeq(wire, 1, n) /\ wire' = SubSeq(wire, n + 1, Len(wire))
  BY DEF Read
<1>3. n \in 0..Len(wire)
  BY <1>1
<1>4. IsFront(buf', wire, n, Seen) /\ IsSuffix(wire', wire, n, Seen)
  BY <1>1, <1>2, <1>3, PrefixFacts, SuffixFacts
<1>5. /\ Len(buf') = n /\ Len(wire') = Len(wire) - n
      /\ \A i \in 1..n : buf'[i] = wire[i]
      /\ \A i \in 1..Len(wire') : wire'[i] = wire[n + i]
  BY <1>4 DEF IsFront, IsSuffix
<1>6. Ahead' = Ahead
  BY <1>1, <1>3, <1>5 DEF Ahead
<1>7. ASSUME NEW i \in 1..(Ahead - 0)
      PROVE  TextAt(buf', wire', i) = TextAt(buf, wire, i + 0)
  <2>1. ~(i <= Len(buf)) /\ i + 0 - Len(buf) = i /\ i + 0 = i
    BY <1>1
  <2>2. CASE i <= n
    BY <1>5, <2>1, <2>2 DEF TextAt
  <2>3. CASE ~(i <= n)
    <3>1. i - n \in 1..Len(wire') /\ n + (i - n) = i
      BY <1>1, <1>3, <1>5, <2>3
    <3> QED BY <1>5, <2>1, <2>3, <3>1 DEF TextAt
  <2> QED BY <2>2, <2>3
<1> QED BY <1>1, <1>6, <1>7 DEF Moved

LEMMA HeadTexts ==
  /\ HeadLen("length") = 11 /\ HeadLen("chunked") = 7
  /\ HeadText("length")[1] = "S" /\ HeadText("length")[2] = "CR"
  /\ HeadText("length")[3] = "LF" /\ HeadText("length")[4] = "H"
  /\ HeadText("length")[5] = "CR" /\ HeadText("length")[6] = "LF"
  /\ HeadText("length")[7] = "L" /\ HeadText("length")[8] = "CR"
  /\ HeadText("length")[9] = "LF" /\ HeadText("length")[10] = "CR"
  /\ HeadText("length")[11] = "LF"
  /\ HeadText("chunked")[1] = "S" /\ HeadText("chunked")[2] = "CR"
  /\ HeadText("chunked")[3] = "LF" /\ HeadText("chunked")[4] = "T"
  /\ HeadText("chunked")[5] = "CR" /\ HeadText("chunked")[6] = "LF"
  /\ HeadText("chunked")[7] = "H"
BY DEF HeadText, HeadLen

\* The parser moves along the head.
LEMMA PlacedMoves ==
  ASSUME NEW by \in {"length", "chunked"}, NEW k \in Nat, NEW m \in Nat,
         k + m <= HeadLen(by), Placed(by, k), Moved(m)
  PROVE  Placed(by, k + m)'
<1>1. HeadLen(by) \in Nat
  BY HeadTexts
<1>2. Ahead \in Nat /\ Ahead' = Ahead - m /\ Ahead >= HeadLen(by) - k
  BY DEF Moved, Placed
<1>3. Ahead' >= HeadLen(by) - (k + m)
  BY <1>1, <1>2
<1>4. ASSUME NEW i \in (k + m + 1)..HeadLen(by)
      PROVE  TextAt(buf', wire', i - (k + m)) = HeadText(by)[i]
  <2>1. /\ i - (k + m) \in 1..(Ahead - m) /\ i - (k + m) + m = i - k
        /\ i \in (k + 1)..HeadLen(by)
    BY <1>1, <1>2
  <2>2. TextAt(buf', wire', i - (k + m)) = TextAt(buf, wire, i - k)
    BY <2>1 DEF Moved
  <2>3. TextAt(buf, wire, i - k) = HeadText(by)[i]
    BY <2>1 DEF Placed, At
  <2> QED BY <2>2, <2>3
<1> QED BY <1>3, <1>4 DEF Placed, At

\* ... and the rest of the response comes no nearer than it is.
LEMMA TailMoves ==
  ASSUME NEW k \in Nat, NEW m \in Nat, Moved(m), UNCHANGED <<r, frames>>,
         frame.n \in Nat, k + m <= 11,
         Ahead = 11 - k + frame.n, NoMoreLines(11 - k)
  PROVE  Ahead' = 11 - (k + m) + frame'.n /\ NoMoreLines(11 - (k + m))'
<1>1. frame' = frame
  BY DEF frame
<1>2. Ahead \in Nat /\ Ahead' = Ahead - m
  BY DEF Moved
<1>3. Ahead' = 11 - (k + m) + frame'.n
  BY <1>1, <1>2
<1>4. ASSUME NEW i \in (11 - (k + m) + 1)..Ahead'
      PROVE  TextAt(buf', wire', i) # "CR"
  <2>1. i \in 1..(Ahead - m) /\ i + m \in (11 - k + 1)..Ahead
    BY <1>2
  <2> QED BY <2>1 DEF Moved, NoMoreLines, At
<1> QED BY <1>3, <1>4 DEF NoMoreLines, At

ParseStep == ParseStatus \/ ParseText \/ ParseLineEnd \/ ParseHeadEnd

\* What the parser sees first is what is ahead.
LEMMA FirstAhead ==
  ASSUME IInv, buf # <<>>
  PROVE  /\ Ahead > 0 /\ At(1) = buf[1].text
         /\ StartsWith(<<"CR", "LF">>) => At(1) = "CR" /\ At(2) = "LF"
         /\ EndOfHead => /\ At(1) = "CR" /\ At(2) = "LF"
                         /\ At(3) = "CR" /\ At(4) = "LF" /\ Ahead >= 4
<1>1. Len(buf) \in Nat /\ Len(wire) \in Nat /\ Len(buf) > 0
  BY AheadType
<1>2. Ahead > 0 /\ At(1) = buf[1].text
  BY <1>1 DEF Ahead, At, TextAt
<1>3. StartsWith(<<"CR", "LF">>) => At(1) = "CR" /\ At(2) = "LF"
  BY <1>1 DEF StartsWith, At, TextAt
<1>4. EndOfHead => /\ At(1) = "CR" /\ At(2) = "LF"
                   /\ At(3) = "CR" /\ At(4) = "LF" /\ Ahead >= 4
  BY <1>1 DEF EndOfHead, StartsWith, At, TextAt, Ahead
<1> QED BY <1>2, <1>3, <1>4

\* The ways on of the parser.
LEMMA ParseWays ==
  ASSUME IInv, ParseStep, pc' # "idle"
  PROVE  /\ pc = "parse" /\ before_content /\ Ahead > 0 /\ buf # <<>>
         /\ UNCHANGED <<r, frames, fin, silent, late>>
         /\ chunked => chunked'
         /\ not_modified => not_modified'
         /\ \/ /\ before_first_line /\ At(1) # "CR" /\ Moved(1)
               /\ not_modified' = (not_modified \/ At(1) = "304")
               /\ UNCHANGED <<before_first_line, before_content, line, out>>
            \/ /\ before_first_line /\ At(1) = "CR" /\ Moved(2)
               /\ before_first_line' = FALSE
               /\ UNCHANGED <<before_content, line, out>>
            \/ /\ ~before_first_line /\ At(1) # "CR" /\ Moved(1)
               /\ line = NoLine /\ At(1) \in {"H", "L", "T"} =>
                    line'.text = At(1)
               /\ UNCHANGED <<before_first_line, before_content, out>>
            \/ /\ ~before_first_line /\ At(1) = "CR" /\ Moved(2)
               /\ line.text \in {"H", "L", "T"} /\ VerifyHeader
               /\ UNCHANGED <<before_first_line, before_content, out>>
            \/ /\ ~before_first_line /\ At(1) = "CR" /\ Moved(1)
               /\ line = NoLine \/ line.text = "E"
               /\ ~EndOfHead
               /\ UNCHANGED <<before_first_line, before_content, line, out>>
            \/ /\ ~before_first_line /\ EndOfHead /\ Moved(4)
               /\ VerifyHeader /\ before_content' = FALSE
               /\ UNCHANGED <<before_first_line, not_modified>>
<1> USE DEF conn
<1>1. /\ pc = "parse" /\ buf # <<>> /\ UNCHANGED <<r, frames>>
      /\ before_content
  <2>1. pc = "parse" /\ buf # <<>> /\ UNCHANGED <<r, frames>>
    BY DEF ParseStep, ParseStatus, ParseText, ParseLineEnd, ParseHeadEnd
  <2> QED BY <2>1 DEF IInv, PlaceOK
<1>2. /\ 1 \in 0..Len(buf)
      /\ StartsWith(<<"CR", "LF">>) => 2 \in 0..Len(buf)
      /\ EndOfHead => 4 \in 0..Len(buf)
  BY <1>1, AheadType, FirstByte, StartLength
<1>3. /\ Ahead > 0 /\ At(1) = buf[1].text
      /\ StartsWith(<<"CR", "LF">>) => At(1) = "CR"
  BY <1>1, FirstAhead
<1>4. CASE ParseStatus
  <2>1. CASE /\ buf[1].text # "CR" /\ Drop(1)
             /\ not_modified' = (not_modified \/ buf[1].text = "304")
             /\ UNCHANGED <<before_first_line, conn, late>>
    <3>1. Moved(1)
      BY <1>2, <2>1, DropMoves
    <3> QED BY <1>1, <1>3, <1>4, <2>1, <3>1 DEF ParseStatus
  <2>2. CASE /\ StartsWith(<<"CR", "LF">>) /\ Drop(2)
             /\ before_first_line' = FALSE
             /\ UNCHANGED <<not_modified, conn, late>>
    <3>1. Moved(2)
      BY <1>2, <2>2, DropMoves
    <3> QED BY <1>1, <1>3, <1>4, <2>2, <3>1 DEF ParseStatus
  <2> QED BY <1>4, <2>1, <2>2 DEF ParseStatus, Unparsed, Return
<1>5. CASE ParseText
  <2>1. /\ ~before_first_line /\ buf[1].text # "CR" /\ Drop(1)
        /\ UNCHANGED <<wire, fin, silent, before_first_line, before_content,
                       out, late, chunked, not_modified>>
    BY <1>5 DEF ParseText
  <2>2. Moved(1)
    BY <1>2, <2>1, DropMoves
  <2>3. line = NoLine /\ buf[1].text \in {"H", "L", "T"} =>
          line'.text = buf[1].text
    BY <1>5, NoLineType DEF ParseText
  <2> QED BY <1>1, <1>3, <2>1, <2>2, <2>3
<1>6. CASE ParseLineEnd
  <2>1. ~before_first_line /\ buf[1].text = "CR" /\ ~EndOfHead /\ UNCHANGED out
    BY <1>6 DEF ParseLineEnd
  <2>2. CASE /\ StartsWith(<<"CR", "LF">>) /\ line.text \in {"H", "L", "T"}
             /\ VerifyHeader /\ Drop(2)
             /\ UNCHANGED <<conn, late, before_first_line, before_content,
                            not_modified>>
    <3>1. Moved(2)
      BY <1>2, <2>2, DropMoves
    <3>2. chunked => chunked'
      BY <2>2 DEF VerifyHeader
    <3> QED BY <1>1, <1>3, <2>1, <2>2, <3>1, <3>2
  <2>3. CASE /\ line = NoLine \/ line.text = "E"
             /\ Drop(1)
             /\ UNCHANGED <<conn, late, before_first_line, before_content,
                            line, chunked, not_modified>>
    <3>1. Moved(1)
      BY <1>2, <2>3, DropMoves
    <3> QED BY <1>1, <1>3, <2>1, <2>3, <3>1
  <2> QED BY <1>6, <2>2, <2>3 DEF ParseLineEnd, Unparsed, Return
<1>7. CASE ParseHeadEnd
  <2>1. /\ ~before_first_line /\ EndOfHead /\ VerifyHeader /\ Drop(4)
        /\ before_content' = FALSE
        /\ UNCHANGED <<conn, late, before_first_line, not_modified>>
    BY <1>7 DEF ParseHeadEnd, Unparsed, Return
  <2>2. Moved(4)
    BY <1>2, <2>1, DropMoves
  <2>3. chunked => chunked'
    BY <2>1 DEF VerifyHeader
  <2> QED BY <1>1, <1>3, <2>1, <2>2, <2>3
<1> QED BY <1>4, <1>5, <1>6, <1>7 DEF ParseStep

LEMMA PlaceTexts ==
  ASSUME NEW by \in {"length", "chunked"}, NEW k \in Nat, Placed(by, k)
  PROVE  /\ k + 1 <= HeadLen(by) => At(1) = HeadText(by)[k + 1]
         /\ k + 3 <= HeadLen(by) => At(3) = HeadText(by)[k + 3]
<1>1. HeadLen(by) \in Nat
  BY HeadTexts
<1>2. ASSUME NEW j \in {1, 3}, k + j <= HeadLen(by)
      PROVE  At(j) = HeadText(by)[k + j]
  <2>1. k + j \in (k + 1)..HeadLen(by) /\ (k + j) - k = j
    BY <1>1, <1>2
  <2> QED BY <2>1 DEF Placed
<1> QED BY <1>2

\* From a place in the head the parser goes to the next.
LEMMA HeadWays ==
  ASSUME IInv, ParseStep, pc' # "idle", NEW by \in {"length", "chunked"},
         NEW k \in {0, 1, 3, 4, 6, 7, 9}, by = "chunked" => k <= 4,
         Placed(by, k), Parsing(by, k)
  PROVE  \/ /\ k \in {0, 3, 6} /\ Moved(1) /\ Parsing(by, k + 1)'
            /\ before_content'
         \/ k = 1 /\ Moved(2) /\ Parsing(by, 3)' /\ before_content'
         \/ /\ k \in {4, 7} /\ Moved(2) /\ VerifyHeader /\ before_content'
            /\ line.text = HeadText(by)[k] /\ ~before_first_line'
         \/ /\ k = 7 /\ Moved(4) /\ VerifyHeader /\ ~before_content'
            /\ line.text = "L"
         \/ k = 9 /\ Moved(1) /\ ~before_first_line' /\ before_content'
         \/ k = 9 /\ EndOfHead
<1>1. /\ k \in Nat /\ HeadLen(by) \in {7, 11} /\ k + 1 <= HeadLen(by)
      /\ k # 9 => k + 3 <= HeadLen(by)
  BY HeadTexts
<1>2. At(1) = HeadText(by)[k + 1] /\ (k # 9 => At(3) = HeadText(by)[k + 3])
  BY <1>1, PlaceTexts
<1>3. /\ k \in {0, 3, 6} => At(1) # "CR"
      /\ k \in {1, 4, 7, 9} => At(1) = "CR"
      /\ k = 4 => At(3) # "CR"
  BY <1>2, HeadTexts
<1>4. buf # <<>> /\ before_content
  BY ParseWays
<1>5. EndOfHead => At(1) = "CR" /\ At(3) = "CR"
  BY <1>4, FirstAhead
<1>6. CASE k = 0
  <2>1. before_first_line /\ line = NoLine /\ At(1) # "CR"
    BY <1>3, <1>6 DEF Parsing
  <2>2. Moved(1) /\ UNCHANGED <<before_first_line, before_content, line>>
    BY <2>1, ParseWays
  <2>3. Parsing(by, 1)'
    BY <2>1, <2>2 DEF Parsing
  <2> QED BY <1>4, <1>6, <2>2, <2>3
<1>7. CASE k = 1
  <2>1. before_first_line /\ line = NoLine /\ At(1) = "CR"
    BY <1>3, <1>7 DEF Parsing
  <2>2. /\ Moved(2) /\ before_first_line' = FALSE
        /\ UNCHANGED <<before_content, line>>
    BY <2>1, ParseWays
  <2>3. Parsing(by, 3)'
    BY <2>1, <2>2 DEF Parsing
  <2> QED BY <1>4, <1>7, <2>2, <2>3
<1>8. CASE k \in {3, 6}
  <2>1. ~before_first_line /\ line = NoLine /\ At(1) # "CR"
    BY <1>3, <1>8 DEF Parsing
  <2>2. At(1) \in {"H", "L", "T"}
    BY <1>2, <1>8, HeadTexts
  <2>3. /\ Moved(1) /\ line'.text = At(1)
        /\ UNCHANGED <<before_first_line, before_content>>
    BY <1>5, <2>1, <2>2, ParseWays
  <2>4. Parsing(by, k + 1)'
    <3>1. k + 1 \in {4, 7} /\ line'.text = HeadText(by)[k + 1]
      BY <1>2, <1>8, <2>3
    <3> QED BY <2>1, <2>3, <3>1 DEF Parsing
  <2> QED BY <1>4, <1>8, <2>3, <2>4
<1>9. CASE k \in {4, 7}
  <2>1. ~before_first_line /\ line.text = HeadText(by)[k] /\ At(1) = "CR"
    BY <1>3, <1>9 DEF Parsing
  <2>2. line # NoLine
    BY <1>9, <2>1, HeadTexts, NoLineType
  <2>3. CASE k = 4
    <3>1. ~EndOfHead
      BY <1>3, <1>5, <2>3
    <3>2. line.text # "E"
      BY <2>1, <2>3, HeadTexts
    <3> QED BY <1>4, <1>9, <2>1, <2>2, <3>1, <3>2, ParseWays
  <2>4. CASE k = 7
    <3>1. HeadText(by)[k] = "L"
      BY <2>4, HeadTexts
    <3> QED BY <1>4, <1>9, <2>1, <2>2, <2>4, <3>1, ParseWays
  <2> QED BY <1>9, <2>3, <2>4
<1>10. CASE k = 9
  <2>1. ~before_first_line /\ line = NoLine /\ At(1) = "CR"
    BY <1>3, <1>10 DEF Parsing
  <2>2. line.text \notin {"H", "L", "T"}
    BY <2>1, NoLineType
  <2> QED BY <1>4, <1>10, <2>1, <2>2, ParseWays
<1> QED BY <1>6, <1>7, <1>8, <1>9, <1>10

LEMMA NoneParses ==
  ASSUME IInv, ParseStep, pc' # "idle", NoneLeft
  PROVE  NoneLeft'
<1>1. CASE not_modified
  BY <1>1, ParseWays DEF NoneLeft
<1>2. CASE before_first_line /\ At(1) = "304"
  BY <1>2, ParseWays DEF NoneLeft
<1> QED BY <1>1, <1>2 DEF NoneLeft

LEMMA ChunksParse ==
  ASSUME IInv, ~late, ParseStep, pc' # "idle", ChunksLeft
  PROVE  ChunksLeft'
<1>1. /\ pc = "parse" /\ before_content /\ Ahead > 0 /\ buf # <<>>
      /\ chunked => chunked'
  BY ParseWays
<1>2. At(Ahead) = "z"
  <2>1. out = <<>>
    BY <1>1 DEF IInv, SentOK, PlaceOK, TwoHeads
  <2>2. ~HasLast(out)
    BY <2>1 DEF HasLast
  <2> QED BY <1>1, <2>2 DEF ChunksLeft
<1>3. \/ Ahead' > 0 /\ At(Ahead)' = "z"
      \/ before_content' /\ Ahead' = 0
  <2>1. PICK m \in Nat : /\ Moved(m)
                         /\ UNCHANGED before_content \/ (m = 4 /\ EndOfHead)
    BY ParseWays
  <2>2. Ahead \in Nat /\ Ahead' = Ahead - m /\ m <= Ahead
    BY <2>1 DEF Moved
  <2>3. CASE Ahead > m
    <3>1. Ahead - m \in 1..(Ahead - m) /\ (Ahead - m) + m = Ahead
      BY <2>2, <2>3
    <3>2. TextAt(buf', wire', Ahead - m) = TextAt(buf, wire, Ahead)
      BY <2>1, <3>1 DEF Moved
    <3> QED BY <1>2, <2>2, <2>3, <3>2 DEF At
  <2>4. CASE Ahead = m
    <3>1. ~(m = 4 /\ EndOfHead)
      BY <1>1, <1>2, <2>4, FirstAhead
    <3>2. before_content'
      BY <1>1, <2>1, <3>1
    <3>3. Ahead' = 0
      BY <2>2, <2>4
    <3> QED BY <3>2, <3>3
  <2> QED BY <2>2, <2>3, <2>4
<1>4. \/ chunked'
      \/ /\ before_content'
         /\ \E k \in {0, 1, 3, 4} :
              Placed("chunked", k)' /\ Parsing("chunked", k)'
  <2>1. CASE chunked
    BY <1>1, <2>1
  <2>2. ASSUME NEW k \in {0, 1, 3, 4}, Placed("chunked", k),
               Parsing("chunked", k)
        PROVE  \/ chunked'
               \/ /\ before_content'
                  /\ \E j \in {0, 1, 3, 4} :
                       Placed("chunked", j)' /\ Parsing("chunked", j)'
    <3>1. \/ /\ k \in {0, 3} /\ Moved(1) /\ Parsing("chunked", k + 1)'
             /\ before_content'
          \/ k = 1 /\ Moved(2) /\ Parsing("chunked", 3)' /\ before_content'
          \/ k = 4 /\ VerifyHeader /\ line.text = "T"
      BY <2>2, HeadWays, HeadTexts
    <3>2. CASE k = 4 /\ VerifyHeader /\ line.text = "T"
      BY <3>2 DEF VerifyHeader
    <3>3. CASE /\ k \in {0, 3} /\ Moved(1) /\ Parsing("chunked", k + 1)'
               /\ before_content'
      <4>1. Placed("chunked", k + 1)'
        BY <2>2, <3>3, PlacedMoves, HeadTexts
      <4>2. k + 1 \in {0, 1, 3, 4}
        BY <3>3
      <4> QED BY <3>3, <4>1, <4>2
    <3>4. CASE k = 1 /\ Moved(2) /\ Parsing("chunked", 3)' /\ before_content'
      <4>1. Placed("chunked", 1 + 2)'
        BY <2>2, <3>4, PlacedMoves, HeadTexts
      <4>2. Placed("chunked", 3)'
        BY <4>1
      <4> QED BY <3>4, <4>2
    <3> QED BY <3>1, <3>2, <3>3, <3>4
  <2> QED BY <2>1, <2>2 DEF ChunksLeft
<1> QED BY <1>3, <1>4 DEF ChunksLeft

LEMMA LinesMove ==
  ASSUME NEW m \in Nat, Moved(m), NoMoreLines(0)
  PROVE  NoMoreLines(0)'
<1>1. Ahead \in Nat /\ Ahead' = Ahead - m
  BY DEF Moved
<1> SUFFICES ASSUME NEW i \in (0 + 1)..Ahead'
             PROVE  TextAt(buf', wire', i) # "CR"
  BY DEF NoMoreLines, At
<1>2. i \in 1..(Ahead - m) /\ i + m \in (0 + 1)..Ahead
  BY <1>1
<1> QED BY <1>2 DEF Moved, NoMoreLines, At

LEMMA BytesParse ==
  ASSUME IInv, ~late, ParseStep, pc' # "idle", BytesLeft,
         frame.by = "length", frame.n > 0
  PROVE  BytesLeft'
<1>1. /\ pc = "parse" /\ before_content /\ Ahead > 0 /\ buf # <<>>
      /\ UNCHANGED <<r, frames>>
  BY ParseWays
<1>2. r > 0 /\ frame.n \in Nat /\ frame' = frame
  BY <1>1, FrameType DEF IInv, PlaceOK, frame
<1>3. CASE ~before_first_line /\ NoMoreLines(0)
  <2>1. At(1) # "CR"
    <3>1. Ahead \in Nat /\ 1 \in (0 + 1)..Ahead
      BY <1>1, AheadType
    <3> QED BY <1>3, <3>1 DEF NoMoreLines
  <2>2. ~EndOfHead
    BY <1>1, <2>1, FirstAhead
  <2>3. Moved(1) /\ UNCHANGED <<before_first_line, before_content>>
    BY <1>3, <2>1, <2>2, ParseWays
  <2>4. NoMoreLines(0)'
    BY <1>3, <2>3, LinesMove
  <2> QED BY <1>1, <1>3, <2>3, <2>4 DEF BytesLeft
<1>4. ASSUME NEW k \in {0, 1, 3, 4, 6, 7, 9},
             Placed("length", k), Parsing("length", k),
             Ahead = 11 - k + frame.n, NoMoreLines(11 - k)
      PROVE  BytesLeft'
  <2>1. k \in Nat /\ HeadLen("length") = 11
    BY HeadTexts
  <2>2. ASSUME NEW m \in {1, 2}, Moved(m), k + m \in {1, 3, 4, 6, 7, 9},
               Parsing("length", k + m)', before_content'
        PROVE  BytesLeft'
    <3>1. PICK j \in {0, 1, 3, 4, 6, 7, 9} : j = k + m
      BY <2>2
    <3>2. m \in Nat /\ k + m <= 11
      BY <2>2
    <3>3. Placed("length", k + m)'
      BY <1>4, <2>1, <2>2, <3>2, PlacedMoves
    <3>4. Ahead' = 11 - (k + m) + frame'.n /\ NoMoreLines(11 - (k + m))'
      BY <1>1, <1>2, <1>4, <2>1, <2>2, <3>2, TailMoves
    <3>5. /\ Placed("length", j)' /\ Parsing("length", j)'
          /\ Ahead' = 11 - j + frame'.n /\ NoMoreLines(11 - j)'
      BY <2>2, <3>1, <3>3, <3>4
    <3> QED BY <2>2, <3>5 DEF BytesLeft
  <2>3. CASE /\ k \in {0, 3, 6} /\ Moved(1) /\ Parsing("length", k + 1)'
             /\ before_content'
    <3>1. k + 1 \in {1, 3, 4, 6, 7, 9}
      BY <2>3
    <3> QED BY <2>2, <2>3, <3>1
  <2>4. CASE k = 1 /\ Moved(2) /\ Parsing("length", 3)' /\ before_content'
    <3>1. k + 2 = 3 /\ Parsing("length", k + 2)'
      BY <2>4
    <3> QED BY <2>2, <2>4, <3>1
  <2>5. CASE /\ k \in {4, 7} /\ Moved(2) /\ VerifyHeader /\ before_content'
             /\ ~before_first_line'
    <3>1. line' = NoLine
      BY <2>5 DEF VerifyHeader
    <3>2. k + 2 \in {6, 9}
      BY <2>5
    <3>3. Parsing("length", k + 2)'
      BY <2>5, <3>1, <3>2 DEF Parsing
    <3>4. k + 2 \in {1, 3, 4, 6, 7, 9}
      BY <3>2
    <3> QED BY <2>2, <2>5, <3>3, <3>4
  <2>6. CASE /\ k = 7 /\ Moved(4) /\ VerifyHeader /\ ~before_content'
             /\ line.text = "L"
    <3>1. frames[line.of] = frame
      BY <2>6 DEF IInv, HeadOK, HeadOwn, frame
    <3>2. recv_content_size' = frame.n
      BY <2>6, <3>1 DEF VerifyHeader
    <3>3. Ahead' = frame.n
      <4>1. Ahead' = Ahead - 4
        BY <2>6 DEF Moved
      <4> QED BY <1>2, <1>4, <2>6, <4>1
    <3> QED BY <2>6, <3>2, <3>3 DEF BytesLeft
  <2>7. CASE k = 9 /\ Moved(1) /\ ~before_first_line' /\ before_content'
    <3>1. Ahead' = 11 - (9 + 1) + frame'.n /\ NoMoreLines(11 - (9 + 1))'
      <4>1. Ahead = 11 - 9 + frame.n /\ NoMoreLines(11 - 9)
        BY <1>4, <2>7
      <4>2. 9 \in Nat /\ 1 \in Nat /\ 9 + 1 <= 11
        OBVIOUS
      <4> QED BY <1>1, <1>2, <2>7, <4>1, <4>2, TailMoves
    <3>2. NoMoreLines(1)' /\ Ahead' \in Nat
      BY <1>2, <3>1
    <3>3. Placed("length", 9 + 1)'
      BY <1>4, <2>1, <2>7, PlacedMoves
    <3>4. At(1)' # "CR"
      <4>1. 11 \in (9 + 1 + 1)..HeadLen("length") /\ 11 - (9 + 1) = 1
        BY <2>1
      <4>2. TextAt(buf', wire', 1) = HeadText("length")[11]
        BY <3>3, <4>1 DEF Placed, At
      <4> QED BY <4>2, HeadTexts DEF At
    <3>5. NoMoreLines(0)'
      <4> SUFFICES ASSUME NEW i \in (0 + 1)..Ahead'
                   PROVE  TextAt(buf', wire', i) # "CR"
        BY DEF NoMoreLines, At
      <4>1. CASE i = 1
        BY <3>4, <4>1 DEF At
      <4>2. CASE i # 1
        <5>1. i \in (1 + 1)..Ahead'
          BY <3>2, <4>2
        <5> QED BY <3>2, <5>1 DEF NoMoreLines, At
      <4> QED BY <4>1, <4>2
    <3> QED BY <2>7, <3>5 DEF BytesLeft
  <2>8. CASE k = 9 /\ EndOfHead
    <3>1. At(3) = "CR" /\ Ahead >= 4 /\ Ahead \in Nat
      BY <1>1, <2>8, FirstAhead, AheadType
    <3>2. 3 \in (11 - 9 + 1)..Ahead
      BY <3>1
    <3> QED BY <1>4, <2>8, <3>1, <3>2 DEF NoMoreLines
  <2> QED BY <1>4, <2>3, <2>4, <2>5, <2>6, <2>7, <2>8, HeadWays
<1> QED BY <1>1, <1>3, <1>4 DEF BytesLeft

LEMMA CountPositive ==
  ASSUME NEW S, NEW s \in Seq(S), NEW t, NEW i \in DOMAIN s, s[i].text = t
  PROVE  Count(s, t) > 0
<1> DEFINE T == {j \in DOMAIN s : s[j].text = t}
<1>1. T \subseteq 1..Len(s) /\ Len(s) \in Nat
  OBVIOUS
<1>2. IsFiniteSet(1..Len(s))
  BY <1>1, FS_Interval
<1>3. IsFiniteSet(T)
  BY <1>1, <1>2, FS_Subset
<1>4. i \in T
  OBVIOUS
<1>5. Cardinality(T) \in Nat /\ Cardinality(T) # 0
  BY <1>3, <1>4, FS_CardinalityType, FS_EmptySet
<1> QED BY <1>5 DEF Count

\* Nothing moves but from the wire to the buffer.
LEMMA LeftSame ==
  ASSUME Moved(0),
         UNCHANGED <<r, frames, before_first_line, before_content, line,
                     chunked, not_modified, recv_content_size, out>>
  PROVE  /\ NoneLeft => NoneLeft'
         /\ ChunksLeft => ChunksLeft'
         /\ BytesLeft => BytesLeft'
<1>1. /\ Ahead \in Nat /\ Ahead' = Ahead /\ frame' = frame
      /\ \A i \in 1..Ahead : TextAt(buf', wire', i) = TextAt(buf, wire, i)
  BY DEF Moved, frame
<1>2. \A i \in 1..Ahead : At(i)' = At(i)
  BY <1>1 DEF At
<1>3. Ahead > 0 => 1 \in 1..Ahead /\ Ahead \in 1..Ahead
  BY <1>1
<1>4. ASSUME NEW by \in {"length", "chunked"}, NEW k \in {0, 1, 3, 4, 6, 7, 9},
             by = "chunked" => k <= 4, Placed(by, k), Parsing(by, k)
      PROVE  Placed(by, k)' /\ Parsing(by, k)'
  <2>1. k \in Nat /\ 0 \in Nat /\ k + 0 <= HeadLen(by) /\ k + 0 = k
    BY <1>4, HeadTexts
  <2>2. Placed(by, k + 0)'
    BY <1>4, <2>1, PlacedMoves
  <2>3. Parsing(by, k)'
    BY <1>4 DEF Parsing
  <2> QED BY <2>1, <2>2, <2>3
<1>5. NoneLeft => NoneLeft'
  BY <1>1, <1>2, <1>3 DEF NoneLeft
<1>6. ChunksLeft => ChunksLeft'
  <2>1. ASSUME Ahead > 0, At(Ahead) = "z" PROVE Ahead' > 0 /\ At(Ahead)' = "z"
    <3>1. TextAt(buf', wire', Ahead) = "z"
      BY <1>1, <1>3, <2>1 DEF At
    <3> QED BY <1>1, <2>1, <3>1 DEF At
  <2>2. ASSUME NEW k \in {0, 1, 3, 4}, Placed("chunked", k),
               Parsing("chunked", k)
        PROVE  Placed("chunked", k)' /\ Parsing("chunked", k)'
    <3>1. k \in {0, 1, 3, 4, 6, 7, 9} /\ k <= 4
      OBVIOUS
    <3> QED BY <1>4, <2>2, <3>1
  <2>3. HasLast(out)' <=> HasLast(out)
    BY DEF HasLast
  <2> QED BY <1>1, <2>1, <2>2, <2>3 DEF ChunksLeft
<1>7. BytesLeft => BytesLeft'
  <2>1. ASSUME NEW n \in Nat, NoMoreLines(n) PROVE NoMoreLines(n)'
    <3> SUFFICES ASSUME NEW i \in (n + 1)..Ahead'
                 PROVE  TextAt(buf', wire', i) # "CR"
      BY DEF NoMoreLines, At
    <3>1. i \in (n + 1)..Ahead /\ i \in 1..Ahead
      BY <1>1
    <3> QED BY <1>1, <2>1, <3>1 DEF NoMoreLines, At
  <2>2. ASSUME NEW k \in {0, 1, 3, 4, 6, 7, 9}, Placed("length", k),
               Parsing("length", k), Ahead = 11 - k + frame.n,
               NoMoreLines(11 - k)
        PROVE  /\ Placed("length", k)' /\ Parsing("length", k)'
               /\ Ahead' = 11 - k + frame'.n /\ NoMoreLines(11 - k)'
    <3>1. 11 - k \in Nat
      OBVIOUS
    <3> QED BY <1>1, <1>4, <2>1, <2>2, <3>1
  <2> QED BY <1>1, <2>1, <2>2 DEF BytesLeft
<1> QED BY <1>5, <1>6, <1>7

\* What is read of the body is handed on, and the rest is ahead.
LEMMA DataLeft ==
  ASSUME IInv, ~late, Data, pc' # "idle"
  PROVE  /\ NoneLeft => NoneLeft'
         /\ frame.by = "chunked" /\ ChunksLeft => ChunksLeft'
         /\ frame.by = "length" /\ BytesLeft => BytesLeft'
<1>1. /\ pc = "data" /\ buf' = <<>> /\ ~before_content /\ buf # <<>>
      /\ UNCHANGED <<r, frames, before_first_line, before_content, line,
                     chunked, not_modified, wire>>
  BY DEF Data, IInv, PlaceOK, conn, Return
<1>2. /\ buf \in Seq(Seen) /\ wire \in Seq(Seen)
      /\ Len(buf) \in Nat /\ Len(wire) \in Nat /\ Len(buf) > 0
      /\ Ahead = Len(buf) + Len(wire) /\ Ahead' = Len(wire)
  <2>1. Len(<<>>) = 0
    OBVIOUS
  <2>2. Ahead' = 0 + Len(wire)
    BY <1>1, <2>1 DEF Ahead
  <2> QED BY <1>1, <2>2, AheadType DEF Ahead
<1>3. NoneLeft => NoneLeft'
  BY <1>1 DEF NoneLeft
<1>4. ASSUME frame.by = "chunked", ChunksLeft PROVE ChunksLeft'
  <2>1. chunked /\ At(Ahead) = "z"
    <3>1. ~HasLast(out)
      BY <1>1 DEF IInv, SentOK
    <3> QED BY <1>1, <1>4, <3>1 DEF ChunksLeft
  <2>2. CASE Len(wire) = 0
    <3>1. Len(buf) \in DOMAIN buf /\ buf[Len(buf)].text = "z"
      BY <1>2, <2>1, <2>2 DEF At, TextAt
    <3>2. Count(buf, "z") > 0
      BY <1>2, <3>1, CountPositive
    <3>3. PICK n, p : /\ n = Relayed(out) + Count(buf, "c")
                      /\ p = Piece("last", n, From(buf))
      OBVIOUS
    <3>4. out' = Append(out, p)
      BY <1>1, <2>1, <3>2, <3>3 DEF Data, Return
    <3>5. p.kind = "last" /\ out \in Seq(Pieces)
      BY <3>3 DEF Piece, IInv, TypeOK, Pieces
    <3>6. Len(out) + 1 \in DOMAIN out' /\ out'[Len(out) + 1] = p
      BY <3>4, <3>5
    <3>7. HasLast(out)'
      BY <3>5, <3>6 DEF HasLast
    <3> QED BY <1>1, <2>1, <3>7 DEF ChunksLeft
  <2>3. CASE Len(wire) > 0
    <3>1. ~(Ahead <= Len(buf)) /\ Ahead - Len(buf) = Len(wire)
      BY <1>2, <2>3
    <3>2. wire[Len(wire)].text = "z"
      BY <2>1, <3>1 DEF At, TextAt
    <3>3. Len(buf') = 0 /\ ~(Len(wire) <= 0) /\ Len(wire) - 0 = Len(wire)
      BY <1>1, <1>2, <2>3
    <3>4. TextAt(buf', wire', Len(wire)) = "z"
      BY <1>1, <3>2, <3>3 DEF TextAt
    <3>5. At(Ahead)' = "z" /\ Ahead' > 0
      BY <1>2, <2>3, <3>4 DEF At
    <3> QED BY <1>1, <2>1, <3>5 DEF ChunksLeft
  <2> QED BY <1>2, <2>2, <2>3
<1>5. ASSUME frame.by = "length", BytesLeft PROVE BytesLeft'
  <2>1. recv_content_size = Ahead /\ ~chunked
    BY <1>1, <1>5 DEF BytesLeft, IInv, HeadOK, HeadOwn
  <2>2. recv_content_size # None /\ recv_content_size >= Len(buf)
    BY <1>2, <2>1 DEF None
  <2>3. recv_content_size' = recv_content_size - Len(buf)
    BY <1>1, <2>1, <2>2 DEF Data, Return
  <2>4. recv_content_size' = Ahead'
    BY <1>2, <2>1, <2>3
  <2> QED BY <1>1, <2>4 DEF BytesLeft
<1> QED BY <1>3, <1>4, <1>5

\* t is a and then b.
IsJoin(t, a, b, S) ==
  /\ t \in Seq(S) /\ Len(t) = Len(a) + Len(b)
  /\ \A i \in 1..Len(a) : t[i] = a[i]
  /\ \A i \in 1..Len(b) : t[Len(a) + i] = b[i]

LEMMA Joined ==
  ASSUME NEW S, NEW a \in Seq(S), NEW b \in Seq(S)
  PROVE  IsJoin(a \o b, a, b, S)
<1>1. /\ a \o b \in Seq(S) /\ Len(a \o b) = Len(a) + Len(b)
      /\ Len(a) \in Nat /\ Len(b) \in Nat
  OBVIOUS
<1>2. \A i \in 1..(Len(a) + Len(b)) :
        (a \o b)[i] = IF i <= Len(a) THEN a[i] ELSE b[i - Len(a)]
  OBVIOUS
<1>3. \A i \in 1..Len(a) : i \in 1..(Len(a) + Len(b)) /\ i <= Len(a)
  BY <1>1
<1>4. \A i \in 1..Len(b) : /\ Len(a) + i \in 1..(Len(a) + Len(b))
                           /\ ~(Len(a) + i <= Len(a))
                           /\ (Len(a) + i) - Len(a) = i
  BY <1>1
<1> QED BY <1>1, <1>2, <1>3, <1>4 DEF IsJoin

\* The texts of the response that the destination sends.
LEMMA ResponseTexts ==
  ASSUME NEW f \in Frames, NEW R, R = Response(f)
  PROVE  /\ f.status = "304" /\ f.ahead # "interim" =>
              Len(R) > 0 /\ R[1].text = "304"
         /\ f.by = "chunked" /\ Simple(f) =>
              /\ Len(R) \in Nat /\ Len(R) > 7 /\ R[Len(R)].text = "z"
              /\ \A i \in 1..7 : R[i].text = HeadText("chunked")[i]
         /\ f.by = "length" /\ Simple(f) =>
              /\ Len(R) = 11 + f.n
              /\ \A i \in 1..11 : R[i].text = HeadText("length")[i]
              /\ \A i \in 12..(11 + f.n) : R[i].text # "CR"
<1> DEFINE S == {Token(t) : t \in Texts}
<1>1. /\ f.by \in {"length", "chunked", "close"} /\ f.n \in Nat
      /\ f.status \in {"S", "204", "304"} /\ (f.status # "S" => f.bare)
      /\ f.ahead \in {"", "empty", "interim"} /\ f.bare \in BOOLEAN
  BY FrameFacts
<1>2. \A t \in Texts : Token(t) \in S /\ Token(t).text = t
  BY DEF Token
<1> HIDE DEF S
<1>3. ASSUME NEW t \in Texts
      PROVE  /\ Line(t) \in Seq(S) /\ Len(Line(t)) = 3
             /\ Line(t)[1].text = t /\ Line(t)[2].text = "CR"
             /\ Line(t)[3].text = "LF"
  <2>1. /\ Token(t) \in S /\ Token("CR") \in S /\ Token("LF") \in S
        /\ Token(t).text = t /\ Token("CR").text = "CR"
        /\ Token("LF").text = "LF"
    BY <1>2, <1>3 DEF Texts
  <2> QED BY <2>1 DEF Line
<1>4. ASSUME NEW t \in Texts, NEW n \in Nat
      PROVE  /\ Body(t, n) \in Seq(S) /\ Len(Body(t, n)) = n
             /\ \A i \in 1..n : Body(t, n)[i].text = t
  BY <1>2, <1>4 DEF Body
<1>5. PICK e : e = <<Token("CR"), Token("LF")>>
  OBVIOUS
<1>6. /\ e \in Seq(S) /\ Len(e) = 2 /\ e[1].text = "CR" /\ e[2].text = "LF"
  <2>1. /\ Token("CR") \in S /\ Token("LF") \in S
        /\ Token("CR").text = "CR" /\ Token("LF").text = "LF"
    BY <1>2 DEF Texts
  <2> QED BY <1>5, <2>1
<1>7. PICK s : s = Line(f.status)
  OBVIOUS
<1>8. /\ s \in Seq(S) /\ Len(s) = 3 /\ s[1].text = f.status
      /\ s[2].text = "CR" /\ s[3].text = "LF"
  <2>1. f.status \in Texts
    BY <1>1 DEF Texts
  <2> QED BY <1>3, <1>7, <2>1
<1>9. PICK h, c : h = Headers(f) /\ c = Content(f)
  OBVIOUS
<1>10. f.ahead # "interim" => R = ((s \o h) \o e) \o c
  BY <1>5, <1>7, <1>9 DEF Response, FinalResponse
<1>11. PICK x, y : x = Line("H") /\ y = IF f.by = "length" THEN Line("L")
                                        ELSE Line("T")
  OBVIOUS
<1>12. /\ x \in Seq(S) /\ Len(x) = 3 /\ x[1].text = "H"
       /\ x[2].text = "CR" /\ x[3].text = "LF"
       /\ y \in Seq(S) /\ Len(y) = 3
       /\ y[1].text = (IF f.by = "length" THEN "L" ELSE "T")
       /\ y[2].text = "CR" /\ y[3].text = "LF"
  BY <1>3, <1>11 DEF Texts
<1>13. ASSUME h \in Seq(S), Len(h) \in {3, 6}, c \in Seq(S),
              f.ahead # "interim"
       PROVE  /\ Len(R) = 5 + Len(h) + Len(c)
              /\ R[1].text = f.status /\ R[2].text = "CR" /\ R[3].text = "LF"
              /\ \A i \in 1..Len(h) : R[3 + i] = h[i]
              /\ R[4 + Len(h)].text = "CR" /\ R[5 + Len(h)].text = "LF"
              /\ \A i \in 1..Len(c) : R[5 + Len(h) + i] = c[i]
  <2>1. PICK a : a = s \o h
    OBVIOUS
  <2>2. /\ a \in Seq(S) /\ Len(a) = 3 + Len(h)
        /\ a[1] = s[1] /\ a[2] = s[2] /\ a[3] = s[3]
        /\ \A i \in 1..Len(h) : a[3 + i] = h[i]
    <3>1. IsJoin(a, s, h, S)
      BY <1>8, <1>13, <2>1, Joined
    <3> QED BY <1>8, <3>1 DEF IsJoin
  <2>3. PICK b : b = a \o e
    OBVIOUS
  <2>4. /\ b \in Seq(S) /\ Len(b) = 5 + Len(h)
        /\ \A i \in 1..(3 + Len(h)) : b[i] = a[i]
        /\ b[4 + Len(h)] = e[1] /\ b[5 + Len(h)] = e[2]
    <3>1. IsJoin(b, a, e, S)
      BY <1>6, <2>2, <2>3, Joined
    <3>2. /\ Len(a) + 1 = 4 + Len(h) /\ Len(a) + 2 = 5 + Len(h)
          /\ 1 \in 1..Len(e) /\ 2 \in 1..Len(e)
      BY <1>6, <1>13, <2>2
    <3> QED BY <1>6, <1>13, <2>2, <3>1, <3>2 DEF IsJoin
  <2>5. /\ Len(R) = Len(b) + Len(c)
        /\ \A i \in 1..Len(b) : R[i] = b[i]
        /\ \A i \in 1..Len(c) : R[Len(b) + i] = c[i]
    <3>1. IsJoin(R, b, c, S)
      BY <1>10, <1>13, <2>1, <2>3, <2>4, Joined
    <3> QED BY <3>1 DEF IsJoin
  <2>6. \A i \in 1..Len(h) : R[3 + i] = h[i]
    <3> SUFFICES ASSUME NEW i \in 1..Len(h) PROVE R[3 + i] = h[i]
      OBVIOUS
    <3>1. 3 + i \in 1..Len(b) /\ 3 + i \in 1..(3 + Len(h))
      BY <1>13, <2>4
    <3> QED BY <2>2, <2>4, <2>5, <3>1
  <2>7. /\ R[1] = s[1] /\ R[2] = s[2] /\ R[3] = s[3]
        /\ R[4 + Len(h)] = e[1] /\ R[5 + Len(h)] = e[2]
    <3>1. /\ 1 \in 1..Len(b) /\ 2 \in 1..Len(b) /\ 3 \in 1..Len(b)
          /\ 4 + Len(h) \in 1..Len(b) /\ 5 + Len(h) \in 1..Len(b)
          /\ 1 \in 1..(3 + Len(h)) /\ 2 \in 1..(3 + Len(h))
          /\ 3 \in 1..(3 + Len(h))
      BY <1>13, <2>4
    <3> QED BY <2>2, <2>4, <2>5, <3>1
  <2> QED BY <1>6, <1>8, <2>4, <2>5, <2>6, <2>7
<1>14. ASSUME f.status = "304", f.ahead # "interim"
       PROVE  Len(R) > 0 /\ R[1].text = "304"
  <2>1. c = <<>>
    BY <1>1, <1>9, <1>14 DEF Content
  <2>2. c \in Seq(S) /\ Len(c) = 0
    BY <2>1
  <2>3. PICK g, w : g = Framing(f) /\ w = Line("E")
    OBVIOUS
  <2>4. g = <<>> \/ g = y
    <3>1. f.by = "length" => g = Line("L") /\ y = Line("L")
      BY <1>11, <2>3 DEF Framing
    <3>2. f.by = "chunked" => g = Line("T") /\ y = Line("T")
      BY <1>11, <2>3 DEF Framing
    <3>3. f.by = "close" => g = <<>>
      BY <2>3 DEF Framing
    <3> QED BY <1>1, <3>1, <3>2, <3>3
  <2>5. g \in Seq(S) /\ Len(g) \in {0, 3}
    <3>1. <<>> \in Seq(S) /\ Len(<<>>) = 0
      OBVIOUS
    <3> QED BY <1>12, <2>4, <3>1
  <2>6. w \in Seq(S) /\ Len(w) = 3
    BY <1>3, <2>3 DEF Texts
  <2>7. h = w \o g \/ h = y \o x \/ h = x \o g
    <3>1. f.by = "chunked" => y = Line("T")
      BY <1>11
    <3>2. f.ahead = "empty" => h = w \o g
      BY <1>9, <2>3 DEF Headers
    <3>3. f.ahead # "empty" /\ f.by = "chunked" => h = Line("T") \o x
      BY <1>9, <1>11 DEF Headers
    <3>4. f.ahead # "empty" /\ f.by # "chunked" => h = x \o g
      BY <1>9, <1>11, <2>3 DEF Headers
    <3> QED BY <3>1, <3>2, <3>3, <3>4
  <2>8. /\ IsJoin(w \o g, w, g, S) /\ IsJoin(y \o x, y, x, S)
        /\ IsJoin(x \o g, x, g, S)
    BY <1>12, <2>5, <2>6, Joined
  <2>9. /\ w \o g \in Seq(S) /\ Len(w \o g) = 3 + Len(g)
        /\ y \o x \in Seq(S) /\ Len(y \o x) = 3 + 3
        /\ x \o g \in Seq(S) /\ Len(x \o g) = 3 + Len(g)
    BY <1>12, <2>6, <2>8 DEF IsJoin
  <2>10. h \in Seq(S) /\ (Len(h) = 3 + Len(g) \/ Len(h) = 3 + 3)
    BY ONLY <2>7, <2>9, Zenon
  <2>11. Len(h) \in {3, 6}
    <3>1. PICK l, m : l = Len(h) /\ m = Len(g)
      OBVIOUS
    <3>2. m \in {0, 3} /\ (l = 3 + m \/ l = 3 + 3)
      BY <2>5, <2>10, <3>1, Zenon
    <3>3. l \in {3, 6}
      BY ONLY <3>2
    <3> QED BY <3>1, <3>3
  <2>12. Len(R) = 5 + Len(h) + Len(c) /\ R[1].text = "304"
    BY <1>13, <1>14, <2>2, <2>10, <2>11
  <2>13. Len(R) > 0
    BY ONLY <2>2, <2>11, <2>12
  <2> QED BY <2>12, <2>13
<1>15. ASSUME f.by = "chunked", Simple(f)
       PROVE  /\ Len(R) \in Nat /\ Len(R) > 7 /\ R[Len(R)].text = "z"
              /\ \A i \in 1..7 : R[i].text = HeadText("chunked")[i]
  <2>0. ~f.bare /\ f.ahead = ""
    BY <1>15 DEF Simple
  <2>1. h = y \o x
    BY <1>9, <1>11, <1>15, <2>0 DEF Headers
  <2>2. /\ h \in Seq(S) /\ Len(h) = 6 /\ h[1] = y[1] /\ h[2] = y[2]
        /\ h[3] = y[3] /\ h[4] = x[1]
    <3>1. IsJoin(h, y, x, S)
      BY <1>12, <2>1, Joined
    <3> QED BY <1>12, <3>1 DEF IsJoin
  <2>3. PICK b, z : b = Body("c", f.n) /\ z = <<Token("z")>>
    OBVIOUS
  <2>4. b \in Seq(S) /\ Len(b) = f.n
    BY <1>1, <1>4, <2>3 DEF Texts
  <2>5. z \in Seq(S) /\ Len(z) = 1 /\ z[1].text = "z"
    <3>1. Token("z") \in S /\ Token("z").text = "z"
      BY <1>2 DEF Texts
    <3> QED BY <2>3, <3>1
  <2>6. c = b \o z
    BY <1>9, <1>15, <2>0, <2>3 DEF Content
  <2>7. c \in Seq(S) /\ Len(c) = f.n + 1 /\ c[f.n + 1].text = "z"
    <3>1. IsJoin(c, b, z, S)
      BY <2>4, <2>5, <2>6, Joined
    <3>2. c[f.n + 1] = z[1]
      BY <2>4, <2>5, <3>1 DEF IsJoin
    <3> QED BY <2>4, <2>5, <3>1, <3>2 DEF IsJoin
  <2>8. /\ Len(R) = 5 + 6 + (f.n + 1)
        /\ R[1].text = "S" /\ R[2].text = "CR" /\ R[3].text = "LF"
        /\ \A i \in 1..6 : R[3 + i] = h[i]
        /\ \A i \in 1..(f.n + 1) : R[5 + 6 + i] = c[i]
    BY <1>1, <1>13, <1>15, <2>0, <2>2, <2>7
  <2>9. /\ R[4].text = "T" /\ R[5].text = "CR" /\ R[6].text = "LF"
        /\ R[7].text = "H"
    <3>1. /\ R[3 + 1] = h[1] /\ R[3 + 2] = h[2] /\ R[3 + 3] = h[3]
          /\ R[3 + 4] = h[4]
      BY <2>8
    <3>2. R[4] = h[1] /\ R[5] = h[2] /\ R[6] = h[3] /\ R[7] = h[4]
      BY ONLY <3>1
    <3>3. y[1].text = "T"
      BY <1>12, <1>15
    <3> QED BY <1>12, <2>2, <3>2, <3>3
  <2>10. \A i \in 1..7 : R[i].text = HeadText("chunked")[i]
    <3>1. \A i \in 1..7 : i \in {1, 2, 3, 4, 5, 6, 7}
      OBVIOUS
    <3>2. R[1].text = "S" /\ R[2].text = "CR" /\ R[3].text = "LF"
      BY <2>8
    <3>3. \A i \in {1, 2, 3, 4, 5, 6, 7} : R[i].text = HeadText("chunked")[i]
      BY ONLY <2>9, <3>2, HeadTexts
    <3> QED BY ONLY <3>1, <3>3
  <2>11. R[Len(R)].text = "z" /\ Len(R) \in Nat /\ Len(R) > 7
    <3>1. PICK n, l : n = f.n /\ n \in Nat /\ l = Len(R) /\ l = 5 + 6 + (n + 1)
      <4>1. f.n \in Nat
        BY <1>1
      <4>2. Len(R) = 5 + 6 + (f.n + 1)
        BY <2>8
      <4> QED BY ONLY <4>1, <4>2
    <3>2. n + 1 \in 1..(n + 1) /\ l \in Nat /\ l > 7
      BY ONLY <3>1
    <3>3. R[l] = c[n + 1]
      <4>1. \A i \in 1..(n + 1) : R[5 + 6 + i] = c[i]
        BY <2>8, <3>1
      <4> QED BY ONLY <3>1, <3>2, <4>1
    <3>4. R[l].text = "z"
      BY <2>7, <3>1, <3>3
    <3> QED BY <3>1, <3>2, <3>4
  <2> QED BY <2>10, <2>11
<1>16. ASSUME f.by = "length", Simple(f)
       PROVE  /\ Len(R) = 11 + f.n
              /\ \A i \in 1..11 : R[i].text = HeadText("length")[i]
              /\ \A i \in 12..(11 + f.n) : R[i].text # "CR"
  <2>0. ~f.bare /\ f.ahead = ""
    BY <1>16 DEF Simple
  <2>1. h = x \o y
    BY <1>9, <1>11, <1>16, <2>0 DEF Headers, Framing
  <2>2. /\ h \in Seq(S) /\ Len(h) = 6 /\ h[1] = x[1] /\ h[2] = x[2]
        /\ h[3] = x[3] /\ h[4] = y[1] /\ h[5] = y[2] /\ h[6] = y[3]
    <3>1. IsJoin(h, x, y, S)
      BY <1>12, <2>1, Joined
    <3> QED BY <1>12, <3>1 DEF IsJoin
  <2>3. c \in Seq(S) /\ Len(c) = f.n /\ \A i \in 1..f.n : c[i].text = "b"
    <3>1. c = Body("b", f.n)
      BY <1>9, <1>16, <2>0 DEF Content
    <3>2. "b" \in Texts
      BY DEF Texts
    <3>3. /\ Body("b", f.n) \in Seq(S) /\ Len(Body("b", f.n)) = f.n
          /\ \A i \in 1..f.n : Body("b", f.n)[i].text = "b"
      BY <1>1, <1>4, <3>2
    <3> QED BY <3>1, <3>3
  <2>4. /\ Len(R) = 5 + 6 + f.n
        /\ R[1].text = "S" /\ R[2].text = "CR" /\ R[3].text = "LF"
        /\ \A i \in 1..6 : R[3 + i] = h[i]
        /\ R[4 + 6].text = "CR" /\ R[5 + 6].text = "LF"
        /\ \A i \in 1..f.n : R[5 + 6 + i] = c[i]
    BY <1>1, <1>13, <1>16, <2>0, <2>2, <2>3
  <2>5. /\ R[4].text = "H" /\ R[5].text = "CR" /\ R[6].text = "LF"
        /\ R[7].text = "L" /\ R[8].text = "CR" /\ R[9].text = "LF"
        /\ R[10].text = "CR" /\ R[11].text = "LF"
    <3>1. /\ R[3 + 1] = h[1] /\ R[3 + 2] = h[2] /\ R[3 + 3] = h[3]
          /\ R[3 + 4] = h[4] /\ R[3 + 5] = h[5] /\ R[3 + 6] = h[6]
      BY <2>4
    <3>2. /\ R[4] = h[1] /\ R[5] = h[2] /\ R[6] = h[3]
          /\ R[7] = h[4] /\ R[8] = h[5] /\ R[9] = h[6]
      BY ONLY <3>1
    <3>3. R[10].text = "CR" /\ R[11].text = "LF"
      BY <2>4
    <3>4. y[1].text = "L"
      BY <1>12, <1>16
    <3>5. R[4].text = "H" /\ R[5].text = "CR" /\ R[6].text = "LF"
      BY <1>12, <2>2, <3>2
    <3>6. R[7].text = "L" /\ R[8].text = "CR" /\ R[9].text = "LF"
      BY <1>12, <2>2, <3>2, <3>4
    <3> QED BY ONLY <3>3, <3>5, <3>6
  <2>6. \A i \in 1..11 : R[i].text = HeadText("length")[i]
    <3>1. \A i \in 1..11 : i \in {1, 2, 3, 4, 5, 6, 7, 8, 9, 10, 11}
      OBVIOUS
    <3>2. R[1].text = "S" /\ R[2].text = "CR" /\ R[3].text = "LF"
      BY <2>4
    <3>3. \A i \in {1, 2, 3, 4, 5, 6} : R[i].text = HeadText("length")[i]
      BY ONLY <2>5, <3>2, HeadTexts
    <3>4. \A i \in {7, 8, 9, 10, 11} : R[i].text = HeadText("length")[i]
      BY ONLY <2>5, HeadTexts
    <3> QED BY ONLY <3>1, <3>3, <3>4
  <2>7. ASSUME NEW i \in 12..(11 + f.n) PROVE R[i].text # "CR"
    <3>1. PICK n : n = f.n /\ n \in Nat
      BY <1>1
    <3>2. i - 11 \in 1..n /\ 5 + 6 + (i - 11) = i
      BY ONLY i \in 12..(11 + f.n), <3>1
    <3>3. R[i] = c[i - 11]
      <4>1. \A j \in 1..n : R[5 + 6 + j] = c[j]
        BY <2>4, <3>1
      <4> QED BY ONLY <3>2, <4>1
    <3>4. c[i - 11].text = "b"
      <4>1. \A j \in 1..n : c[j].text = "b"
        BY <2>3, <3>1
      <4> QED BY ONLY <3>2, <4>1
    <3> QED BY <3>3, <3>4
  <2>8. Len(R) = 11 + f.n
    <3>1. f.n \in Nat
      BY <1>1
    <3>2. Len(R) = 5 + 6 + f.n
      BY <2>4
    <3> QED BY ONLY <3>1, <3>2
  <2> QED BY <2>6, <2>7, <2>8
<1> QED BY <1>14, <1>15, <1>16

\* A relay that starts in step has the whole response ahead.
LEMMA RequestLeft ==
  ASSUME IInv, Request, ~late'
  PROVE  LeftOK'
<1> SUFFICES ASSUME ~fin', ~silent', pc' = "read"
             PROVE  /\ frame'.status = "304" /\ frame'.ahead # "interim"
                         => NoneLeft'
                    /\ frame'.by = "chunked" /\ Simple(frame')
                         => ChunksLeft'
                    /\ frame'.by = "length" /\ Simple(frame')
                         => BytesLeft'
  <2>1. pc' \in {"read", "curl"}
    BY DEF Request
  <2> QED BY <2>1 DEF LeftOK
<1>1. PICK f \in Frames :
        /\ frames' = Append(frames, f)
        /\ \/ /\ kept
              /\ wire' = IF fin \/ silent THEN wire ELSE wire \o Response(f)
              /\ UNCHANGED <<fin, silent, late>>
           \/ /\ ~kept \/ fin
              /\ wire' = Response(f)
              /\ fin' = FALSE /\ silent' = FALSE /\ late' = FALSE
  BY DEF Request
<1>2. /\ pc = "idle" /\ r < MaxResponses /\ r' = r + 1
      /\ buf' = <<>> /\ before_first_line' = TRUE /\ before_content' = TRUE
      /\ line' = NoLine
  BY DEF Request
<1>3. r' \in 1..MaxResponses /\ frame' = f /\ f.n \in Nat
  <2>1. /\ r \in 0..MaxResponses /\ MaxResponses \in Nat
        /\ frames \in Seq(Frames) /\ Len(frames) = r
    BY BoundsAssumption DEF IInv, TypeOK
  <2>2. r' \in 1..MaxResponses
    BY <1>2, <2>1
  <2>3. frame' = f
    BY <1>1, <1>2, <2>1 DEF frame
  <2>4. f.n \in Nat
    BY FrameFacts
  <2> QED BY <2>2, <2>3, <2>4
<1>4. Response(f) \in Seq(Own')
  BY <1>3, ResponseOwn
<1>5. PICK R : R = Response(f)
  OBVIOUS
<1>6. wire' = R
  <2>1. ~late => wire = <<>>
    BY <1>2 DEF IInv, PlaceOK
  <2>2. <<>> \o R = R
    BY <1>4, <1>5
  <2>3. CASE wire' = Response(f)
    BY <1>5, <2>3
  <2>4. CASE /\ wire' = IF fin \/ silent THEN wire ELSE wire \o Response(f)
             /\ UNCHANGED <<fin, silent, late>>
    <3>1. wire' = wire \o R /\ wire = <<>>
      BY <1>5, <2>1, <2>4
    <3> QED BY <2>2, <3>1
  <2> QED BY <1>1, <2>3, <2>4
<1>7. /\ f.status = "304" /\ f.ahead # "interim" =>
           Len(R) > 0 /\ R[1].text = "304"
      /\ f.by = "chunked" /\ Simple(f) =>
           /\ Len(R) \in Nat /\ Len(R) > 7 /\ R[Len(R)].text = "z"
           /\ \A i \in 1..7 : R[i].text = HeadText("chunked")[i]
      /\ f.by = "length" /\ Simple(f) =>
           /\ Len(R) = 11 + f.n
           /\ \A i \in 1..11 : R[i].text = HeadText("length")[i]
           /\ \A i \in 12..(11 + f.n) : R[i].text # "CR"
  BY <1>5, ResponseTexts
<1>8. Len(R) \in Nat /\ Ahead' = Len(R)
  <2>1. Len(R) \in Nat
    BY <1>4, <1>5
  <2>2. Ahead' = 0 + Len(R)
    BY <1>2, <1>6 DEF Ahead
  <2> QED BY <2>1, <2>2
<1>9. \A i \in 1..Len(R) : TextAt(buf', wire', i) = R[i].text
  <2> SUFFICES ASSUME NEW i \in 1..Len(R)
               PROVE  TextAt(buf', wire', i) = R[i].text
    OBVIOUS
  <2>1. Len(buf') = 0 /\ ~(i <= 0) /\ i - 0 = i
    BY <1>2, <1>8
  <2> QED BY <1>6, <2>1 DEF TextAt
<1>10. ASSUME NEW by \in {"length", "chunked"}, HeadLen(by) <= Len(R),
              \A i \in 1..HeadLen(by) : R[i].text = HeadText(by)[i]
       PROVE  Placed(by, 0)' /\ Parsing(by, 0)'
  <2>1. HeadLen(by) \in Nat /\ HeadLen(by) - 0 = HeadLen(by)
    BY HeadTexts
  <2>2. ASSUME NEW i \in (0 + 1)..HeadLen(by)
        PROVE  TextAt(buf', wire', i - 0) = HeadText(by)[i]
    <3>1. i \in 1..HeadLen(by) /\ i \in 1..Len(R) /\ i - 0 = i
      BY <1>8, <1>10, <2>1
    <3> QED BY <1>9, <1>10, <3>1
  <2>3. Placed(by, 0)'
    BY <1>8, <1>10, <2>1, <2>2 DEF Placed, At
  <2>4. Parsing(by, 0)'
    BY <1>2 DEF Parsing
  <2> QED BY <2>3, <2>4
<1>11. ASSUME f.status = "304", f.ahead # "interim" PROVE NoneLeft'
  <2>1. 1 \in 1..Len(R)
    BY <1>7, <1>8, <1>11
  <2>2. At(1)' = "304"
    BY <1>7, <1>9, <1>11, <2>1 DEF At
  <2> QED BY <1>2, <1>3, <1>7, <1>8, <1>11, <2>2 DEF NoneLeft
<1>12. ASSUME f.by = "chunked", Simple(f) PROVE ChunksLeft'
  <2>1. Placed("chunked", 0)' /\ Parsing("chunked", 0)'
    BY <1>7, <1>8, <1>10, <1>12, HeadTexts
  <2>2. Len(R) \in 1..Len(R) /\ Len(R) > 0
    BY <1>7, <1>8, <1>12
  <2>3. TextAt(buf', wire', Len(R)) = "z"
    BY <1>7, <1>9, <1>12, <2>2
  <2>4. At(Ahead)' = "z" /\ Ahead' > 0
    BY <1>8, <2>2, <2>3 DEF At
  <2> QED BY <1>2, <1>3, <1>12, <2>1, <2>4 DEF ChunksLeft
<1>13. ASSUME f.by = "length", Simple(f) PROVE BytesLeft'
  <2>1. Placed("length", 0)' /\ Parsing("length", 0)'
    <3>1. HeadLen("length") = 11 /\ 11 <= Len(R)
      BY <1>3, <1>7, <1>13, HeadTexts
    <3> QED BY <1>7, <1>10, <1>13, <3>1
  <2>2. Ahead' = 11 - 0 + frame'.n
    BY <1>3, <1>7, <1>8, <1>13
  <2>3. NoMoreLines(11 - 0)'
    <3> SUFFICES ASSUME NEW i \in (11 - 0 + 1)..Ahead'
                 PROVE  TextAt(buf', wire', i) # "CR"
      BY DEF NoMoreLines, At
    <3>1. i \in 12..(11 + f.n) /\ i \in 1..Len(R)
      BY <1>3, <1>7, <1>8, <1>13
    <3> QED BY <1>7, <1>9, <1>13, <3>1
  <2> QED BY <1>2, <1>3, <1>13, <2>1, <2>2, <2>3 DEF BytesLeft
<1> QED BY <1>3, <1>11, <1>12, <1>13

LEMMA StillMoved ==
  ASSUME IInv, UNCHANGED <<buf, wire>>
  PROVE  Moved(0)
<1>1. Ahead \in Nat /\ Ahead' = Ahead
  BY AheadType DEF Ahead
<1>2. \A i \in 1..(Ahead - 0) : i + 0 = i
  BY <1>1
<1> QED BY <1>1, <1>2 DEF Moved

\* The steps that leave the parser where it is.
LEMMA SameLeft ==
  ASSUME Moved(0), LeftOK,
         pc' \in {"read", "parse", "data"} => pc \in {"read", "parse", "data"},
         UNCHANGED <<r, frames, fin, silent, before_first_line, before_content,
                     line, chunked, not_modified, recv_content_size, out>>
  PROVE  LeftOK'
<1>1. frame' = frame
  BY SameFrame
<1>2. /\ NoneLeft => NoneLeft'
      /\ ChunksLeft => ChunksLeft'
      /\ BytesLeft => BytesLeft'
  BY LeftSame
<1> QED BY <1>1, <1>2 DEF LeftOK

LEMMA StepLeft ==
  ASSUME IInv, WaitOK, ~late => LeftOK, [Next]_vars
  PROVE  (~late => LeftOK)'
<1> SUFFICES ASSUME ~late' PROVE LeftOK'
  OBVIOUS
<1> USE DEF conn, parser
<1>1. CASE Request
  BY <1>1, RequestLeft
<1>2. CASE ~Request
  <2>1. ~late /\ LeftOK
    BY <1>2, LateStays
  <2>2. CASE DestStops
    BY <2>2 DEF DestStops, LeftOK
  <2>3. CASE UNCHANGED vars
    <3>1. Moved(0)
      BY <2>3, StillMoved DEF vars
    <3> QED BY <2>1, <2>3, <3>1, SameLeft DEF vars
  <2>4. CASE Read
    <3>1. Moved(0)
      BY <2>4, ReadMoves
    <3> QED BY <2>1, <2>4, <3>1, SameLeft DEF Read, Turn
  <2>5. CASE ReadNothing \/ ParseMore
    <3>1. UNCHANGED <<buf, wire>>
      BY <2>5 DEF ReadNothing, ParseMore
    <3>2. Moved(0)
      BY <3>1, StillMoved
    <3> QED BY <2>1, <2>5, <3>2, SameLeft DEF ReadNothing, ParseMore, Turn
  <2>6. CASE ParseStep /\ pc' # "idle"
    <3>1. /\ pc = "parse" /\ UNCHANGED <<r, frames, fin, silent>>
      BY <2>6, ParseWays
    <3>2. frame' = frame
      BY <3>1, SameFrame
    <3>3. /\ NoneLeft => NoneLeft'
          /\ ChunksLeft => ChunksLeft'
          /\ frame.by = "length" /\ frame.n > 0 /\ BytesLeft => BytesLeft'
      BY <2>1, <2>6, NoneParses, ChunksParse, BytesParse
    <3> QED BY <2>1, <3>1, <3>2, <3>3 DEF LeftOK
  <2>7. CASE Data /\ pc' # "idle"
    <3>1. /\ pc = "data" /\ UNCHANGED <<r, frames, fin, silent>>
      BY <2>7 DEF Data, Return
    <3>2. frame' = frame
      BY <3>1, SameFrame
    <3>3. /\ NoneLeft => NoneLeft'
          /\ frame.by = "chunked" /\ ChunksLeft => ChunksLeft'
          /\ frame.by = "length" /\ BytesLeft => BytesLeft'
      BY <2>1, <2>7, DataLeft
    <3> QED BY <2>1, <3>1, <3>2, <3>3 DEF LeftOK
  <2>8. CASE pc' \notin {"read", "parse", "data"}
    BY <2>8 DEF LeftOK
  <2>9. Curl => pc' \notin {"read", "parse", "data"}
    BY DEF Curl, CurlHeader, CurlHeadEnd, CurlData, CurlEnd, CurlFails,
           CurlReturn
  <2>10. NotModified \/ ReadEof \/ ReadError \/ TimedOut \/ WriteEnd
           => pc' \notin {"read", "parse", "data"}
    BY DEF NotModified, ReadEof, ReadError, TimedOut, WriteEnd, Return, Leave
  <2> QED BY <1>2, <2>2, <2>3, <2>4, <2>5, <2>6, <2>7, <2>8, <2>9, <2>10
          DEF Next, Loop, ParseStep
<1> QED BY <1>1, <1>2

-----------------------------------------------------------------------------
(* A client is not left waiting.                                           *)

\* The result of a timeout is given with the end of the relay, and nothing but
\* the destination changes until the next request.
EndedOK ==
  /\ pc = "idle" => LeftWaiting
  /\ pc # "idle" => result # "timeout"

LEMMA TimedOutEnds ==
  ASSUME IInv, WaitOK, ~late => LeftOK, EndedOK, TimedOut
  PROVE  LeftWaiting'
<1> SUFFICES ASSUME ~late', ~silent', ~fin', ~before_content'
             PROVE  "last" \in Kinds' \/ NoEndKnown(frame')
  BY DEF LeftWaiting
<1>1. /\ pc = "read" /\ wait_ticks >= req_timeout_ticks
      /\ UNCHANGED <<r, frames, out, before_content, fin, silent>>
      /\ ~late /\ wire = <<>>
  <2>1. late \in BOOLEAN
    BY DEF IInv, TypeOK
  <2> QED BY <2>1 DEF TimedOut, Leave, conn, parser
<1>2. frame' = frame /\ Kinds' = Kinds /\ ~before_content /\ LeftOK
  BY <1>1, SameFrame DEF Kinds
<1>3. wait_ticks # 0
  <2>1. req_timeout_ticks \in Nat \ {0} /\ wait_ticks \in 0..req_timeout_ticks
    BY BoundsAssumption DEF IInv, TypeOK
  <2> QED BY <1>1, <2>1
<1>4. recv_content_size # 0 /\ ~not_modified
  BY <1>1, <1>2, <1>3 DEF WaitOK
<1>5. Ahead = 0
  <2>1. buf = <<>>
    BY <1>1 DEF WaitOK
  <2>2. Ahead = 0 + 0
    BY <1>1, <2>1 DEF Ahead
  <2> QED BY <2>2
<1>6. /\ frame.status = "304" /\ frame.ahead # "interim" => NoneLeft
      /\ frame.by = "chunked" /\ Simple(frame) => ChunksLeft
      /\ frame.by = "length" /\ frame.n > 0 /\ Simple(frame) => BytesLeft
  BY <1>1, <1>2 DEF LeftOK
<1>7. frame.ahead = "interim" \/ frame.status # "304"
  BY <1>2, <1>4, <1>6 DEF NoneLeft
<1>8. frame.by = "chunked" /\ Simple(frame) => "last" \in Kinds
  BY <1>2, <1>5, <1>6 DEF ChunksLeft, HasLast, Kinds
<1>9. frame.by = "length" /\ Simple(frame) => ~(frame.n > 0)
  BY <1>2, <1>4, <1>5, <1>6 DEF BytesLeft
<1>10. frame \in Frames /\ frame.n \in Nat
  <2>1. r > 0
    BY <1>1 DEF IInv, PlaceOK
  <2> QED BY <2>1, FrameType
<1>11. /\ frame.by \in {"length", "chunked", "close"}
       /\ frame.ahead \in {"", "empty", "interim"} /\ frame.bare \in BOOLEAN
  BY <1>10, FrameFacts
<1>12. frame.by = "length" /\ Simple(frame) => frame.n = 0
  BY <1>9, <1>10
<1>13. "last" \in Kinds \/ NoEndKnown(frame)
  BY <1>7, <1>8, <1>11, <1>12 DEF NoEndKnown, Simple
<1> QED BY <1>2, <1>13

LEMMA StepEnds ==
  ASSUME IInv, WaitOK, ~late => LeftOK, EndedOK, [Next]_vars
  PROVE  EndedOK'
<1> USE DEF conn, parser
<1>1. CASE Request
  BY <1>1 DEF Request, EndedOK
<1>2. CASE DestStops
  <2>1. /\ fin' \/ silent'
        /\ UNCHANGED <<pc, result>>
    BY <1>2 DEF DestStops
  <2> QED BY <2>1 DEF EndedOK, LeftWaiting
<1>3. CASE UNCHANGED vars
  <2>1. LeftWaiting' <=> LeftWaiting
    BY <1>3 DEF vars, LeftWaiting, Kinds, frame
  <2> QED BY <1>3, <2>1 DEF vars, EndedOK
<1>4. CASE TimedOut
  <2>1. pc' = "idle"
    BY <1>4 DEF TimedOut, Leave
  <2> QED BY <1>4, <2>1, TimedOutEnds DEF EndedOK
<1>5. ASSUME pc # "idle", result' # "timeout" PROVE EndedOK'
  BY <1>5 DEF EndedOK, LeftWaiting
<1>6. ASSUME Curl PROVE pc # "idle" /\ result' # "timeout"
  BY <1>6 DEF Curl, CurlHeader, CurlHeadEnd, CurlData, CurlEnd, CurlFails,
              CurlReturn, EndedOK
<1>7. ASSUME NotModified \/ Read \/ ReadNothing \/ ReadEof \/ ReadError
             \/ WriteEnd
      PROVE  pc # "idle" /\ result' # "timeout"
  BY <1>7 DEF NotModified, Read, ReadNothing, ReadEof, ReadError, WriteEnd,
              Return, Turn, EndedOK
<1>8. ASSUME ParseStep \/ ParseMore \/ Data
      PROVE  pc # "idle" /\ result' # "timeout"
  BY <1>8 DEF ParseStep, ParseStatus, ParseText, ParseLineEnd, ParseHeadEnd,
              ParseMore, Data, Unparsed, Return, EndedOK
<1> QED BY <1>1, <1>2, <1>3, <1>4, <1>5, <1>6, <1>7, <1>8
        DEF Next, Loop, ParseStep

\* do_ipv4_socket_forwarding does not run into its time limit on a response
\* that it has read to the end, however read() cut it: its client gets the end
\* of the body, unless the empty line of the head came in a read of its own
\* (main.cc:1032) or the response is one of those whose end the loop cannot
\* tell: without a length or with length 0, with no body after a header that
\* announces one (204, a reply to HEAD), behind a header without a value or an
\* interim response.
THEOREM NobodyWaits == Spec => []LeftWaiting
<1>1. Init => WaitOK /\ (~late => LeftOK) /\ EndedOK
  BY DEF Init, WaitOK, LeftOK, EndedOK, LeftWaiting
<1>2. IInv /\ WaitOK /\ (~late => LeftOK) /\ EndedOK /\ [Next]_vars
        => (WaitOK /\ (~late => LeftOK) /\ EndedOK)'
  BY StepWaits, StepLeft, StepEnds
<1>3. EndedOK => LeftWaiting
  BY DEF EndedOK, LeftWaiting
<1> QED BY <1>1, <1>2, <1>3, InvariantHolds, PTL DEF Spec
=============================================================================
