-------------------------- MODULE MsqlClientProofs --------------------------
(***************************************************************************)
(* Proofs about MsqlClient for any number of calls, retries and            *)
(* connections, whether or not answers arrive in pieces.                   *)
(***************************************************************************)
EXTENDS MsqlClient, SequenceTheorems, TLAPS

Shake == {"greeting", "auth", "auth_result", "ping", "pong"}
Reading == {"execute_read", "execute_parse"}
InCall == {"prepare", "prepare_resp", "prepare_spin", "execute"} \cup Reading

Tries == CONNECTION_RETRY_COUNT_MAX + 1

\* What the program counter says about the connection and the locals.
PlaceOK ==
  /\ ~up => flight = <<>> /\ avail = <<>> /\ open = {}
  /\ pc = "none" => ~up
  /\ pc \in Shake \cup {"none"} => open = {}
  /\ pc \in Shake => ~torn
  /\ pc = "execute_parse" <=> recv_part # <<>>
  /\ pc \in InCall => call > 0
  /\ pc \notin InCall => execute_retry_count = 0
  /\ pc \notin Reading => ret_vecs = <<>> /\ next_pkt = "COLUMN_COUNT"

\* Every try of every call prepares at most one statement.
CountOK ==
  /\ \A i \in DOMAIN prep : prep[i] <= call
  /\ pc \notin InCall => Len(prep) <= call * Tries
  /\ pc \in InCall =>
       Len(prep) <= (call - 1) * Tries + execute_retry_count
                      + (IF pc = "prepare" THEN 0 ELSE 1)

\* Packets that may be on their way.  Statement ids that are not known yet
\* belong to calls after the last one that returned, if that one left the
\* connection in step.
Later(id) == id \in DOMAIN prep /\ (last.torn \/ prep[id] > last.call)

Coming == {p \in Packets : p.kind = "prep_ok" => Later(p.id)}

LastOK ==
  /\ last.call <= call
  /\ pc \in InCall => last.call < call
  /\ flight \in Seq(Coming) /\ avail \in Seq(Coming)
  /\ recv_part \in Seq(Coming)
  /\ pc = "execute" /\ stmt_id \in DOMAIN prep => Later(stmt_id)
  /\ \A c \in Calls : c > call => executed[c] = 0

\* All that was sent and is not dealt with yet.
Rest == recv_part \o (avail \o flight)

\* The packets s are the first ones (all, if the server is there) of an
\* answer to this call whose packets are of the kinds ks.
Matches(s, ks) ==
  /\ Len(s) <= Len(ks)
  /\ up => Len(s) = Len(ks)
  /\ \A i \in 1..Len(s) : s[i].kind = ks[i] /\ s[i].call = call

Answers == {<<"err">>, <<"lock_err">>, <<"ok">>,
            <<"count", "def", "eof">>, <<"count", "def", "row", "eof">>,
            <<"def", "eof">>, <<"def", "row", "eof">>, <<"row", "eof">>,
            <<"eof">>}

\* What is to come in the answer to COM_STMT_EXECUTE.
Due(ks) ==
  \/ /\ ks \in {<<"err">>, <<"lock_err">>}
     /\ next_pkt = "COLUMN_COUNT" /\ ret_vecs = <<>>
     /\ executed[call] = 0 /\ stmt_id \in errored
  \/ /\ executed[call] = 1
     /\ \A i \in DOMAIN ret_vecs : ret_vecs[i].call = call
     /\ \/ /\ ks = <<"ok">>
           /\ next_pkt = "COLUMN_COUNT" /\ ret_vecs = <<>> /\ rows[call] = 0
        \/ /\ ks = <<"count", "def", "eof">>
           /\ next_pkt = "COLUMN_COUNT" /\ ret_vecs = <<>> /\ rows[call] = 0
        \/ /\ ks = <<"count", "def", "row", "eof">>
           /\ next_pkt = "COLUMN_COUNT" /\ ret_vecs = <<>> /\ rows[call] = 1
        \/ /\ ks = <<"def", "eof">>
           /\ next_pkt = "COLUMN_DEF" /\ ret_vecs = <<>> /\ rows[call] = 0
        \/ /\ ks = <<"def", "row", "eof">>
           /\ next_pkt = "COLUMN_DEF" /\ ret_vecs = <<>> /\ rows[call] = 1
        \/ /\ ks = <<"row", "eof">>
           /\ next_pkt = "ROW" /\ ret_vecs = <<>> /\ rows[call] = 1
        \/ /\ ks = <<"eof">>
           /\ next_pkt = "ROW" /\ Len(ret_vecs) = rows[call]

\* What the packets s may be while the answer to COM_STMT_PREPARE is awaited.
PrepDue(s) ==
  \/ Matches(s, <<"err">>) /\ open \subseteq errored
  \/ /\ Matches(s, <<"prep_ok">>) \/ Matches(s, <<"prep_ok", "def">>)
     /\ s # <<>> => s[1].id = Len(prep)
     /\ Len(prep) > 0 /\ prep[Len(prep)] = call
     /\ up => Len(prep) \in open
     /\ open \ {Len(prep)} \subseteq errored

ReadDue(s) == \E ks \in Answers : Matches(s, ks) /\ Due(ks)

\* As long as no answer was torn, client and server are in step.
SyncOK ==
  ~torn =>
    /\ pc \in {"none", "auth", "ping", "idle", "prepare", "execute"} =>
         avail = <<>> /\ flight = <<>>
    /\ pc \in {"greeting", "auth_result", "pong"} =>
         Len(avail) + Len(flight) <= 1
    /\ pc \in Shake \cup {"idle", "prepare"} => open \subseteq errored
    /\ pc \in {"prepare", "prepare_resp", "execute"} => executed[call] = 0
    /\ pc = "prepare_resp" => PrepDue(avail \o flight)
    /\ pc \in Reading \cup {"execute"} =>
         /\ stmt_id \in DOMAIN prep /\ prep[stmt_id] = call
         /\ open \ {stmt_id} \subseteq errored
    /\ pc = "execute" /\ up => stmt_id \in open
    /\ pc \in Reading => ReadDue(Rest)

IInv == /\ TypeOK /\ SocketsOwned /\ PlaceOK /\ CountOK /\ LastOK /\ SyncOK
        /\ ValueTellsOutcome

-----------------------------------------------------------------------------
(* Sequences and products.                                                 *)

LEMMA SeqGrows ==
  ASSUME NEW S, NEW T, S \subseteq T, NEW s \in Seq(S)
  PROVE  s \in Seq(T)
OBVIOUS

\* f is cut after n packets and the first piece joins a.
Cut(a, f, n, S) ==
  /\ SubSeq(f, 1, n) \in Seq(S) /\ SubSeq(f, n + 1, Len(f)) \in Seq(S)
  /\ a \o SubSeq(f, 1, n) \in Seq(S)
  /\ Len(a \o SubSeq(f, 1, n)) = Len(a) + n
  /\ Len(SubSeq(f, n + 1, Len(f))) = Len(f) - n
  /\ (a \o SubSeq(f, 1, n)) \o SubSeq(f, n + 1, Len(f)) = a \o f

LEMMA Pieces ==
  ASSUME NEW S, NEW a \in Seq(S), NEW f \in Seq(S), NEW n \in 1..Len(f)
  PROVE  Cut(a, f, n, S)
<1> DEFINE x == SubSeq(f, 1, n)
           y == SubSeq(f, n + 1, Len(f))
<1>1. /\ x \in Seq(S) /\ Len(x) = n /\ \A i \in 1..n : x[i] = f[i]
  OBVIOUS
<1>2. /\ y \in Seq(S) /\ Len(y) = Len(f) - n
      /\ \A i \in 1..(Len(f) - n) : y[i] = f[n + i]
  OBVIOUS
<1> HIDE DEF x, y
<1>3. /\ a \o x \in Seq(S) /\ Len(a \o x) = Len(a) + n
      /\ \A i \in 1..(Len(a) + n) :
           (a \o x)[i] = IF i <= Len(a) THEN a[i] ELSE x[i - Len(a)]
  BY <1>1
<1>4. (a \o x) \o y = a \o f
  <2> DEFINE ax == a \o x
  <2> HIDE DEF ax
  <2>1. /\ ax \in Seq(S) /\ Len(ax) = Len(a) + n
        /\ \A i \in 1..(Len(a) + n) :
             ax[i] = IF i <= Len(a) THEN a[i] ELSE x[i - Len(a)]
    BY <1>3 DEF ax
  <2>2. /\ ax \o y \in Seq(S) /\ Len(ax \o y) = Len(a) + Len(f)
        /\ \A i \in 1..(Len(a) + Len(f)) :
             (ax \o y)[i] = IF i <= Len(ax) THEN ax[i] ELSE y[i - Len(ax)]
    <3>1. Len(ax) + Len(y) = Len(a) + Len(f)
      BY <1>2, <2>1
    <3>2. /\ ax \o y \in Seq(S) /\ Len(ax \o y) = Len(ax) + Len(y)
          /\ \A i \in 1..(Len(ax) + Len(y)) :
               (ax \o y)[i] = IF i <= Len(ax) THEN ax[i] ELSE y[i - Len(ax)]
      BY <1>2, <2>1, ConcatProperties
    <3> QED BY <3>1, <3>2
  <2>3. /\ a \o f \in Seq(S) /\ Len(a \o f) = Len(a) + Len(f)
        /\ \A i \in 1..(Len(a) + Len(f)) :
             (a \o f)[i] = IF i <= Len(a) THEN a[i] ELSE f[i - Len(a)]
    OBVIOUS
  <2>4. ASSUME NEW i \in 1..(Len(a) + Len(f))
        PROVE  (ax \o y)[i] = (a \o f)[i]
    <3>1. CASE i <= Len(a)
      BY <2>1, <2>2, <2>3, <3>1
    <3>2. CASE i > Len(a) /\ i <= Len(a) + n
      BY <1>1, <2>1, <2>2, <2>3, <3>2
    <3>3. CASE i > Len(a) + n
      <4> DEFINE j == i - Len(ax)
      <4>1. j \in 1..(Len(f) - n) /\ n + j = i - Len(a)
        BY <2>1, <3>3
      <4>2. (ax \o y)[i] = y[j] /\ (a \o f)[i] = f[i - Len(a)]
        BY <2>1, <2>2, <2>3, <3>3
      <4> HIDE DEF j
      <4>3. y[j] = f[n + j]
        BY <1>2, <4>1
      <4> QED BY <4>1, <4>2, <4>3
    <3>4. i <= Len(a) \/ (i > Len(a) /\ i <= Len(a) + n) \/ i > Len(a) + n
      OBVIOUS
    <3> QED BY <3>1, <3>2, <3>3, <3>4
  <2>5. ax \o y = a \o f
    BY <2>2, <2>3, <2>4, SeqEqual
  <2> QED BY <2>5 DEF ax
<1> QED BY <1>1, <1>2, <1>3, <1>4 DEF x, y, Cut

\* What the provers need to know of a \o b.
Joins(a, b, S) ==
  /\ a \o b \in Seq(S) /\ Len(a \o b) = Len(a) + Len(b)
  /\ \A i \in 1..Len(a) : (a \o b)[i] = a[i]
  /\ \A i \in 1..Len(b) : (a \o b)[Len(a) + i] = b[i]

LEMMA ConcatFacts ==
  ASSUME NEW S, NEW a \in Seq(S), NEW b \in Seq(S)
  PROVE  Joins(a, b, S)
BY DEF Joins

LEMMA PairConcat ==
  ASSUME NEW p, NEW q
  PROVE  <<p>> \o <<q>> = <<p, q>>
<1> DEFINE a == <<p>>
           b == <<q>>
           c == <<p, q>>
<1>1. a \in Seq({p, q}) /\ Len(a) = 1 /\ a[1] = p
  OBVIOUS
<1>2. b \in Seq({p, q}) /\ Len(b) = 1 /\ b[1] = q
  OBVIOUS
<1>3. c \in Seq({p, q}) /\ Len(c) = 2 /\ c[1] = p /\ c[2] = q
  OBVIOUS
<1> HIDE DEF a, b, c
<1>4. /\ a \o b \in Seq({p, q}) /\ Len(a \o b) = 2
      /\ (a \o b)[1] = p /\ (a \o b)[2] = q
  <2>1. a \o b \in Seq({p, q}) /\ Len(a \o b) = Len(a) + Len(b)
    BY <1>1, <1>2, ConcatFacts DEF Joins
  <2>2. 1 \in 1..Len(a) /\ 1 \in 1..Len(b)
    BY <1>1, <1>2
  <2>3. (a \o b)[1] = a[1] /\ (a \o b)[Len(a) + 1] = b[1]
    BY <1>1, <1>2, <2>2, ConcatFacts DEF Joins
  <2> QED BY <1>1, <1>2, <2>1, <2>3
<1>5. \A i \in 1..2 : i = 1 \/ i = 2
  OBVIOUS
<1>6. a \o b = c
  BY <1>3, <1>4, <1>5, SeqEqual
<1> QED BY <1>6 DEF a, b, c

\* A packet is taken off the front.
LEMMA TakeFirst ==
  ASSUME NEW S, NEW a \in Seq(S), NEW b \in Seq(S), a # <<>>
  PROVE  /\ Head(a) \in S /\ Head(a) = (a \o b)[1]
         /\ Tail(a) \in Seq(S) /\ Len(Tail(a)) = Len(a) - 1
         /\ Len(Tail(a) \o b) = Len(a \o b) - 1
         /\ \A i \in 1..(Len(a \o b) - 1) :
              (Tail(a) \o b)[i] = (a \o b)[i + 1]
<1>1. /\ Tail(a) \in Seq(S) /\ Len(Tail(a)) = Len(a) - 1
      /\ \A i \in 1..(Len(a) - 1) : Tail(a)[i] = a[i + 1]
  BY HeadTailProperties
<1> DEFINE t == Tail(a)
<1> HIDE DEF t
<1>2. Len(t \o b) = Len(a \o b) - 1 /\ Len(a \o b) = Len(a) + Len(b)
  BY <1>1 DEF t
<1>3. ASSUME NEW i \in 1..(Len(a \o b) - 1)
      PROVE  (t \o b)[i] = (a \o b)[i + 1]
  <2>1. t \in Seq(S) /\ Len(t) = Len(a) - 1
    BY <1>1 DEF t
  <2>2. CASE i <= Len(t)
    <3>1. t[i] = a[i + 1] /\ (t \o b)[i] = t[i]
      BY <1>1, <1>2, <2>1, <2>2 DEF t
    <3>2. (a \o b)[i + 1] = a[i + 1]
      BY <1>2, <2>1, <2>2
    <3> QED BY <3>1, <3>2
  <2>3. CASE i > Len(t)
    <3>1. (t \o b)[i] = b[i - Len(t)]
      BY <1>2, <2>1, <2>3
    <3>2. (a \o b)[i + 1] = b[(i + 1) - Len(a)]
      BY <1>2, <2>1, <2>3
    <3> QED BY <2>1, <3>1, <3>2
  <2> QED BY <2>1, <2>2, <2>3
<1> QED BY <1>1, <1>2, <1>3 DEF t

LEMMA TriesType == Tries \in Nat /\ Tries > 0
BY ClientAssumption DEF Tries

LEMMA Products ==
  ASSUME NEW c \in Nat, NEW d \in Nat, c < d
  PROVE  /\ c * Tries \in Nat /\ (c + 1) * Tries = c * Tries + Tries
         /\ (c + 1) * Tries <= d * Tries
<1>1. Tries \in Nat /\ Tries > 0
  BY TriesType
<1> DEFINE k == Tries
<1> HIDE DEF k
<1>2. k \in Nat
  BY <1>1 DEF k
<1>3. c * k \in Nat /\ (c + 1) * k = c * k + k
  BY <1>2
<1>4. d - (c + 1) \in Nat
  OBVIOUS
<1>5. (d - (c + 1)) * k \in Nat
  BY <1>2, <1>4
<1>6. d * k = (c + 1) * k + (d - (c + 1)) * k
  BY <1>2
<1> QED BY <1>2, <1>3, <1>5, <1>6 DEF k

-----------------------------------------------------------------------------
(* Packets and the frame of a step.                                        *)

LEMMA IdsType == MaxIds \in Nat /\ MaxIds = MaxCalls * Tries
<1>1. MaxIds = MaxCalls * Tries
  BY DEF MaxIds, Tries
<1>2. MaxCalls \in Nat /\ Tries \in Nat
  BY ClientAssumption, TriesType
<1>3. \A a, b \in Nat : a * b \in Nat
  OBVIOUS
<1> QED BY <1>1, <1>2, <1>3

LEMMA PacketType ==
  ASSUME NEW k \in {"greeting", "ok", "prep_ok", "err", "lock_err", "def",
                    "count", "row", "eof"},
         NEW c \in 0..MaxCalls, NEW id \in 0..MaxIds
  PROVE  /\ Packet(k, c, id) \in Packets
         /\ Packet(k, c, id).kind = k /\ Packet(k, c, id).call = c
         /\ Packet(k, c, id).id = id
         /\ k # "prep_ok" => Packet(k, c, id) \in Coming
BY DEF Packet, Packets, Coming

LEMMA ComingIn == Coming \subseteq Packets
BY DEF Coming

LEMMA PrepType ==
  ASSUME TypeOK
  PROVE  /\ DOMAIN prep = 1..Len(prep) /\ Len(prep) \in Nat
         /\ \A i \in DOMAIN prep : prep[i] \in Calls /\ prep[i] \in Nat
<1>1. prep \in Seq(Calls)
  BY DEF TypeOK
<1>2. \A c \in Calls : c \in Nat
  BY DEF Calls
<1> QED BY <1>1, <1>2

LEMMA SameComing ==
  ASSUME UNCHANGED <<prep, last>>
  PROVE  Coming' = Coming /\ \A id : Later(id)' <=> Later(id)
BY DEF Coming, Later

LEMMA InitInv == Init => IInv
<1> SUFFICES ASSUME Init PROVE IInv
  OBVIOUS
<1> USE ClientAssumption DEF Init
<1>1. MaxIds \in Nat
  BY IdsType
<1>2. TypeOK
  <2>1. <<>> \in Seq(Packets) /\ <<>> \in Seq(Calls)
    OBVIOUS
  <2>2. last \in [ok : BOOLEAN, call : 0..MaxCalls, up : BOOLEAN,
                  torn : BOOLEAN, rows : Seq(Packets)]
    BY <2>1
  <2>3. open \subseteq DOMAIN prep /\ errored \subseteq DOMAIN prep
    OBVIOUS
  <2>4. stmt_id \in 0..UnknownStmt /\ call \in 0..MaxCalls
    BY <1>1 DEF UnknownStmt, NoStmt
  <2>5. executed \in [Calls -> Nat] /\ rows \in [Calls -> Nat]
    OBVIOUS
  <2>6. /\ execute_retry_count \in 0..CONNECTION_RETRY_COUNT_MAX
        /\ connects \in 0..MaxConnects /\ sockets \in Nat /\ lost \in Nat
    OBVIOUS
  <2>7. /\ up \in BOOLEAN /\ torn \in BOOLEAN /\ attempt_fetch_more \in BOOLEAN
    OBVIOUS
  <2>8. prep \in Seq(Calls) /\ flight \in Seq(Packets) /\ avail \in Seq(Packets)
        /\ recv_part \in Seq(Packets) /\ ret_vecs \in Seq(Packets)
    BY <2>1
  <2> QED BY <2>2, <2>3, <2>4, <2>5, <2>6, <2>7, <2>8 DEF TypeOK
<1>3. SocketsOwned /\ ValueTellsOutcome
  BY DEF SocketsOwned, ValueTellsOutcome
<1>4. PlaceOK
  BY DEF PlaceOK, InCall, Reading, Shake
<1>5. CountOK
  <2>1. 0 * Tries = 0
    BY TriesType
  <2> QED BY <2>1 DEF CountOK, InCall, Reading
<1>6. LastOK
  BY DEF LastOK, InCall, Reading, Calls
<1>7. SyncOK
  BY DEF SyncOK, Shake, Reading
<1> QED BY <1>2, <1>3, <1>4, <1>5, <1>6, <1>7 DEF IInv

\* SocketsOwned with the state as parameters.
Owns(s, l, p) == IF p = "none" THEN s = l ELSE s = l + 1

LEMMA OwnsUnfolds ==
  /\ lost \in Nat => (SocketsOwned <=> Owns(sockets, lost, pc))
  /\ lost' \in Nat => (SocketsOwned' <=> Owns(sockets', lost', pc'))
  /\ lost' \in Nat /\ Owns(sockets', lost', pc') => sockets' \in Nat
BY DEF SocketsOwned, Owns

LEMMA OwnsNow == IInv => lost \in Nat /\ Owns(sockets, lost, pc)
BY OwnsUnfolds DEF IInv, TypeOK

\* A step outside execute_stmt after which no statement is open.
OutsideStep ==
  /\ pc \notin InCall /\ pc' \in Shake \cup {"none", "idle"}
  /\ open' = {} /\ UNCHANGED <<stmt, prep, executed, rows, last, errored>>
  /\ up' \in BOOLEAN /\ torn' \in BOOLEAN
  /\ flight' \in Seq(Coming) /\ avail' \in Seq(Coming)
  /\ ~up' => flight' = <<>> /\ avail' = <<>>
  /\ pc' = "none" => ~up'
  /\ pc' \in Shake => ~torn'
  /\ pc' \in {"auth", "ping", "idle"} /\ ~torn' =>
       flight' = <<>> /\ avail' = <<>>
  /\ pc' \in {"greeting", "auth_result", "pong"} =>
       Len(avail') + Len(flight') <= 1
  /\ connects' \in 0..MaxConnects /\ lost' \in Nat
  /\ Owns(sockets', lost', pc')

LEMMA OutsideInv ==
  ASSUME IInv, OutsideStep
  PROVE  IInv'
<1> USE DEF IInv, OutsideStep, stmt
<1>1. Coming' = Coming /\ \A id : Later(id)' <=> Later(id)
  BY SameComing
<1>2. flight' \in Seq(Packets) /\ avail' \in Seq(Packets)
  BY ComingIn, SeqGrows
<1>3. sockets' \in Nat
  BY OwnsUnfolds
<1>4. pc' \notin InCall /\ pc' \notin Reading /\ pc' # "execute"
  BY DEF Shake, InCall, Reading
<1>5. TypeOK'
  BY <1>2, <1>3 DEF TypeOK, Shake
<1>6. SocketsOwned'
  BY OwnsUnfolds
<1>7. pc # "execute_parse" /\ recv_part = <<>> /\ pc \notin Reading
  BY DEF PlaceOK, InCall, Reading
<1>8. PlaceOK'
  BY <1>4, <1>7 DEF PlaceOK, Reading, InCall
<1>9. CountOK'
  BY <1>4 DEF CountOK
<1>10. LastOK'
  BY <1>1, <1>4 DEF LastOK
<1>11. SyncOK'
  BY <1>4 DEF SyncOK, InCall
<1>12. ValueTellsOutcome'
  BY DEF ValueTellsOutcome, ValueIsOwn
<1> QED BY <1>5, <1>6, <1>8, <1>9, <1>10, <1>11, <1>12

\* The handshake, the ping and the end of the connection.
LEMMA FailsOutside ==
  ASSUME IInv, pc \in Shake, NEW ioerror \in BOOLEAN, ConnectFails(ioerror),
         UNCHANGED <<stmt, server, last, errored, torn, connects>>
  PROVE  OutsideStep
<1> USE DEF IInv, ConnectFails, server, stmt
<1>1. pc \notin InCall /\ pc # "none"
  BY DEF Shake, InCall, Reading
<1>2. open' = {} /\ torn' \in BOOLEAN /\ connects' \in 0..MaxConnects
  BY DEF PlaceOK, TypeOK
<1>3. sockets = lost + 1 /\ lost \in Nat
  BY <1>1, OwnsNow DEF Owns
<1>4. lost' \in Nat /\ sockets' = lost'
  BY <1>3
<1>5. pc' = "none" /\ "none" \notin Shake
  BY DEF Shake
<1>6. <<>> \in Seq(Coming)
  OBVIOUS
<1> QED BY <1>1, <1>2, <1>4, <1>5, <1>6 DEF OutsideStep, Owns

\* A packet is read, or a packet is sent and answered by one packet.
LEMMA GoesOutside ==
  ASSUME IInv, pc \in Shake, pc' \in Shake \cup {"idle"},
         UNCHANGED <<stmt, server, last, errored, torn, conn>>,
         \/ /\ pc \in {"greeting", "auth_result", "pong"}
            /\ pc' \in {"auth", "ping", "idle"}
            /\ avail # <<>> /\ avail' = <<>> /\ UNCHANGED <<up, flight>>
         \/ /\ pc \in {"auth", "ping"}
            /\ pc' \in {"auth_result", "pong"} /\ up
            /\ \E k \in {"ok", "err"} : Send(<<Packet(k, 0, 0)>>)
  PROVE  OutsideStep
<1> USE DEF IInv, server, stmt, conn
<1>1. pc \notin InCall /\ pc # "none" /\ pc' # "none"
  BY DEF Shake, InCall, Reading
<1>2. /\ open' = {} /\ torn' \in BOOLEAN /\ connects' \in 0..MaxConnects
      /\ ~torn /\ up \in BOOLEAN
  BY DEF PlaceOK, TypeOK
<1>3. lost' \in Nat /\ Owns(sockets', lost', pc')
  BY <1>1, OwnsNow DEF Owns
<1>4. flight \in Seq(Coming) /\ avail \in Seq(Coming)
  BY DEF LastOK
<1>5. CASE /\ pc \in {"greeting", "auth_result", "pong"}
           /\ pc' \in {"auth", "ping", "idle"}
           /\ avail # <<>> /\ avail' = <<>> /\ UNCHANGED <<up, flight>>
  <2>1. Len(avail) + Len(flight) <= 1
    BY <1>2, <1>5 DEF SyncOK
  <2>2. Len(avail) > 0 /\ Len(avail) \in Nat /\ Len(flight) \in Nat
    BY <1>4, <1>5
  <2>3. flight = <<>>
    BY <1>4, <2>1, <2>2
  <2>4. avail' \in Seq(Coming)
    BY <1>5
  <2> QED BY <1>1, <1>2, <1>3, <1>4, <1>5, <2>3, <2>4 DEF OutsideStep
<1>6. CASE /\ pc \in {"auth", "ping"}
           /\ pc' \in {"auth_result", "pong"} /\ up
           /\ \E k \in {"ok", "err"} : Send(<<Packet(k, 0, 0)>>)
  <2>1. PICK k \in {"ok", "err"} : Send(<<Packet(k, 0, 0)>>)
    BY <1>6
  <2> DEFINE p == Packet(k, 0, 0)
  <2>2. p \in Coming
    <3>1. 0 \in 0..MaxCalls /\ 0 \in 0..MaxIds
      BY ClientAssumption, IdsType
    <3> QED BY <3>1, PacketType
  <2>3. avail = <<>> /\ flight = <<>>
    BY <1>2, <1>6 DEF SyncOK
  <2>4. flight' = <<>> \o <<p>> /\ up' = up /\ avail' = avail
    BY <2>1, <2>3 DEF Send
  <2> HIDE DEF p
  <2>5. flight' \in Seq(Coming) /\ Len(flight') = 1
    BY <2>2, <2>4
  <2>6. Len(avail') + Len(flight') <= 1
    BY <2>3, <2>4, <2>5
  <2> QED BY <1>1, <1>2, <1>3, <1>4, <1>6, <2>4, <2>5, <2>6 DEF OutsideStep
<1> QED BY <1>5, <1>6

LEMMA ConnectInv ==
  ASSUME IInv, Connect
  PROVE  IInv'
<1> USE DEF IInv, Connect, server, stmt
<1>1. pc \notin InCall /\ open' = {}
  BY DEF InCall, Reading, PlaceOK
<1>2. connects' \in 0..MaxConnects /\ lost' \in Nat
  BY ClientAssumption DEF TypeOK
<1>3. Owns(sockets', lost', pc')
  BY OwnsNow DEF Owns
<1> DEFINE p == Packet("greeting", 0, 0)
<1>4. p \in Coming
  <2>1. 0 \in 0..MaxCalls /\ 0 \in 0..MaxIds
    BY ClientAssumption, IdsType
  <2> QED BY <2>1, PacketType
<1>5. flight' = <<p>> /\ avail' = <<>>
  OBVIOUS
<1> HIDE DEF p
<1>6. /\ flight' \in Seq(Coming) /\ avail' \in Seq(Coming)
      /\ Len(avail') + Len(flight') <= 1
  BY <1>4, <1>5
<1>7. OutsideStep
  BY <1>1, <1>2, <1>3, <1>6 DEF OutsideStep, Shake
<1> QED BY <1>7, OutsideInv

LEMMA DisconnectInv ==
  ASSUME IInv, Disconnect
  PROVE  IInv'
<1> USE DEF IInv, Disconnect, stmt
<1>1. pc \notin InCall /\ pc' \notin Shake
  BY DEF InCall, Reading, Shake
<1>2. connects' \in 0..MaxConnects /\ lost' \in Nat /\ torn' \in BOOLEAN
  BY DEF TypeOK
<1>3. Owns(sockets', lost', pc')
  BY OwnsNow DEF Owns
<1>4. <<>> \in Seq(Coming)
  OBVIOUS
<1>5. OutsideStep
  BY <1>1, <1>2, <1>3, <1>4 DEF OutsideStep
<1> QED BY <1>5, OutsideInv

LEMMA ShakeInv ==
  ASSUME IInv,
         ReadGreeting \/ SendAuth \/ ReadAuthResult \/ SendPing \/ ReadPong
  PROVE  IInv'
<1>1. pc \in Shake
  BY DEF ReadGreeting, SendAuth, ReadAuthResult, SendPing, ReadPong, Shake
<1>2. CASE \E ioerror \in BOOLEAN : ConnectFails(ioerror)
  <2>1. UNCHANGED <<stmt, server, last, errored, torn, connects>>
    BY DEF ReadGreeting, SendAuth, ReadAuthResult, SendPing, ReadPong
  <2> QED BY <1>1, <1>2, <2>1, FailsOutside, OutsideInv
<1>3. CASE ~\E ioerror \in BOOLEAN : ConnectFails(ioerror)
  <2>1. /\ UNCHANGED <<stmt, server, last, errored, torn, conn>>
        /\ pc' \in Shake \cup {"idle"}
    BY <1>3 DEF ReadGreeting, SendAuth, ReadAuthResult, SendPing, ReadPong,
                Shake, conn
  <2>2. \/ /\ pc \in {"greeting", "auth_result", "pong"}
           /\ pc' \in {"auth", "ping", "idle"}
           /\ avail # <<>> /\ avail' = <<>> /\ UNCHANGED <<up, flight>>
        \/ /\ pc \in {"auth", "ping"}
           /\ pc' \in {"auth_result", "pong"} /\ up
           /\ \E k \in {"ok", "err"} : Send(<<Packet(k, 0, 0)>>)
    BY <1>3 DEF ReadGreeting, SendAuth, ReadAuthResult, SendPing, ReadPong
  <2> QED BY <1>1, <2>1, <2>2, GoesOutside, OutsideInv
<1> QED BY <1>2, <1>3

-----------------------------------------------------------------------------
(* The network.                                                            *)

LEMMA ArriveInv ==
  ASSUME IInv, Arrive
  PROVE  IInv'
<1> USE DEF IInv
<1>1. UNCHANGED <<pc, up, stmt, server, last, errored, torn, conn>>
  BY DEF Arrive
<1>2. PICK n \in 1..Len(flight) :
        /\ avail' = avail \o SubSeq(flight, 1, n)
        /\ flight' = SubSeq(flight, n + 1, Len(flight))
  <2>1. flight \in Seq(Packets) /\ flight # <<>>
    BY DEF Arrive, TypeOK
  <2>2. Len(flight) \in 1..Len(flight)
    BY <2>1
  <2> QED BY <2>2 DEF Arrive
<1>3. flight \in Seq(Coming) /\ avail \in Seq(Coming) /\ flight # <<>>
  BY DEF LastOK, Arrive
<1>4. /\ avail' \in Seq(Coming) /\ flight' \in Seq(Coming)
      /\ avail' \o flight' = avail \o flight
      /\ Len(avail') + Len(flight') = Len(avail) + Len(flight)
  <2>1. Len(avail) \in Nat /\ Len(flight) \in Nat
    BY <1>3
  <2>2. /\ avail \o SubSeq(flight, 1, n) \in Seq(Coming)
        /\ SubSeq(flight, n + 1, Len(flight)) \in Seq(Coming)
        /\ Len(avail \o SubSeq(flight, 1, n)) = Len(avail) + n
        /\ Len(SubSeq(flight, n + 1, Len(flight))) = Len(flight) - n
        /\ (avail \o SubSeq(flight, 1, n))
             \o SubSeq(flight, n + 1, Len(flight)) = avail \o flight
    <3>1. Cut(avail, flight, n, Coming)
      BY ONLY <1>3, n \in 1..Len(flight), Pieces
    <3> QED BY ONLY <3>1 DEF Cut
  <2>3. /\ avail' \in Seq(Coming) /\ flight' \in Seq(Coming)
        /\ Len(avail') = Len(avail) + n /\ Len(flight') = Len(flight) - n
        /\ avail' \o flight' = avail \o flight
    BY <1>2, <2>2, Zenon
  <2> QED BY <2>1, <2>3
<1>5. Coming' = Coming /\ \A id : Later(id)' <=> Later(id)
  BY <1>1, SameComing DEF server
<1>6. TypeOK'
  <2>1. flight' \in Seq(Packets) /\ avail' \in Seq(Packets)
    BY <1>4, ComingIn, SeqGrows
  <2> QED BY <1>1, <2>1 DEF TypeOK, stmt, server, conn
<1>7. SocketsOwned' /\ ValueTellsOutcome'
  BY <1>1 DEF SocketsOwned, ValueTellsOutcome, ValueIsOwn, conn, server
<1>8. up
  BY <1>3 DEF PlaceOK
<1>9. PlaceOK'
  BY <1>1, <1>8 DEF PlaceOK, stmt, server
<1>10. CountOK'
  BY <1>1 DEF CountOK, stmt, server
<1>11. LastOK'
  BY <1>1, <1>4, <1>5 DEF LastOK, stmt, server
<1>12. SyncOK'
  <2>1. PrepDue(avail \o flight) => PrepDue(avail \o flight)'
    BY <1>1, <1>4 DEF PrepDue, Matches, stmt, server
  <2>2. ReadDue(Rest) => ReadDue(Rest)'
    BY <1>1, <1>4 DEF ReadDue, Matches, Due, Rest, stmt, server
  <2> QED BY <1>1, <1>3, <1>4, <2>1, <2>2 DEF SyncOK, stmt, server
<1> QED BY <1>6, <1>7, <1>9, <1>10, <1>11, <1>12

LEMMA BreakInv ==
  ASSUME IInv, Break
  PROVE  IInv'
<1> USE DEF IInv
<1>1. /\ UNCHANGED <<pc, stmt, prep, executed, rows, last, errored, torn, conn>>
      /\ up' = FALSE /\ flight' = <<>> /\ avail' = <<>> /\ open' = {}
  BY DEF Break
<1>2. Coming' = Coming /\ \A id : Later(id)' <=> Later(id)
  BY <1>1, SameComing
<1>3. TypeOK'
  <2>1. <<>> \in Seq(Packets) /\ {} \subseteq DOMAIN prep
    OBVIOUS
  <2> QED BY <1>1, <2>1 DEF TypeOK, stmt, conn
<1>4. SocketsOwned' /\ ValueTellsOutcome'
  BY <1>1 DEF SocketsOwned, ValueTellsOutcome, ValueIsOwn, conn
<1>5. PlaceOK'
  BY <1>1 DEF PlaceOK, stmt
<1>6. CountOK'
  BY <1>1 DEF CountOK, stmt
<1>7. LastOK'
  BY <1>1, <1>2 DEF LastOK, stmt
<1>8. SyncOK'
  <2>1. avail' \o flight' = <<>> /\ Len(<<>>) = 0
    BY <1>1
  <2>2. PrepDue(avail \o flight)'
    BY <1>1, <2>1 DEF PrepDue, Matches
  <2>3. ReadDue(Rest) => ReadDue(Rest)'
    <3> SUFFICES ASSUME NEW ks \in Answers, Matches(Rest, ks), Due(ks)
                 PROVE  Matches(Rest, ks)' /\ Due(ks)'
      BY DEF ReadDue
    <3>1. /\ recv_part \in Seq(Coming) /\ avail \in Seq(Coming)
          /\ flight \in Seq(Coming)
      BY DEF LastOK
    <3>2. avail \o flight \in Seq(Coming)
      BY <3>1
    <3> DEFINE s == avail \o flight
    <3> HIDE DEF s
    <3>3. /\ Len(recv_part) <= Len(recv_part \o s)
          /\ \A i \in 1..Len(recv_part) : recv_part[i] = (recv_part \o s)[i]
      BY <3>1, <3>2 DEF s
    <3>4. Rest' = recv_part
      <4>1. Rest' = recv_part \o <<>>
        BY <1>1, <2>1 DEF Rest, stmt
      <4> QED BY <3>1, <4>1
    <3>5. Rest = recv_part \o s
      BY DEF Rest, s
    <3>6. Len(recv_part) \in Nat /\ Len(recv_part \o s) \in Nat
      BY <3>1, <3>2 DEF s
    <3>7. Len(ks) \in Nat
      BY DEF Answers
    <3>8. Len(recv_part) <= Len(ks)
      BY <3>3, <3>5, <3>6, <3>7 DEF Matches
    <3>9. \A i \in 1..Len(recv_part) :
            recv_part[i].kind = ks[i] /\ recv_part[i].call = call
      BY <3>3, <3>5, <3>6 DEF Matches
    <3>10. Matches(Rest, ks)'
      BY <1>1, <3>4, <3>8, <3>9 DEF Matches, stmt
    <3> QED BY <1>1, <3>10 DEF Due, stmt
  <2> QED BY <1>1, <2>2, <2>3 DEF SyncOK, stmt
<1> QED BY <1>3, <1>4, <1>5, <1>6, <1>7, <1>8

-----------------------------------------------------------------------------
(* A call begins and ends.                                                 *)

LEMMA CallInv ==
  ASSUME IInv, NEW k \in {"select", "write"}, Call(k)
  PROVE  IInv'
<1> USE DEF IInv
<1>1. /\ pc = "idle" /\ pc' = "prepare" /\ call' = call + 1 /\ kind' = k
      /\ call < MaxCalls
      /\ UNCHANGED <<net, stmt_id, next_pkt, attempt_fetch_more, recv_part,
                     ret_vecs, execute_retry_count, server, last, errored,
                     torn, conn>>
  BY DEF Call
<1>2. Coming' = Coming /\ \A id : Later(id)' <=> Later(id)
  BY <1>1, SameComing DEF server
<1>3. call \in Nat /\ call' \in 0..MaxCalls /\ call' \in Calls
  BY <1>1, ClientAssumption DEF TypeOK, Calls
<1>4. TypeOK'
  BY <1>1, <1>3 DEF TypeOK, net, server, conn
<1>5. SocketsOwned' /\ ValueTellsOutcome'
  BY <1>1 DEF SocketsOwned, ValueTellsOutcome, ValueIsOwn, conn, server
<1>6. PlaceOK'
  BY <1>1, <1>3 DEF PlaceOK, InCall, Reading, Shake, net, server
<1>7. CountOK'
  <2>1. \A i \in DOMAIN prep : prep[i] <= call + 1
    <3>1. \A i \in DOMAIN prep : prep[i] \in Nat /\ prep[i] <= call
      BY PrepType DEF CountOK
    <3> QED BY <1>3, <3>1
  <2>2. Len(prep) <= call * Tries /\ execute_retry_count = 0
    BY <1>1 DEF CountOK, PlaceOK, InCall, Reading
  <2>3. call' - 1 = call /\ call * Tries \in Nat
    BY <1>1, <1>3, Products, ClientAssumption
  <2> DEFINE used == call * Tries
  <2>4. (call' - 1) * Tries = used
    BY <2>3
  <2> HIDE DEF used
  <2>5. Len(prep) <= used /\ used \in Nat /\ Len(prep) \in Nat
    BY <2>2, <2>3 DEF used, TypeOK
  <2>6. Len(prep') <= (call' - 1) * Tries + execute_retry_count'
                        + (IF pc' = "prepare" THEN 0 ELSE 1)
    BY <1>1, <2>2, <2>4, <2>5 DEF server
  <2> QED BY <1>1, <2>1, <2>6 DEF CountOK, InCall, server
<1>8. LastOK'
  <2>1. \A c \in Calls : c > call + 1 => executed[c] = 0
    BY <1>3 DEF LastOK, Calls
  <2>2. last.call <= call /\ last.call \in Nat
    BY DEF LastOK, TypeOK
  <2>3. last.call <= call + 1 /\ last.call < call + 1
    BY <1>3, <2>2
  <2> QED BY <1>1, <1>2, <2>1, <2>3 DEF LastOK, net, server
<1>9. SyncOK'
  <2>1. executed[call + 1] = 0
    BY <1>1, <1>3 DEF LastOK
  <2> QED BY <1>1, <2>1 DEF SyncOK, Shake, Reading, net, server
<1> QED BY <1>4, <1>5, <1>6, <1>7, <1>8, <1>9

\* The call returns; if the connection is still in step then nothing of it is
\* left over and the value tells the outcome.
CallEnds(ok) ==
  /\ pc \in InCall /\ ok \in BOOLEAN /\ Return(ok)
  /\ torn' \in BOOLEAN /\ (torn => torn')
  /\ UNCHANGED <<up, flight, prep, executed, rows, errored, conn>>
  /\ avail' = avail \/ avail' = <<>>
  /\ open' \subseteq open
  /\ ~torn' =>
       /\ avail' = <<>> /\ flight' = <<>> /\ open' \subseteq errored
       /\ ok => /\ executed[call] = 1 /\ Len(ret_vecs) = rows[call]
                /\ \A i \in DOMAIN ret_vecs : ret_vecs[i].call = call
       /\ ~ok => executed[call] = 0 \/ ~up

LEMMA EndsInv ==
  ASSUME IInv, NEW ok \in BOOLEAN, CallEnds(ok)
  PROVE  IInv'
<1> USE DEF IInv
<1>1. /\ pc' = "idle" /\ execute_retry_count' = 0 /\ stmt_id' = 0
      /\ next_pkt' = "COLUMN_COUNT" /\ attempt_fetch_more' = FALSE
      /\ recv_part' = <<>> /\ ret_vecs' = <<>> /\ UNCHANGED <<call, kind>>
  BY DEF CallEnds, Return, NoStmt
<1> DEFINE kept == IF ok THEN ret_vecs ELSE <<>>
<1>2. last' = [ok |-> ok, call |-> call, up |-> up, torn |-> torn',
               rows |-> kept]
  BY DEF CallEnds, Return
<1>3. /\ call \in 0..MaxCalls /\ call \in Nat /\ call > 0 /\ call \in Calls
      /\ up \in BOOLEAN /\ torn' \in BOOLEAN
  BY ClientAssumption DEF CallEnds, TypeOK, PlaceOK, Calls
<1>4. kept \in Seq(Packets)
  BY DEF TypeOK
<1> HIDE DEF kept
<1>5. /\ last' \in [ok : BOOLEAN, call : 0..MaxCalls, up : BOOLEAN,
                    torn : BOOLEAN, rows : Seq(Packets)]
      /\ last'.ok = ok /\ last'.call = call /\ last'.up = up
      /\ last'.torn = torn' /\ last'.rows = kept
  BY <1>2, <1>3, <1>4
<1>6. avail \in Seq(Coming) /\ flight \in Seq(Coming)
  BY DEF LastOK
<1>7. avail' \in Seq(Coming') /\ flight' \in Seq(Coming')
  <2>1. CASE torn'
    <3>1. Coming \subseteq Coming'
      BY <1>5, <2>1 DEF Coming, Later, CallEnds
    <3>2. \A s \in Seq(Coming) : s \in Seq(Coming')
      BY <3>1, SeqGrows
    <3>3. <<>> \in Seq(Coming')
      OBVIOUS
    <3> QED BY <1>6, <3>2, <3>3 DEF CallEnds
  <2>2. CASE ~torn'
    BY <2>2 DEF CallEnds
  <2> QED BY <2>1, <2>2
<1>8. avail' \in Seq(Packets) /\ flight' \in Seq(Packets)
  <2>1. <<>> \in Seq(Packets)
    OBVIOUS
  <2> QED BY <2>1 DEF CallEnds, TypeOK
<1>9. TypeOK'
  <2>1. 0 \in 0..UnknownStmt /\ 0 \in 0..CONNECTION_RETRY_COUNT_MAX
    BY IdsType, ClientAssumption DEF UnknownStmt
  <2>2. recv_part' \in Seq(Packets) /\ ret_vecs' \in Seq(Packets)
    BY <1>1
  <2>3. open' \subseteq DOMAIN prep'
    BY DEF CallEnds, TypeOK
  <2> QED BY <1>1, <1>5, <1>8, <2>1, <2>2, <2>3 DEF TypeOK, CallEnds, conn
<1>10. SocketsOwned'
  <2>1. pc # "none"
    BY DEF CallEnds, InCall, Reading
  <2> QED BY <1>1, <2>1 DEF SocketsOwned, CallEnds, conn
<1>11. PlaceOK'
  <2>1. ~up => flight' = <<>> /\ avail' = <<>> /\ open' = {}
    BY DEF PlaceOK, CallEnds
  <2> QED BY <1>1, <2>1 DEF PlaceOK, CallEnds, InCall, Reading, Shake
<1>12. CountOK'
  <2>1. /\ Len(prep) <= (call - 1) * Tries + execute_retry_count
                          + (IF pc = "prepare" THEN 0 ELSE 1)
        /\ execute_retry_count + 1 <= Tries /\ execute_retry_count \in Nat
    BY ClientAssumption DEF CallEnds, CountOK, TypeOK, Tries
  <2>2. call - 1 \in Nat /\ call - 1 < call /\ (call - 1) + 1 = call
    BY <1>3
  <2>3. (call - 1) * Tries \in Nat /\ call * Tries = (call - 1) * Tries + Tries
    BY <1>3, <2>2, Products
  <2> DEFINE before == (call - 1) * Tries
  <2>4. call * Tries = before + Tries /\ before \in Nat
    BY <2>3
  <2>5. Len(prep) <= before + execute_retry_count
                       + (IF pc = "prepare" THEN 0 ELSE 1)
    BY <2>1
  <2> HIDE DEF before
  <2>6. Len(prep) <= call * Tries
    BY <2>1, <2>4, <2>5, TriesType, PrepType
  <2> QED BY <1>1, <2>6 DEF CountOK, CallEnds, InCall, Reading
<1>13. LastOK'
  <2>1. <<>> \in Seq(Coming')
    OBVIOUS
  <2> QED BY <1>1, <1>3, <1>5, <1>7, <2>1 DEF LastOK, CallEnds, InCall, Reading
<1>14. SyncOK'
  BY <1>1 DEF SyncOK, CallEnds, Shake, Reading
<1>15. ValueTellsOutcome'
  BY <1>1, <1>5 DEF ValueTellsOutcome, ValueIsOwn, CallEnds, kept
<1> QED BY <1>9, <1>10, <1>11, <1>12, <1>13, <1>14, <1>15

-----------------------------------------------------------------------------
(* The statement is prepared.                                              *)

\* The server answers with the packets ps.
Answered(ps) ==
  /\ up /\ Send(ps) /\ ps \in Seq(Coming')
  /\ Coming \subseteq Coming'

LEMMA AnswerArrives ==
  ASSUME IInv, NEW ps, Answered(ps)
  PROVE  /\ flight' \in Seq(Coming') /\ avail' \in Seq(Coming')
         /\ flight' \in Seq(Packets) /\ avail' \in Seq(Packets)
         /\ recv_part \in Seq(Coming')
         /\ avail = <<>> /\ flight = <<>> => avail' = <<>> /\ flight' = ps
         /\ avail = <<>> /\ flight = <<>> => avail' \o flight' = ps
<1>1. /\ flight \in Seq(Coming) /\ avail \in Seq(Coming)
      /\ recv_part \in Seq(Coming)
  BY DEF IInv, LastOK
<1>2. Coming \subseteq Coming' /\ Coming' \subseteq Packets
  BY DEF Answered, Coming, Packets
<1>3. \A s \in Seq(Coming) : s \in Seq(Coming')
  BY <1>2, SeqGrows
<1>4. \A s \in Seq(Coming') : s \in Seq(Packets)
  BY <1>2, SeqGrows
<1>5. /\ flight \in Seq(Coming') /\ ps \in Seq(Coming')
      /\ avail' = avail /\ flight' = flight \o ps
  BY <1>1, <1>3 DEF Answered, Send
<1>6. flight \o ps \in Seq(Coming')
  BY <1>5
<1>7. avail' \in Seq(Coming') /\ recv_part \in Seq(Coming')
  BY <1>1, <1>3, <1>5
<1>8. <<>> \o ps = ps
  BY <1>5
<1> QED BY <1>4, <1>5, <1>6, <1>7, <1>8

\* The ids suffice, also for the statement that is about to be prepared.
LEMMA RoomForStmt ==
  ASSUME IInv, pc \in InCall
  PROVE  /\ Len(prep) <= MaxIds
         /\ pc = "prepare" => Len(prep) + 1 \in 0..MaxIds
<1> USE DEF IInv
<1>1. /\ call \in 0..MaxCalls /\ call \in Nat /\ call > 0
      /\ MaxCalls \in Nat
  BY ClientAssumption DEF TypeOK, PlaceOK
<1>2. /\ Len(prep) <= (call - 1) * Tries + execute_retry_count
                        + (IF pc = "prepare" THEN 0 ELSE 1)
      /\ execute_retry_count + 1 <= Tries /\ execute_retry_count \in Nat
  BY ClientAssumption DEF CountOK, TypeOK, Tries
<1>3. (call - 1) * Tries \in Nat /\ call * Tries = (call - 1) * Tries + Tries
  <2>1. call - 1 \in Nat /\ call - 1 < call /\ (call - 1) + 1 = call
    BY <1>1
  <2> QED BY <1>1, <2>1, Products
<1>4. call * Tries <= MaxCalls * Tries
  <2>1. CASE call = MaxCalls
    BY <1>3, <2>1, TriesType
  <2>2. CASE call < MaxCalls
    <3>1. call * Tries \in Nat /\ (call + 1) * Tries = call * Tries + Tries
          /\ (call + 1) * Tries <= MaxCalls * Tries
      BY <1>1, <2>2, Products
    <3>2. MaxCalls * Tries \in Nat
      BY IdsType
    <3> QED BY <3>1, <3>2, TriesType
  <2> QED BY <1>1, <2>1, <2>2
<1> DEFINE before == (call - 1) * Tries
           total == MaxCalls * Tries
<1>5. /\ before \in Nat /\ before + Tries <= total /\ total = MaxIds
      /\ Len(prep) <= before + execute_retry_count
                        + (IF pc = "prepare" THEN 0 ELSE 1)
  BY <1>2, <1>3, <1>4, IdsType
<1> HIDE DEF before, total
<1>6. Len(prep) \in Nat /\ Tries \in Nat /\ MaxIds \in Nat
  BY PrepType, TriesType, IdsType
<1> QED BY <1>2, <1>5, <1>6

\* COM_STMT_PREPARE was written and answered with ps.
Asked(ps) ==
  /\ pc = "prepare" /\ pc' = "prepare_resp" /\ Answered(ps)
  /\ \/ UNCHANGED <<prep, open>>
     \/ prep' = Append(prep, call) /\ open' = open \cup {Len(prep')}
  /\ UNCHANGED <<stmt, executed, rows, last, errored, torn, conn>>
  /\ ~torn => PrepDue(ps)'

LEMMA AskedInv ==
  ASSUME IInv, NEW ps, Asked(ps)
  PROVE  IInv'
<1> USE DEF IInv
<1>1. /\ UNCHANGED <<up, stmt, executed, rows, last, errored, torn, conn>>
      /\ pc = "prepare" /\ pc' = "prepare_resp" /\ up
  BY DEF Asked, Answered, Send
<1>2. /\ flight' \in Seq(Coming') /\ avail' \in Seq(Coming')
      /\ flight' \in Seq(Packets) /\ avail' \in Seq(Packets)
      /\ recv_part \in Seq(Coming')
      /\ avail = <<>> /\ flight = <<>> => avail' \o flight' = ps
  BY AnswerArrives DEF Asked
<1>3. /\ prep \in Seq(Calls) /\ call \in Calls /\ call \in Nat /\ call > 0
      /\ open \subseteq DOMAIN prep /\ errored \subseteq DOMAIN prep
  BY <1>1, ClientAssumption DEF TypeOK, PlaceOK, InCall, Calls
<1>4. /\ prep' \in Seq(Calls) /\ Len(prep') <= Len(prep) + 1
      /\ DOMAIN prep \subseteq DOMAIN prep'
      /\ open' \subseteq DOMAIN prep' /\ Len(prep') \in Nat
      /\ \A i \in DOMAIN prep' :
           (i \in DOMAIN prep /\ prep'[i] = prep[i]) \/ prep'[i] = call
  <2>1. CASE UNCHANGED <<prep, open>>
    BY <1>3, <2>1
  <2>2. CASE prep' = Append(prep, call) /\ open' = open \cup {Len(prep')}
    <3>1. /\ prep' \in Seq(Calls) /\ Len(prep') = Len(prep) + 1
          /\ DOMAIN prep' = 1..(Len(prep) + 1) /\ DOMAIN prep = 1..Len(prep)
          /\ \A i \in 1..Len(prep) : prep'[i] = prep[i]
          /\ prep'[Len(prep) + 1] = call /\ Len(prep) \in Nat
      BY <1>3, <2>2
    <3>2. \A i \in 1..(Len(prep) + 1) : i \in 1..Len(prep) \/ i = Len(prep) + 1
      BY <3>1
    <3>3. Len(prep) + 1 \in 1..(Len(prep) + 1)
      BY <3>1
    <3> QED BY <1>3, <2>2, <3>1, <3>2, <3>3
  <2> QED BY <2>1, <2>2 DEF Asked
<1>5. TypeOK'
  <2>1. errored' \subseteq DOMAIN prep'
    BY <1>1, <1>3, <1>4
  <2> QED BY <1>1, <1>2, <1>4, <2>1 DEF TypeOK, stmt, conn
<1>6. SocketsOwned' /\ ValueTellsOutcome'
  BY <1>1 DEF SocketsOwned, ValueTellsOutcome, ValueIsOwn, conn
<1>7. PlaceOK'
  BY <1>1 DEF PlaceOK, stmt, InCall, Reading, Shake
<1>8. CountOK'
  <2>1. \A i \in DOMAIN prep' : prep'[i] <= call
    BY <1>3, <1>4 DEF CountOK
  <2>2. /\ Len(prep) <= (call - 1) * Tries + execute_retry_count + 0
        /\ execute_retry_count \in Nat
    BY <1>1 DEF CountOK, TypeOK, InCall
  <2>3. (call - 1) * Tries \in Nat
    BY <1>3, Products
  <2> DEFINE before == (call - 1) * Tries
  <2>4. before \in Nat /\ Len(prep) <= before + execute_retry_count + 0
    BY <2>2, <2>3
  <2> HIDE DEF before
  <2>5. Len(prep') <= before + execute_retry_count + 1
    BY <1>4, <2>2, <2>4, PrepType
  <2> QED BY <1>1, <2>1, <2>5 DEF CountOK, stmt, InCall, before
<1>9. LastOK'
  BY <1>1, <1>2 DEF LastOK, stmt, InCall
<1>10. SyncOK'
  <2>1. ~torn => avail = <<>> /\ flight = <<>> /\ executed[call] = 0
    BY <1>1 DEF SyncOK
  <2>2. ~torn => PrepDue(avail \o flight)'
    BY <1>2, <2>1 DEF Asked, PrepDue, Matches
  <2> QED BY <1>1, <2>1, <2>2 DEF SyncOK, stmt, Reading, Shake
<1> QED BY <1>5, <1>6, <1>7, <1>8, <1>9, <1>10

LEMMA SendPrepareInv ==
  ASSUME IInv, SendPrepare
  PROVE  IInv'
<1> USE DEF IInv
<1>1. pc = "prepare" /\ UNCHANGED <<errored, torn, conn>>
  BY DEF SendPrepare
<1>2. CASE Gone /\ Return(FALSE) /\ UNCHANGED <<net, server>>
  <2>1. ~torn => /\ avail = <<>> /\ flight = <<>> /\ open \subseteq errored
                 /\ executed[call] = 0
    BY <1>1 DEF SyncOK
  <2>2. torn \in BOOLEAN /\ pc \in InCall
    BY <1>1 DEF TypeOK, InCall
  <2>3. CallEnds(FALSE)
    BY <1>1, <1>2, <2>1, <2>2 DEF CallEnds, net, server
  <2> QED BY <2>3, EndsInv
<1>3. CASE /\ up /\ pc' = "prepare_resp"
           /\ prep' = Append(prep, call)
           /\ open' = open \cup {Len(prep')}
           /\ \E n \in 0..1 :
                Send(<<Packet("prep_ok", call, Len(prep'))>>
                     \o [i \in 1..n |-> Packet("def", call, 0)])
           /\ UNCHANGED <<stmt, executed, rows, last>>
  <2>1. PICK n \in 0..1 :
          Send(<<Packet("prep_ok", call, Len(prep'))>>
               \o [i \in 1..n |-> Packet("def", call, 0)])
    BY <1>3
  <2>2. /\ prep \in Seq(Calls) /\ call \in Calls /\ call \in 0..MaxCalls
        /\ call \in Nat /\ call > 0 /\ last.call < call /\ last.call \in Nat
    BY <1>1, ClientAssumption DEF TypeOK, PlaceOK, InCall, Calls, LastOK
  <2>3. /\ Len(prep') = Len(prep) + 1 /\ prep'[Len(prep')] = call
        /\ Len(prep') > 0 /\ DOMAIN prep' = 1..Len(prep')
        /\ Len(prep') \in 1..Len(prep') /\ Len(prep') \in Nat
        /\ DOMAIN prep \subseteq DOMAIN prep'
        /\ \A i \in DOMAIN prep : prep'[i] = prep[i]
    BY <1>3, <2>2
  <2>4. Len(prep') \in 0..MaxIds /\ 0 \in 0..MaxIds
    BY <1>1, <2>3, RoomForStmt, IdsType DEF InCall
  <2>5. PICK p : p = Packet("prep_ok", call, Len(prep'))
    OBVIOUS
  <2>6. PICK q : q = Packet("def", call, 0)
    OBVIOUS
  <2>7. /\ p \in Packets /\ p.kind = "prep_ok" /\ p.call = call
        /\ p.id = Len(prep')
    BY <2>2, <2>4, <2>5, PacketType
  <2>8. q \in Packets /\ q.kind = "def" /\ q.call = call
    BY <2>2, <2>4, <2>6, PacketType
  <2>9. Coming \subseteq Coming' /\ p \in Coming' /\ q \in Coming'
    <3>1. Later(p.id)'
      BY <1>3, <2>2, <2>3, <2>7 DEF Later
    <3>2. \A id : Later(id) => Later(id)'
      BY <1>3, <2>3 DEF Later
    <3> QED BY <2>7, <2>8, <3>1, <3>2 DEF Coming, Packets
  <2>10. PICK ps : ps = <<p>> \o [i \in 1..n |-> q]
    OBVIOUS
  <2>11. /\ ps \in Seq(Coming') /\ ps # <<>> /\ ps[1] = p
         /\ ps = <<p>> \/ ps = <<p, q>>
    <3>1. CASE n = 0
      <4>1. [i \in 1..n |-> q] = <<>>
        BY <3>1
      <4>2. <<p>> \o <<>> = <<p>>
        BY <2>9
      <4>3. ps = <<p>>
        BY <2>10, <4>1, <4>2, Zenon
      <4> QED BY <2>9, <4>3
    <3>2. CASE n = 1
      <4>1. [i \in 1..n |-> q] = <<q>>
        BY <3>2
      <4>2. <<p>> \o <<q>> = <<p, q>>
        BY PairConcat
      <4>3. ps = <<p, q>>
        BY <2>10, <4>1, <4>2, Zenon
      <4> QED BY <2>9, <4>3
    <3> QED BY <3>1, <3>2
  <2>12. Send(ps)
    BY <2>1, <2>5, <2>6, <2>10
  <2>13. ~torn => PrepDue(ps)'
    <3> SUFFICES ASSUME ~torn PROVE PrepDue(ps)'
      OBVIOUS
    <3>1. open \subseteq errored
      BY <1>1 DEF SyncOK
    <3>2. Matches(ps, <<"prep_ok">>)' \/ Matches(ps, <<"prep_ok", "def">>)'
      <4>1. CASE ps = <<p>>
        BY <1>3, <2>7, <2>12, <4>1 DEF Matches, stmt
      <4>2. CASE ps = <<p, q>>
        BY <1>3, <2>7, <2>8, <2>12, <4>2 DEF Matches, stmt
      <4> QED BY <2>11, <4>1, <4>2
    <3>3. open' \ {Len(prep')} \subseteq errored' /\ Len(prep') \in open'
      BY <1>1, <1>3, <3>1
    <3> QED BY <1>3, <2>3, <2>7, <2>11, <3>2, <3>3 DEF PrepDue, stmt
  <2>14. Asked(ps)
    BY <1>1, <1>3, <2>9, <2>11, <2>12, <2>13 DEF Asked, Answered
  <2> QED BY <2>14, AskedInv
<1>4. CASE /\ up /\ pc' = "prepare_resp"
           /\ Send(<<Packet("err", call, 0)>>)
           /\ UNCHANGED <<prep, open>>
           /\ UNCHANGED <<stmt, executed, rows, last>>
  <2>1. call \in 0..MaxCalls /\ 0 \in 0..MaxIds
    BY IdsType DEF TypeOK
  <2>2. PICK p : p = Packet("err", call, 0)
    OBVIOUS
  <2>3. p \in Coming /\ p.kind = "err" /\ p.call = call
    BY <2>1, <2>2, PacketType
  <2>4. Coming' = Coming
    BY <1>4, SameComing
  <2>5. PICK ps : ps = <<p>>
    OBVIOUS
  <2>6. ps \in Seq(Coming') /\ Send(ps)
    BY <1>4, <2>2, <2>3, <2>4, <2>5
  <2>7. ~torn => PrepDue(ps)'
    <3>1. ~torn => open \subseteq errored
      BY <1>1 DEF SyncOK
    <3>2. Matches(ps, <<"err">>)'
      BY <1>4, <2>3, <2>5 DEF Matches, stmt
    <3> QED BY <1>1, <1>4, <3>1, <3>2 DEF PrepDue
  <2>8. Asked(ps)
    BY <1>1, <1>4, <2>4, <2>6, <2>7 DEF Asked, Answered
  <2> QED BY <2>8, AskedInv
<1> QED BY <1>2, <1>3, <1>4 DEF SendPrepare

LEMMA ReadPrepareInv ==
  ASSUME IInv, ReadPrepare
  PROVE  IInv'
<1> USE DEF IInv
<1>1. /\ pc = "prepare_resp" /\ torn' = (torn \/ flight # <<>>)
      /\ UNCHANGED <<up, flight, server, errored, conn>>
  BY DEF ReadPrepare
<1>2. torn' \in BOOLEAN /\ torn \in BOOLEAN /\ pc \in InCall
  BY <1>1 DEF TypeOK, InCall
<1>3. /\ avail \in Seq(Coming) /\ flight \in Seq(Coming)
      /\ flight = <<>> => avail \o flight = avail
  BY DEF LastOK
<1>4. ~torn' => /\ flight = <<>> /\ PrepDue(avail) /\ executed[call] = 0
                /\ ~torn
  BY <1>1, <1>3 DEF SyncOK
<1>5. ~torn' /\ avail # <<>> /\ avail[1].kind # "prep_ok" =>
        open \subseteq errored /\ avail[1].kind = "err"
  <2> SUFFICES ASSUME ~torn', avail # <<>>, avail[1].kind # "prep_ok"
               PROVE  open \subseteq errored /\ avail[1].kind = "err"
    OBVIOUS
  <2>1. 1 \in 1..Len(avail)
    BY <1>3
  <2> QED BY <1>4, <2>1 DEF PrepDue, Matches
<1>6. ~torn' /\ avail # <<>> /\ avail[1].kind = "prep_ok" =>
        /\ avail[1].id = Len(prep) /\ Len(prep) > 0 /\ prep[Len(prep)] = call
        /\ up => Len(prep) \in open
        /\ open \ {Len(prep)} \subseteq errored
  <2> SUFFICES ASSUME ~torn', avail # <<>>, avail[1].kind = "prep_ok"
               PROVE  /\ avail[1].id = Len(prep) /\ Len(prep) > 0
                      /\ prep[Len(prep)] = call
                      /\ up => Len(prep) \in open
                      /\ open \ {Len(prep)} \subseteq errored
    OBVIOUS
  <2>1. 1 \in 1..Len(avail)
    BY <1>3
  <2>2. ~Matches(avail, <<"err">>)
    BY <2>1 DEF Matches
  <2> QED BY <1>4, <2>2 DEF PrepDue
<1>7. CASE Gone /\ Return(FALSE) /\ UNCHANGED avail
  <2>1. avail = <<>> /\ open = {}
    BY <1>7 DEF Gone, PlaceOK
  <2>2. CallEnds(FALSE)
    BY <1>1, <1>2, <1>4, <1>7, <2>1 DEF CallEnds, server
  <2> QED BY <2>2, EndsInv
<1>8. ASSUME avail # <<>>, avail' = <<>>, NEW id \in PrepareIds(avail[1]),
             id = NoStmt, Return(FALSE)
      PROVE  IInv'
  <2>1. avail[1].kind = "prep_ok" => id = avail[1].id
    BY <1>8 DEF PrepareIds
  <2>2. ~torn' => open \subseteq errored
    BY <1>5, <1>6, <1>8, <2>1 DEF NoStmt
  <2>3. CallEnds(FALSE)
    BY <1>1, <1>2, <1>4, <1>8, <2>2 DEF CallEnds, server
  <2> QED BY <2>3, EndsInv
<1>9. ASSUME avail # <<>>, avail' = <<>>, NEW id \in PrepareIds(avail[1]),
             id # NoStmt, stmt_id' = id, pc' = "execute",
             UNCHANGED <<call, kind, next_pkt, attempt_fetch_more,
                         recv_part, ret_vecs, execute_retry_count, last>>
      PROVE  IInv'
  <2>1. avail[1] \in Coming
    BY <1>3, <1>9
  <2>2. \/ avail[1].kind = "prep_ok" /\ id = avail[1].id
        \/ avail[1].kind = "row" /\ id = UnknownStmt
    BY <1>9 DEF PrepareIds
  <2>3. /\ id \in 0..UnknownStmt
        /\ id \in DOMAIN prep => avail[1].kind = "prep_ok" /\ Later(id)
    <3>1. MaxIds \in Nat /\ UnknownStmt = MaxIds + 1
      BY IdsType DEF UnknownStmt
    <3>2. UnknownStmt \notin DOMAIN prep
      BY <1>2, <3>1, RoomForStmt, PrepType
    <3>3. avail[1].id \in 0..MaxIds
      BY <2>1 DEF Coming, Packets
    <3> QED BY <2>1, <2>2, <3>1, <3>2, <3>3 DEF Coming
  <2>4. Coming' = Coming /\ \A i : Later(i)' <=> Later(i)
    BY <1>1, <1>9, SameComing DEF server
  <2>5. TypeOK'
    <3>1. <<>> \in Seq(Packets)
      OBVIOUS
    <3> QED BY <1>1, <1>2, <1>9, <2>3, <3>1 DEF TypeOK, server, conn
  <2>6. SocketsOwned' /\ ValueTellsOutcome'
    BY <1>1, <1>9
    DEF SocketsOwned, ValueTellsOutcome, ValueIsOwn, server, conn
  <2>7. PlaceOK'
    BY <1>1, <1>9 DEF PlaceOK, InCall, Reading, Shake, server
  <2>8. CountOK'
    BY <1>1, <1>9 DEF CountOK, InCall, server
  <2>9. LastOK'
    <3>1. <<>> \in Seq(Coming)
      OBVIOUS
    <3> QED BY <1>1, <1>9, <2>3, <2>4, <3>1 DEF LastOK, InCall, server
  <2>10. SyncOK'
    <3> SUFFICES ASSUME ~torn' PROVE SyncOK'
      BY DEF SyncOK
    <3>1. avail[1].kind = "prep_ok"
      BY <1>5, <1>9, <2>2
    <3>2. id = Len(prep) /\ prep[id] = call /\ id \in DOMAIN prep
      BY <1>6, <1>9, <2>2, <3>1, PrepType
    <3>3. (up => id \in open) /\ open \ {id} \subseteq errored
      BY <1>6, <1>9, <3>1, <3>2
    <3> QED BY <1>1, <1>4, <1>9, <3>2, <3>3
            DEF SyncOK, Shake, Reading, server
  <2> QED BY <2>5, <2>6, <2>7, <2>8, <2>9, <2>10
<1>10. CASE Gone /\ SpinPrepare /\ UNCHANGED avail
  <2>1. /\ pc' = "prepare_spin" /\ avail = <<>> /\ ~up
        /\ UNCHANGED <<stmt, last, avail>>
    BY <1>10 DEF Gone, SpinPrepare
  <2>2. flight = <<>> /\ torn' = torn
    BY <1>1, <1>2, <2>1 DEF PlaceOK
  <2>3. Coming' = Coming /\ \A i : Later(i)' <=> Later(i)
    BY <1>1, <2>1, SameComing DEF server
  <2>4. TypeOK'
    BY <1>1, <2>1, <2>2 DEF TypeOK, server, conn, stmt
  <2>5. SocketsOwned' /\ ValueTellsOutcome'
    BY <1>1, <2>1
    DEF SocketsOwned, ValueTellsOutcome, ValueIsOwn, server, conn
  <2>6. PlaceOK'
    BY <1>1, <2>1 DEF PlaceOK, InCall, Reading, Shake, server, stmt
  <2>7. CountOK'
    BY <1>1, <2>1 DEF CountOK, InCall, server, stmt
  <2>8. LastOK'
    BY <1>1, <2>1, <2>3 DEF LastOK, InCall, server, stmt
  <2>9. SyncOK'
    BY <2>1 DEF SyncOK, Shake, Reading
  <2> QED BY <2>4, <2>5, <2>6, <2>7, <2>8, <2>9
<1> QED BY <1>7, <1>8, <1>9, <1>10 DEF ReadPrepare

-----------------------------------------------------------------------------
(* The statement is executed.                                              *)

\* The packets of a result set without rows and with one row.
LEMMA ResultSetIs ==
  ASSUME NEW c \in 0..MaxCalls, NEW n \in 0..1
  PROVE  /\ ResultSet(c, n) \in Seq(Coming) /\ Len(ResultSet(c, n)) = n + 3
         /\ \A i \in 1..(n + 3) : ResultSet(c, n)[i].call = c
         /\ ResultSet(c, n)[1].kind = "count"
         /\ ResultSet(c, n)[2].kind = "def"
         /\ n = 1 => ResultSet(c, n)[3].kind = "row"
         /\ ResultSet(c, n)[n + 3].kind = "eof"
<1> DEFINE p == Packet("count", c, 0)
           q == Packet("def", c, 0)
           r == Packet("row", c, 0)
           e == Packet("eof", c, 0)
<1>1. 0 \in 0..MaxIds
  BY IdsType
<1>2. /\ p \in Coming /\ p.kind = "count" /\ p.call = c
      /\ q \in Coming /\ q.kind = "def" /\ q.call = c
      /\ r \in Coming /\ r.kind = "row" /\ r.call = c
      /\ e \in Coming /\ e.kind = "eof" /\ e.call = c
  BY <1>1, PacketType
<1>3. ResultSet(c, n) = (<<p, q>> \o [i \in 1..n |-> r]) \o <<e>>
  BY DEF ResultSet
<1> HIDE DEF p, q, r, e
<1> DEFINE x == <<p, q>>
           y == [i \in 1..n |-> r]
           z == <<e>>
<1>4. x \in Seq(Coming) /\ Len(x) = 2 /\ x[1] = p /\ x[2] = q
  BY <1>2
<1>5. y \in Seq(Coming) /\ Len(y) = n /\ (n = 1 => y[1] = r)
  BY <1>2
<1>6. z \in Seq(Coming) /\ Len(z) = 1 /\ z[1] = e
  BY <1>2
<1> HIDE DEF x, y, z
<1> DEFINE xy == x \o y
<1>7. /\ xy \in Seq(Coming) /\ Len(xy) = 2 + n /\ xy[1] = p /\ xy[2] = q
      /\ n = 1 => xy[3] = r
  <2>1. /\ xy \in Seq(Coming) /\ Len(xy) = Len(x) + Len(y)
        /\ \A i \in 1..Len(x) : xy[i] = x[i]
        /\ \A i \in 1..Len(y) : xy[Len(x) + i] = y[i]
    <3>1. Joins(x, y, Coming)
      BY <1>4, <1>5, ConcatFacts
    <3> QED BY <3>1 DEF Joins
  <2> HIDE DEF xy
  <2>2. 1 \in 1..Len(x) /\ 2 \in 1..Len(x) /\ (n = 1 => 1 \in 1..Len(y))
    BY <1>4, <1>5
  <2>3. Len(x) + 1 = 3
    BY <1>4
  <2>4. xy[1] = p /\ xy[2] = q
    BY <1>4, <2>1, <2>2
  <2>5. n = 1 => xy[3] = r
    BY <1>5, <2>1, <2>2, <2>3
  <2> QED BY <1>4, <1>5, <2>1, <2>4, <2>5
<1> HIDE DEF xy
<1> DEFINE w == xy \o z
<1>8. /\ w \in Seq(Coming) /\ Len(w) = n + 3 /\ w[1] = p /\ w[2] = q
      /\ n = 1 => w[3] = r
      /\ w[n + 3] = e
  <2>1. /\ w \in Seq(Coming) /\ Len(w) = Len(xy) + Len(z)
        /\ \A i \in 1..Len(xy) : w[i] = xy[i]
        /\ \A i \in 1..Len(z) : w[Len(xy) + i] = z[i]
    <3>1. Joins(xy, z, Coming)
      BY <1>6, <1>7, ConcatFacts
    <3> QED BY <3>1 DEF Joins
  <2> HIDE DEF w
  <2>2. /\ 1 \in 1..Len(xy) /\ 2 \in 1..Len(xy) /\ 1 \in 1..Len(z)
        /\ n = 1 => 3 \in 1..Len(xy)
    BY <1>6, <1>7
  <2>3. Len(xy) + 1 = n + 3
    BY <1>7
  <2>4. w[1] = p /\ w[2] = q /\ (n = 1 => w[3] = r)
    BY <1>7, <2>1, <2>2
  <2>5. w[n + 3] = e
    BY <1>6, <2>1, <2>2, <2>3
  <2> QED BY <1>6, <1>7, <2>1, <2>4, <2>5
<1>9. ResultSet(c, n) = w
  BY <1>3 DEF w, xy, x, y, z
<1> HIDE DEF w
<1>10. \A i \in 1..(n + 3) :
         i = 1 \/ i = 2 \/ (n = 1 /\ i = 3) \/ i = n + 3
  OBVIOUS
<1>11. \A i \in 1..(n + 3) : w[i].call = c
  BY <1>2, <1>8, <1>10
<1> QED BY <1>2, <1>8, <1>9, <1>11

\* COM_STMT_EXECUTE was written and answered with ps.
Ran(ps) ==
  /\ pc = "execute" /\ pc' = "execute_read" /\ Answered(ps)
  /\ UNCHANGED <<stmt, prep, open, last, torn, conn>>
  /\ errored \subseteq errored' /\ errored' \subseteq DOMAIN prep
  /\ executed' \in [Calls -> Nat] /\ rows' \in [Calls -> Nat]
  /\ \A c \in Calls : c > call \/ (~last.torn /\ c <= last.call) =>
       executed'[c] = executed[c] /\ rows'[c] = rows[c]
  /\ ~torn => ReadDue(ps)'

LEMMA RanInv ==
  ASSUME IInv, NEW ps, Ran(ps)
  PROVE  IInv'
<1> USE DEF IInv
<1>1. /\ UNCHANGED <<up, stmt, prep, open, last, torn, conn>>
      /\ pc = "execute" /\ pc' = "execute_read" /\ up
  BY DEF Ran, Answered, Send
<1>2. /\ flight' \in Seq(Coming') /\ avail' \in Seq(Coming')
      /\ flight' \in Seq(Packets) /\ avail' \in Seq(Packets)
      /\ recv_part \in Seq(Coming')
      /\ avail = <<>> /\ flight = <<>> => avail' \o flight' = ps
      /\ ps \in Seq(Coming')
  BY AnswerArrives DEF Ran, Answered
<1>3. TypeOK'
  BY <1>1, <1>2 DEF TypeOK, Ran, stmt, conn
<1>4. SocketsOwned'
  BY <1>1 DEF SocketsOwned, conn
<1>5. PlaceOK'
  BY <1>1 DEF PlaceOK, stmt, InCall, Reading, Shake
<1>6. CountOK'
  BY <1>1 DEF CountOK, stmt, InCall, Reading
<1>7. LastOK'
  <2>1. \A c \in Calls : c > call => executed'[c] = 0
    BY DEF Ran, LastOK
  <2> QED BY <1>1, <1>2, <2>1 DEF LastOK, stmt, InCall, Reading
<1>8. SyncOK'
  <2> SUFFICES ASSUME ~torn PROVE SyncOK'
    BY <1>1 DEF SyncOK
  <2>1. /\ avail = <<>> /\ flight = <<>> /\ stmt_id \in DOMAIN prep
        /\ prep[stmt_id] = call /\ open \ {stmt_id} \subseteq errored
    BY <1>1 DEF SyncOK
  <2>2. recv_part' = <<>>
    BY <1>1 DEF PlaceOK, stmt
  <2>3. Rest' = ps
    <3>1. <<>> \o ps = ps
      BY <1>2
    <3> QED BY <1>2, <2>1, <2>2, <3>1 DEF Rest
  <2>4. ReadDue(Rest)'
    BY <2>3 DEF Ran, ReadDue, Matches, Due
  <2>5. open \ {stmt_id} \subseteq errored'
    BY <2>1 DEF Ran
  <2> QED BY <1>1, <2>1, <2>4, <2>5 DEF SyncOK, stmt, Reading, Shake
<1>9. ValueTellsOutcome'
  <2> SUFFICES ASSUME last.call # 0, ~last.torn
               PROVE  ValueTellsOutcome'
    BY <1>1 DEF ValueTellsOutcome
  <2>1. last.call \in Calls /\ last.call <= last.call
    BY ClientAssumption DEF TypeOK, Calls
  <2>2. /\ executed'[last.call] = executed[last.call]
        /\ rows'[last.call] = rows[last.call]
    BY <2>1 DEF Ran
  <2> QED BY <1>1, <2>2 DEF ValueTellsOutcome, ValueIsOwn
<1> QED BY <1>3, <1>4, <1>5, <1>6, <1>7, <1>8, <1>9

LEMMA SendExecuteInv ==
  ASSUME IInv, SendExecute
  PROVE  IInv'
<1> USE DEF IInv
<1>1. pc = "execute" /\ UNCHANGED <<torn, conn>>
  BY DEF SendExecute
<1>2. /\ call \in 0..MaxCalls /\ call \in Nat /\ 0 \in 0..MaxIds
      /\ torn \in BOOLEAN /\ pc \in InCall /\ call \in Calls
      /\ next_pkt = "COLUMN_COUNT" /\ ret_vecs = <<>>
      /\ executed \in [Calls -> Nat] /\ rows \in [Calls -> Nat]
  BY <1>1, IdsType DEF TypeOK, InCall, Reading, PlaceOK, Calls
<1>3. CASE Gone /\ Return(FALSE) /\ UNCHANGED <<net, server, errored>>
  <2>1. ~torn => avail = <<>> /\ flight = <<>>
    BY <1>1 DEF SyncOK
  <2>2. ~up /\ open = {}
    BY <1>3 DEF Gone, PlaceOK
  <2>3. CallEnds(FALSE)
    BY <1>1, <1>2, <1>3, <2>1, <2>2 DEF CallEnds, net, server
  <2> QED BY <2>3, EndsInv
<1>4. ASSUME up, pc' = "execute_read", UNCHANGED <<stmt, prep, open, last>>,
             stmt_id \in open, NEW n \in 0..1,
             executed' = [executed EXCEPT ![prep[stmt_id]] = @ + 1],
             rows' = [rows EXCEPT ![prep[stmt_id]] =
                        IF kind = "select" THEN n ELSE 0],
             Send(IF kind = "select" THEN ResultSet(prep[stmt_id], n)
                  ELSE <<Packet("ok", prep[stmt_id], 0)>>),
             UNCHANGED errored
      PROVE  IInv'
  <2>1. PICK c : c = prep[stmt_id]
    OBVIOUS
  <2>2. /\ c \in Calls /\ c \in Nat /\ c \in 0..MaxCalls /\ c <= call
        /\ last.torn \/ c > last.call
        /\ last.call \in Nat
    <3>1. stmt_id \in DOMAIN prep /\ Later(stmt_id)
      BY <1>1, <1>4 DEF TypeOK, LastOK
    <3>2. c \in Calls /\ c \in Nat /\ c <= call
      BY <2>1, <3>1, PrepType DEF CountOK
    <3>3. c \in 0..MaxCalls /\ last.call \in Nat
      BY <3>2 DEF Calls, TypeOK
    <3> QED BY <2>1, <3>1, <3>2, <3>3 DEF Later
  <2>3. Coming' = Coming
    BY <1>4, SameComing
  <2>4. PICK ps : ps = IF kind = "select" THEN ResultSet(c, n)
                       ELSE <<Packet("ok", c, 0)>>
    OBVIOUS
  <2>5. PICK p : p = Packet("ok", c, 0)
    OBVIOUS
  <2>6. p \in Coming /\ p.kind = "ok" /\ p.call = c
    BY <1>2, <2>2, <2>5, PacketType
  <2>7. kind = "select" =>
          /\ ps \in Seq(Coming) /\ Len(ps) = n + 3
          /\ \A i \in 1..(n + 3) : ps[i].call = c
          /\ ps[1].kind = "count" /\ ps[2].kind = "def"
          /\ n = 1 => ps[3].kind = "row"
          /\ ps[n + 3].kind = "eof"
    BY <2>2, <2>4, ResultSetIs
  <2>8. kind # "select" => ps = <<p>>
    BY <2>4, <2>5
  <2>9. ps \in Seq(Coming) /\ Send(ps)
    BY <1>4, <2>1, <2>4, <2>6, <2>7, <2>8
  <2>10. /\ executed' \in [Calls -> Nat] /\ executed'[c] = executed[c] + 1
         /\ \A d \in Calls : d # c => executed'[d] = executed[d]
    BY <1>2, <1>4, <2>1, <2>2
  <2>11. /\ rows' \in [Calls -> Nat]
         /\ rows'[c] = IF kind = "select" THEN n ELSE 0
         /\ \A d \in Calls : d # c => rows'[d] = rows[d]
    BY <1>2, <1>4, <2>1, <2>2
  <2>12. ASSUME ~torn PROVE ReadDue(ps)'
    <3>1. executed[call] = 0 /\ c = call
      BY <1>1, <2>1, <2>12 DEF SyncOK
    <3>2. executed'[call'] = 1 /\ call' = call /\ up' = up
      BY <1>4, <2>9, <2>10, <3>1 DEF stmt, Send
    <3>3. ret_vecs' = <<>> /\ next_pkt' = "COLUMN_COUNT"
      BY <1>2, <1>4 DEF stmt
    <3>4. rows'[call'] = IF kind = "select" THEN n ELSE 0
      BY <2>11, <3>1, <3>2
    <3>5. CASE kind = "select" /\ n = 0
      <4>1. Matches(ps, <<"count", "def", "eof">>)'
        <5>1. /\ Len(ps) = 3 /\ ps[1].kind = "count" /\ ps[2].kind = "def"
              /\ ps[3].kind = "eof" /\ \A i \in 1..3 : ps[i].call = call'
          BY <2>7, <3>1, <3>2, <3>5
        <5> QED BY ONLY <5>1 DEF Matches
      <4>2. Due(<<"count", "def", "eof">>)'
        BY <3>2, <3>3, <3>4, <3>5 DEF Due
      <4> QED BY <4>1, <4>2 DEF ReadDue, Answers
    <3>6. CASE kind = "select" /\ n = 1
      <4>1. Matches(ps, <<"count", "def", "row", "eof">>)'
        <5>1. /\ Len(ps) = 4 /\ ps[1].kind = "count" /\ ps[2].kind = "def"
              /\ ps[3].kind = "row" /\ ps[4].kind = "eof"
              /\ \A i \in 1..4 : ps[i].call = call'
          BY <2>7, <3>1, <3>2, <3>6
        <5> QED BY ONLY <5>1 DEF Matches
      <4>2. Due(<<"count", "def", "row", "eof">>)'
        BY <3>2, <3>3, <3>4, <3>6 DEF Due
      <4> QED BY <4>1, <4>2 DEF ReadDue, Answers
    <3>7. CASE kind # "select"
      <4>1. Matches(ps, <<"ok">>)'
        <5>1. Len(ps) = 1 /\ ps[1].kind = "ok" /\ ps[1].call = call'
          BY <2>6, <2>8, <3>1, <3>2, <3>7
        <5> QED BY ONLY <5>1 DEF Matches
      <4>2. Due(<<"ok">>)'
        BY <3>2, <3>3, <3>4, <3>7 DEF Due
      <4> QED BY <4>1, <4>2 DEF ReadDue, Answers
    <3> QED BY <3>5, <3>6, <3>7
  <2>13. \A d \in Calls : d > call \/ (~last.torn /\ d <= last.call) =>
            executed'[d] = executed[d] /\ rows'[d] = rows[d]
    <3> SUFFICES ASSUME NEW d \in Calls,
                        d > call \/ (~last.torn /\ d <= last.call)
                 PROVE  d # c
      BY <2>10, <2>11
    <3>1. d \in Nat
      BY DEF Calls
    <3> QED BY <1>2, <2>2, <3>1
  <2>14. errored' \subseteq DOMAIN prep /\ errored \subseteq errored'
    BY <1>4 DEF TypeOK
  <2>15. Ran(ps)
    BY <1>1, <1>4, <2>3, <2>9, <2>10, <2>11, <2>12, <2>13, <2>14
    DEF Ran, Answered
  <2> QED BY <2>15, RanInv
<1>5. ASSUME up, pc' = "execute_read", UNCHANGED <<stmt, prep, open, last>>,
             NEW k \in {"err", "lock_err"}, NEW c, c \in 0..MaxCalls,
             Send(<<Packet(k, c, 0)>>), UNCHANGED <<executed, rows>>,
             \/ /\ stmt_id \in open /\ errored' = errored \cup {stmt_id}
                /\ c = prep[stmt_id]
             \/ stmt_id \notin open /\ UNCHANGED errored
      PROVE  IInv'
  <2>1. Coming' = Coming
    BY <1>5, SameComing
  <2>2. PICK p : p = Packet(k, c, 0)
    OBVIOUS
  <2>3. p \in Coming /\ p.kind = k /\ p.call = c
    BY <1>2, <1>5, <2>2, PacketType
  <2>4. PICK ps : ps = <<p>>
    OBVIOUS
  <2>5. ps \in Seq(Coming) /\ Send(ps)
    BY <1>5, <2>2, <2>3, <2>4
  <2>6. ASSUME ~torn PROVE ReadDue(ps)'
    <3>1. executed[call] = 0 /\ prep[stmt_id] = call /\ stmt_id \in open
      BY <1>1, <1>5, <2>6 DEF SyncOK
    <3>2. /\ executed'[call'] = 0 /\ call' = call /\ up' = up
          /\ ret_vecs' = <<>> /\ next_pkt' = "COLUMN_COUNT"
          /\ stmt_id' \in errored'
      BY <1>2, <1>5, <3>1 DEF stmt, Send
    <3>3. Matches(ps, <<k>>)'
      BY <1>5, <2>3, <2>4, <3>1, <3>2 DEF Matches
    <3>4. Due(<<k>>)'
      BY <3>2 DEF Due
    <3>5. <<k>> \in Answers
      BY DEF Answers
    <3> QED BY <3>3, <3>4, <3>5 DEF ReadDue
  <2>7. errored' \subseteq DOMAIN prep /\ errored \subseteq errored'
    BY <1>5 DEF TypeOK
  <2>8. Ran(ps)
    BY <1>1, <1>2, <1>5, <2>1, <2>5, <2>6, <2>7 DEF Ran, Answered
  <2> QED BY <2>8, RanInv
<1>6. stmt_id \in open => prep[stmt_id] \in 0..MaxCalls
  BY PrepType DEF TypeOK, Calls
<1>7. CASE ~(Gone /\ Return(FALSE) /\ UNCHANGED <<net, server, errored>>)
  <2>1. /\ up /\ pc' = "execute_read" /\ UNCHANGED <<stmt, prep, open, last>>
    BY <1>7 DEF SendExecute
  <2>2. CASE stmt_id \in open
    <3>1. ServerExecutes(stmt_id)
      BY <1>7, <2>2 DEF SendExecute
    <3> QED BY <1>4, <1>5, <1>6, <2>1, <2>2, <3>1 DEF ServerExecutes
  <2>3. CASE stmt_id \notin open
    <3>1. Send(<<Packet("err", call, 0)>>) /\ UNCHANGED <<executed, rows, errored>>
      BY <1>7, <2>3 DEF SendExecute
    <3> QED BY <1>2, <1>5, <2>1, <2>3, <3>1
  <2> QED BY <2>2, <2>3
<1> QED BY <1>3, <1>7

LEMMA ReadExecuteInv ==
  ASSUME IInv, ReadExecute
  PROVE  IInv'
<1> USE DEF IInv
<1>1. /\ pc = "execute_read" /\ pc \in InCall
      /\ UNCHANGED <<up, flight, server, errored, conn>>
  BY DEF ReadExecute, InCall, Reading
<1>2. CASE torn' = TRUE /\ Return(FALSE) /\ UNCHANGED avail
  <2>1. CallEnds(FALSE)
    BY <1>1, <1>2 DEF CallEnds, server
  <2> QED BY <2>1, EndsInv
<1>3. CASE /\ avail # <<>> /\ recv_part' = avail /\ avail' = <<>>
           /\ attempt_fetch_more' = TRUE /\ pc' = "execute_parse"
           /\ UNCHANGED <<call, kind, stmt_id, next_pkt, ret_vecs,
                          execute_retry_count, last, torn>>
  <2>1. Coming' = Coming /\ \A id : Later(id)' <=> Later(id)
    BY <1>1, <1>3, SameComing DEF server
  <2>2. <<>> \in Seq(Packets) /\ <<>> \in Seq(Coming)
    OBVIOUS
  <2>3. TypeOK'
    BY <1>1, <1>3, <2>2 DEF TypeOK, server, conn
  <2>4. SocketsOwned' /\ ValueTellsOutcome'
    BY <1>1, <1>3
    DEF SocketsOwned, ValueTellsOutcome, ValueIsOwn, server, conn
  <2>5. PlaceOK'
    BY <1>1, <1>3 DEF PlaceOK, InCall, Reading, Shake, server
  <2>6. CountOK'
    BY <1>1, <1>3 DEF CountOK, InCall, Reading, server
  <2>7. LastOK'
    BY <1>1, <1>3, <2>1, <2>2 DEF LastOK, InCall, Reading, server
  <2>8. Rest' = Rest
    <3>1. avail \in Seq(Coming) /\ flight \in Seq(Coming) /\ recv_part = <<>>
      BY <1>1 DEF LastOK, PlaceOK
    <3>2. <<>> \o flight = flight /\ <<>> \o (avail \o flight) = avail \o flight
      BY <3>1
    <3>3. Rest' = avail \o (<<>> \o flight) /\ Rest = <<>> \o (avail \o flight)
      BY <1>1, <1>3, <3>1 DEF Rest
    <3> QED BY <3>2, <3>3, Zenon
  <2>9. SyncOK'
    <3>1. ReadDue(Rest) => ReadDue(Rest)'
      BY <1>1, <1>3, <2>8 DEF ReadDue, Matches, Due, server
    <3> QED BY <1>1, <1>3, <3>1 DEF SyncOK, Reading, Shake, server
  <2> QED BY <2>3, <2>4, <2>5, <2>6, <2>7, <2>9
<1> QED BY <1>2, <1>3 DEF ReadExecute

-----------------------------------------------------------------------------
(* A packet of the answer is dealt with.                                   *)

\* What the first packet p of an expected answer leads to.
LEMMA OutcomeDue ==
  ASSUME NEW ks \in Answers, Due(ks), NEW p, p.kind = ks[1]
  PROVE  \/ ks = <<"err">> /\ Outcomes(p) = {"fail"}
         \/ ks = <<"lock_err">> /\ Outcomes(p) = {"retry"}
         \/ ks = <<"ok">> /\ Outcomes(p) = {"done"}
         \/ ks = <<"eof">> /\ Outcomes(p) = {"done"}
         \/ /\ ks \in {<<"count", "def", "eof">>,
                       <<"count", "def", "row", "eof">>}
            /\ Outcomes(p) = {"COLUMN_DEF"}
         \/ /\ ks \in {<<"def", "eof">>, <<"def", "row", "eof">>}
            /\ Outcomes(p) = {"ROW"}
         \/ ks = <<"row", "eof">> /\ Outcomes(p) = {"row"}
<1>1. CASE ks = <<"err">>
  BY <1>1 DEF Outcomes
<1>2. CASE ks = <<"lock_err">>
  BY <1>2 DEF Outcomes
<1>3. CASE ks = <<"ok">>
  BY <1>3 DEF Outcomes, Due
<1>4. CASE ks = <<"eof">>
  BY <1>4 DEF Outcomes
<1>5. CASE ks \in {<<"count", "def", "eof">>, <<"count", "def", "row", "eof">>}
  <2>1. next_pkt = "COLUMN_COUNT" /\ p.kind = "count"
    BY <1>5 DEF Due
  <2> QED BY <1>5, <2>1 DEF Outcomes
<1>6. CASE ks \in {<<"def", "eof">>, <<"def", "row", "eof">>}
  <2>1. next_pkt = "COLUMN_DEF" /\ p.kind = "def"
    BY <1>6 DEF Due
  <2> QED BY <1>6, <2>1 DEF Outcomes
<1>7. CASE ks = <<"row", "eof">>
  <2>1. next_pkt = "ROW" /\ p.kind = "row"
    BY <1>7 DEF Due
  <2> QED BY <1>7, <2>1 DEF Outcomes
<1> QED BY <1>1, <1>2, <1>3, <1>4, <1>5, <1>6, <1>7 DEF Answers

\* t is s without its first element.
Shifted(s, t) ==
  /\ Len(s) \in Nat /\ Len(t) \in Nat /\ Len(s) = Len(t) + 1
  /\ \A i \in 1..Len(t) : t[i] = s[i + 1]

LEMMA ShiftMatches ==
  ASSUME NEW s, NEW t, NEW ks, NEW kt, Shifted(s, t), Shifted(ks, kt),
         Matches(s, ks)
  PROVE  Matches(t, kt)
<1>1. Len(t) <= Len(kt) /\ (up => Len(t) = Len(kt))
  BY DEF Shifted, Matches
<1>2. ASSUME NEW i \in 1..Len(t)
      PROVE  t[i].kind = kt[i] /\ t[i].call = call
  <2>1. i + 1 \in 1..Len(s) /\ i \in 1..Len(kt)
    BY <1>1 DEF Shifted
  <2>2. s[i + 1].kind = ks[i + 1] /\ s[i + 1].call = call
    BY <2>1 DEF Matches
  <2> QED BY <2>1, <2>2 DEF Shifted
<1> QED BY <1>1, <1>2 DEF Matches

\* In step, the packet at hand is the first of the answer that is due, and
\* nothing follows an answer of one packet.
LEMMA PacketDue ==
  ASSUME IInv, pc = "execute_parse", ~torn
  PROVE  \E ks \in Answers :
           /\ Matches(Rest, ks) /\ Due(ks)
           /\ Head(recv_part).kind = ks[1] /\ Head(recv_part).call = call
           /\ Len(ks) = 1 => avail = <<>> /\ flight = <<>>
<1> USE DEF IInv
<1>1. PICK ks \in Answers : Matches(Rest, ks) /\ Due(ks)
  BY DEF SyncOK, Reading, ReadDue
<1>2. /\ recv_part \in Seq(Coming) /\ avail \in Seq(Coming)
      /\ flight \in Seq(Coming) /\ recv_part # <<>>
  BY DEF LastOK, PlaceOK
<1>3. avail \o flight \in Seq(Coming)
      /\ Len(avail \o flight) = Len(avail) + Len(flight)
  BY <1>2
<1>4. /\ Head(recv_part) = Rest[1]
      /\ Len(Rest) = Len(recv_part) + (Len(avail) + Len(flight))
  <2> DEFINE s == avail \o flight
  <2>1. s \in Seq(Coming) /\ Len(s) = Len(avail) + Len(flight) /\ Rest = recv_part \o s
    BY <1>3 DEF Rest
  <2> HIDE DEF s
  <2>2. Joins(recv_part, s, Coming)
    BY <1>2, <2>1, ConcatFacts
  <2>3. Head(recv_part) = recv_part[1] /\ 1 \in 1..Len(recv_part)
    BY <1>2
  <2> QED BY <2>1, <2>2, <2>3 DEF Joins
<1>5. Len(recv_part) \in Nat /\ Len(recv_part) > 0 /\ Len(avail) \in Nat
      /\ Len(flight) \in Nat
  BY <1>2
<1>6. 1 \in 1..Len(Rest)
  BY <1>4, <1>5
<1>7. Head(recv_part).kind = ks[1] /\ Head(recv_part).call = call
  BY <1>1, <1>4, <1>6 DEF Matches
<1>8. Len(ks) = 1 => avail = <<>> /\ flight = <<>>
  <2> SUFFICES ASSUME Len(ks) = 1 PROVE Len(avail) = 0 /\ Len(flight) = 0
    BY <1>2
  <2> QED BY <1>1, <1>4, <1>5 DEF Matches
<1> QED BY <1>1, <1>7, <1>8

LEMMA GoOnInv ==
  ASSUME IInv, pc = "execute_parse", NEW o \in Outcomes(Head(recv_part)),
         o \in {"COLUMN_DEF", "ROW", "row"}, GoOn(o),
         UNCHANGED <<net, server, errored, torn, conn>>
  PROVE  IInv'
<1> USE DEF IInv
<1> DEFINE p == Head(recv_part)
           got == IF o = "row" THEN Append(ret_vecs, p) ELSE ret_vecs
<1>1. /\ next_pkt' = IF o = "COLUMN_DEF" THEN "COLUMN_DEF" ELSE "ROW"
      /\ ret_vecs' = got /\ recv_part' = Tail(recv_part)
      /\ pc' = IF Len(recv_part) = 1 THEN "execute_read" ELSE "execute_parse"
      /\ UNCHANGED <<call, kind, stmt_id, attempt_fetch_more,
                     execute_retry_count, last>>
  BY DEF GoOn
<1>2. /\ recv_part \in Seq(Coming) /\ avail \in Seq(Coming)
      /\ flight \in Seq(Coming) /\ recv_part # <<>>
      /\ recv_part \in Seq(Packets) /\ ret_vecs \in Seq(Packets)
  BY DEF LastOK, PlaceOK, TypeOK
<1>3. p \in Packets /\ p \in Coming
  BY <1>2
<1>4. got \in Seq(Packets) /\ recv_part' \in Seq(Packets)
  BY <1>1, <1>2, <1>3
<1>5. recv_part' \in Seq(Coming) /\ Len(recv_part') = Len(recv_part) - 1
  BY <1>1, <1>2
<1>6. pc' = "execute_parse" <=> recv_part' # <<>>
  <2>1. recv_part' # <<>> <=> Len(recv_part') # 0
    BY <1>5
  <2>2. Len(recv_part) \in Nat
    BY <1>2
  <2> QED BY <1>1, <1>5, <2>1, <2>2
<1>7. Coming' = Coming /\ \A id : Later(id)' <=> Later(id)
  BY <1>1, SameComing DEF server
<1>8. pc' \in Reading /\ pc' \in InCall /\ pc \in InCall /\ pc \in Reading
  BY <1>1 DEF InCall, Reading
<1> HIDE DEF p, got
<1>9. TypeOK'
  BY <1>1, <1>4 DEF TypeOK, net, server, conn
<1>10. SocketsOwned' /\ ValueTellsOutcome'
  BY <1>1 DEF SocketsOwned, ValueTellsOutcome, ValueIsOwn, server, conn
<1>11. PlaceOK'
  BY <1>1, <1>6, <1>8 DEF PlaceOK, InCall, Reading, Shake, net, server
<1>12. CountOK'
  BY <1>1, <1>8 DEF CountOK, server
<1>13. LastOK'
  BY <1>1, <1>5, <1>7, <1>8 DEF LastOK, net, server
<1>14. SyncOK'
  <2> SUFFICES ASSUME ~torn PROVE SyncOK'
    BY DEF SyncOK
  <2>1. PICK ks \in Answers :
          /\ Matches(Rest, ks) /\ Due(ks)
          /\ p.kind = ks[1] /\ p.call = call
    BY PacketDue DEF p
  <2>2. PICK s, t : s = Rest /\ t = Rest'
    OBVIOUS
  <2>3. Shifted(s, t)
    <3> DEFINE b == avail \o flight
    <3>1. b \in Seq(Coming) /\ Rest = recv_part \o b /\ Rest' = Tail(recv_part) \o b
      BY <1>1, <1>2 DEF Rest, net
    <3> HIDE DEF b
    <3>2. /\ Len(Tail(recv_part) \o b) = Len(recv_part \o b) - 1
          /\ \A i \in 1..(Len(recv_part \o b) - 1) :
               (Tail(recv_part) \o b)[i] = (recv_part \o b)[i + 1]
      BY ONLY <1>2, <3>1, TakeFirst
    <3>3. /\ Len(recv_part \o b) = Len(recv_part) + Len(b)
          /\ Len(recv_part) > 0 /\ Len(recv_part) \in Nat /\ Len(b) \in Nat
      BY <1>2, <3>1
    <3> QED BY <2>2, <3>1, <3>2, <3>3 DEF Shifted
  <2>4. PICK kt \in Answers : Shifted(ks, kt) /\ Due(kt)'
    <3>1. /\ executed'[call'] = executed[call] /\ rows'[call'] = rows[call]
          /\ call' = call
      BY <1>1 DEF server
    <3>2. \/ /\ ks \in {<<"count", "def", "eof">>,
                        <<"count", "def", "row", "eof">>}
             /\ o = "COLUMN_DEF"
          \/ /\ ks \in {<<"def", "eof">>, <<"def", "row", "eof">>}
             /\ o = "ROW"
          \/ ks = <<"row", "eof">> /\ o = "row"
      BY <2>1, OutcomeDue DEF p
    <3>3. CASE ks = <<"count", "def", "eof">> /\ o = "COLUMN_DEF"
      <4>1. Shifted(ks, <<"def", "eof">>)
        BY <3>3 DEF Shifted
      <4>2. Due(<<"def", "eof">>)'
        BY <1>1, <2>1, <3>1, <3>3 DEF Due, got
      <4> QED BY <4>1, <4>2 DEF Answers
    <3>4. CASE ks = <<"count", "def", "row", "eof">> /\ o = "COLUMN_DEF"
      <4>1. Shifted(ks, <<"def", "row", "eof">>)
        BY <3>4 DEF Shifted
      <4>2. Due(<<"def", "row", "eof">>)'
        BY <1>1, <2>1, <3>1, <3>4 DEF Due, got
      <4> QED BY <4>1, <4>2 DEF Answers
    <3>5. CASE ks = <<"def", "eof">> /\ o = "ROW"
      <4>1. Shifted(ks, <<"eof">>)
        BY <3>5 DEF Shifted
      <4>2. Due(<<"eof">>)'
        BY <1>1, <2>1, <3>1, <3>5 DEF Due, got
      <4> QED BY <4>1, <4>2 DEF Answers
    <3>6. CASE ks = <<"def", "row", "eof">> /\ o = "ROW"
      <4>1. Shifted(ks, <<"row", "eof">>)
        BY <3>6 DEF Shifted
      <4>2. Due(<<"row", "eof">>)'
        BY <1>1, <2>1, <3>1, <3>6 DEF Due, got
      <4> QED BY <4>1, <4>2 DEF Answers
    <3>7. CASE ks = <<"row", "eof">> /\ o = "row"
      <4>1. Shifted(ks, <<"eof">>)
        BY <3>7 DEF Shifted
      <4>2. ret_vecs = <<>> /\ rows[call] = 1 /\ executed[call] = 1
        BY <2>1, <3>7 DEF Due
      <4>3. ret_vecs' = <<p>>
        BY <1>1, <1>3, <3>7, <4>2 DEF got
      <4>4. Len(ret_vecs') = 1 /\ \A i \in DOMAIN ret_vecs' : ret_vecs'[i].call = call
        BY <2>1, <4>3
      <4>5. Due(<<"eof">>)'
        BY <1>1, <3>1, <3>7, <4>2, <4>4 DEF Due
      <4> QED BY <4>1, <4>5 DEF Answers
    <3> QED BY <3>2, <3>3, <3>4, <3>5, <3>6, <3>7
  <2>5. Matches(t, kt)
    BY <2>1, <2>2, <2>3, <2>4, ShiftMatches
  <2>6. Matches(t, kt)'
    BY <1>1, <2>5 DEF Matches, net
  <2>7. ReadDue(Rest)'
    BY <2>2, <2>4, <2>6 DEF ReadDue, Matches
  <2>8. /\ stmt_id \in DOMAIN prep /\ prep[stmt_id] = call
        /\ open \ {stmt_id} \subseteq errored
    BY <1>8 DEF SyncOK
  <2> QED BY <1>1, <1>8, <2>7, <2>8 DEF SyncOK, Reading, Shake, server
<1> QED BY <1>9, <1>10, <1>11, <1>12, <1>13, <1>14

\* In step, an answer that ends with the packet at hand leaves nothing over.
LEMMA AnswerEnds ==
  ASSUME IInv, pc = "execute_parse", ~torn,
         NEW o \in Outcomes(Head(recv_part)),
         o \notin {"COLUMN_DEF", "ROW", "row"}
  PROVE  /\ avail = <<>> /\ flight = <<>> /\ open \ {stmt_id} \subseteq errored
         /\ \/ /\ o = "done" /\ executed[call] = 1
               /\ Len(ret_vecs) = rows[call]
               /\ \A i \in DOMAIN ret_vecs : ret_vecs[i].call = call
            \/ /\ o \in {"fail", "retry"} /\ executed[call] = 0
               /\ stmt_id \in errored
<1>1. PICK ks \in Answers :
        /\ Matches(Rest, ks) /\ Due(ks)
        /\ Head(recv_part).kind = ks[1]
        /\ Len(ks) = 1 => avail = <<>> /\ flight = <<>>
  BY PacketDue
<1>2. PICK p : p = Head(recv_part)
  OBVIOUS
<1>3. \/ ks = <<"err">> /\ o = "fail"
      \/ ks = <<"lock_err">> /\ o = "retry"
      \/ ks = <<"ok">> /\ o = "done"
      \/ ks = <<"eof">> /\ o = "done"
  <2>1. p.kind = ks[1] /\ o \in Outcomes(p)
    BY <1>1, <1>2
  <2> QED BY <1>1, <2>1, OutcomeDue
<1>4. avail = <<>> /\ flight = <<>>
  BY <1>1, <1>3
<1>5. open \ {stmt_id} \subseteq errored
  BY DEF IInv, SyncOK, Reading
<1>6. CASE o = "done"
  <2>1. ks = <<"ok">> \/ ks = <<"eof">>
    BY <1>3, <1>6
  <2>2. CASE ks = <<"ok">>
    BY <1>1, <1>4, <1>5, <1>6, <2>2 DEF Due
  <2>3. CASE ks = <<"eof">>
    BY <1>1, <1>4, <1>5, <1>6, <2>3 DEF Due
  <2> QED BY <2>1, <2>2, <2>3
<1>7. CASE o \in {"fail", "retry"}
  <2>1. ks = <<"err">> \/ ks = <<"lock_err">>
    BY <1>3, <1>7
  <2>2. CASE ks = <<"err">>
    BY <1>1, <1>4, <1>5, <1>7, <2>2 DEF Due
  <2>3. CASE ks = <<"lock_err">>
    BY <1>1, <1>4, <1>5, <1>7, <2>3 DEF Due
  <2> QED BY <2>1, <2>2, <2>3
<1> QED BY <1>3, <1>6, <1>7

LEMMA RetryInv ==
  ASSUME IInv, pc = "execute_parse", "retry" \in Outcomes(Head(recv_part)),
         Retry, UNCHANGED <<net, server, errored, torn, conn>>
  PROVE  IInv'
<1> USE DEF IInv
<1>1. ~torn => /\ avail = <<>> /\ flight = <<>> /\ open \subseteq errored
               /\ executed[call] = 0
  BY AnswerEnds
<1>2. torn \in BOOLEAN /\ pc \in InCall
  BY DEF TypeOK, InCall, Reading
<1>3. CASE execute_retry_count = CONNECTION_RETRY_COUNT_MAX
  <2>1. Return(FALSE)
    BY <1>3 DEF Retry
  <2>2. CallEnds(FALSE)
    BY <1>1, <1>2, <2>1 DEF CallEnds, net, server
  <2> QED BY <2>2, EndsInv
<1>4. CASE execute_retry_count # CONNECTION_RETRY_COUNT_MAX
  <2>1. /\ execute_retry_count' = execute_retry_count + 1
        /\ stmt_id' = 0 /\ next_pkt' = "COLUMN_COUNT"
        /\ attempt_fetch_more' = FALSE /\ recv_part' = <<>>
        /\ ret_vecs' = <<>> /\ pc' = "prepare"
        /\ UNCHANGED <<call, kind, last>>
    BY <1>4 DEF Retry, NoStmt
  <2>2. Coming' = Coming /\ \A id : Later(id)' <=> Later(id)
    BY <2>1, SameComing DEF server
  <2>3. /\ <<>> \in Seq(Packets) /\ <<>> \in Seq(Coming)
        /\ 0 \in 0..UnknownStmt
        /\ execute_retry_count' \in 0..CONNECTION_RETRY_COUNT_MAX
        /\ execute_retry_count \in Nat
    BY <1>4, <2>1, IdsType, ClientAssumption DEF TypeOK, UnknownStmt
  <2>4. TypeOK'
    BY <2>1, <2>3 DEF TypeOK, net, server, conn
  <2>5. SocketsOwned' /\ ValueTellsOutcome'
    BY <2>1 DEF SocketsOwned, ValueTellsOutcome, ValueIsOwn, server, conn
  <2>6. PlaceOK'
    BY <1>2, <2>1 DEF PlaceOK, InCall, Reading, Shake, net, server
  <2>7. CountOK'
    <3>1. Len(prep) <= (call - 1) * Tries + execute_retry_count + 1
      BY <1>2 DEF CountOK
    <3>2. (call - 1) * Tries \in Nat
      <4>1. call \in Nat /\ call > 0
        BY <1>2 DEF TypeOK, PlaceOK
      <4>2. call - 1 \in Nat /\ call - 1 < call
        BY <4>1
      <4> QED BY <4>1, <4>2, Products
    <3> DEFINE before == (call - 1) * Tries
    <3>3. before \in Nat /\ Len(prep) <= before + execute_retry_count + 1
      BY <3>1, <3>2
    <3> HIDE DEF before
    <3>4. Len(prep) <= before + execute_retry_count' + 0
      BY <2>1, <2>3, <3>3
    <3>5. Len(prep') <= (call' - 1) * Tries + execute_retry_count' + 0
      BY <2>1, <3>4 DEF before, server
    <3> QED BY <2>1, <3>5 DEF CountOK, InCall, server
  <2>8. LastOK'
    BY <1>2, <2>1, <2>2, <2>3 DEF LastOK, InCall, net, server
  <2>9. SyncOK'
    BY <1>1, <2>1 DEF SyncOK, Reading, Shake, net, server
  <2> QED BY <2>4, <2>5, <2>6, <2>7, <2>8, <2>9
<1> QED BY <1>3, <1>4

LEMMA ParsePacketInv ==
  ASSUME IInv, ParsePacket
  PROVE  IInv'
<1>1. pc = "execute_parse" /\ UNCHANGED <<net, errored, torn, conn>>
  BY DEF ParsePacket
<1>2. PICK o \in Outcomes(Head(recv_part)) :
        \/ o \in {"COLUMN_DEF", "ROW", "row"} /\ GoOn(o) /\ UNCHANGED server
        \/ o = "retry" /\ Retry /\ UNCHANGED server
        \/ /\ o \in {"done", "fail", "fail_close"}
           /\ Return(o = "done")
           /\ IF o = "fail" THEN UNCHANGED server ELSE CloseStmt
  BY DEF ParsePacket
<1>3. CASE o \in {"COLUMN_DEF", "ROW", "row"} /\ GoOn(o) /\ UNCHANGED server
  BY <1>1, <1>3, GoOnInv
<1>4. CASE o = "retry" /\ Retry /\ UNCHANGED server
  BY <1>1, <1>4, RetryInv
<1>5. CASE /\ o \in {"done", "fail", "fail_close"}
           /\ Return(o = "done")
           /\ IF o = "fail" THEN UNCHANGED server ELSE CloseStmt
  <2>1. PICK ok : ok = (o = "done")
    OBVIOUS
  <2>2. ok \in BOOLEAN /\ torn \in BOOLEAN /\ pc \in InCall
    BY <1>1, <2>1 DEF IInv, TypeOK, InCall, Reading
  <2>3. /\ UNCHANGED <<prep, executed, rows>> /\ open' \subseteq open
        /\ open' = open \/ open' = open \ {stmt_id}
        /\ o # "fail" => open' = open \ {stmt_id}
    BY <1>5 DEF server, CloseStmt
  <2>4. ~torn =>
          /\ avail = <<>> /\ flight = <<>>
          /\ open \ {stmt_id} \subseteq errored
          /\ \/ /\ o = "done" /\ executed[call] = 1
                /\ Len(ret_vecs) = rows[call]
                /\ \A i \in DOMAIN ret_vecs : ret_vecs[i].call = call
             \/ /\ o \in {"fail", "retry"} /\ executed[call] = 0
                /\ stmt_id \in errored
    BY <1>1, <1>5, AnswerEnds
  <2>5. ~torn => open' \subseteq errored
    BY <2>3, <2>4
  <2>6. Return(ok)
    BY <1>5, <2>1
  <2>7. CallEnds(ok)
    BY <1>1, <2>1, <2>2, <2>3, <2>4, <2>5, <2>6 DEF CallEnds, net
  <2> QED BY <2>2, <2>7, EndsInv
<1> QED BY <1>2, <1>3, <1>4, <1>5

-----------------------------------------------------------------------------
(* The theorems.                                                           *)

LEMMA NextInv == IInv /\ [Next]_vars => IInv'
<1> SUFFICES ASSUME IInv, [Next]_vars PROVE IInv'
  OBVIOUS
<1>1. CASE UNCHANGED vars
  <2> USE <1>1 DEF vars, net, stmt, server, conn
  <2>1. TypeOK' <=> TypeOK
    BY DEF TypeOK
  <2>2. /\ SocketsOwned' <=> SocketsOwned
        /\ ValueTellsOutcome' <=> ValueTellsOutcome
    BY DEF SocketsOwned, ValueTellsOutcome, ValueIsOwn
  <2>3. (PlaceOK' <=> PlaceOK) /\ (CountOK' <=> CountOK)
    BY DEF PlaceOK, CountOK
  <2>4. LastOK' <=> LastOK
    BY SameComing DEF LastOK
  <2>5. /\ PrepDue(avail \o flight)' <=> PrepDue(avail \o flight)
        /\ ReadDue(Rest)' <=> ReadDue(Rest)
    BY DEF PrepDue, ReadDue, Rest, Matches, Due
  <2>6. SyncOK' <=> SyncOK
    BY <2>5 DEF SyncOK
  <2> QED BY <2>1, <2>2, <2>3, <2>4, <2>6 DEF IInv
<1>2. CASE Next
  BY <1>2, ArriveInv, BreakInv, ConnectInv, DisconnectInv, CallInv, ShakeInv,
     SendPrepareInv, ReadPrepareInv, SendExecuteInv, ReadExecuteInv,
     ParsePacketInv
  DEF Next, ClientStep
<1> QED BY <1>1, <1>2

LEMMA InvariantHolds == Spec => []IInv
BY InitInv, NextInv, PTL DEF Spec

\* The variables of connect_msql and execute_stmt keep their types: no retry
\* past CONNECTION_RETRY_COUNT_MAX, no statement id the server did not give
\* out taken for one it did.
THEOREM TypeCorrect == Spec => []TypeOK
<1>1. IInv => TypeOK
  BY DEF IInv
<1> QED BY <1>1, InvariantHolds, PTL

\* connect_msql and ping_check close every descriptor they do not hand over,
\* except after an error of read() or write() in the handshake.
THEOREM SocketsAccounted == Spec => []SocketsOwned
<1>1. IInv => SocketsOwned
  BY DEF IInv
<1> QED BY <1>1, InvariantHolds, PTL

\* While no answer was torn, a value of execute_stmt means that its statement
\* ran exactly once and the rows are its own, and no value that it did not run
\* or that the connection was lost, whatever was retried.
THEOREM ValuesTellOutcomes == Spec => []ValueTellsOutcome
<1>1. IInv => ValueTellsOutcome
  BY DEF IInv
<1> QED BY <1>1, InvariantHolds, PTL

\* While no answer was torn, execute_stmt leaves open only statements that the
\* server answered with an error, and no packet for the next call.
THEOREM NothingIsLeft == Spec => []CallsLeaveNothing
<1>1. IInv => CallsLeaveNothing
  BY DEF IInv, SyncOK, CallsLeaveNothing
<1> QED BY <1>1, InvariantHolds, PTL
=============================================================================
