-------------------------- MODULE ConnectionProofs --------------------------
(***************************************************************************)
(* Proofs about Connection for any number of threads, destinations and     *)
(* descriptor numbers.  TLC follows a behaviour up to the first misuse of  *)
(* a socket; the theorems hold of all that comes after it as well.         *)
(***************************************************************************)
EXTENDS Connection, WellFoundedInduction, TLAPS

Numbers == Fds \cup {NoFd}

Handlers ==
  [pc : Pcs, conn_fd : Fds \cup {NoFd}, dest_conn_fd : Fds \cup {NoFd},
   socket_fd : Fds \cup {NoFd}, using_dest_conn_fd : BOOLEAN,
   port_dest : Dests \cup {"none"}, dest : Dests \cup {"none"},
   remaining_buffer : BOOLEAN,
   ticks : 0..THREAD_TIMEOUT_TICKS, msql : {"none", "valid", "invalid"},
   msql_fd : Fds \cup {NoFd}, new_fd : Fds \cup {NoFd},
   part : BOOLEAN, cut : BOOLEAN, asked : SUBSET Dests]

Forwards == {"write", "reconnect", "connect", "relay"}

\* The beginning of a request is lost only to a kept connection: while one
\* is tried, socket_fd is the number in dest_conn_fd.
Whole(r) ==
  /\ r.pc \notin Forwards => ~r.part /\ ~r.cut /\ r.using_dest_conn_fd
  /\ r.cut => ~r.using_dest_conn_fd /\ r.dest_conn_fd # NoFd
  /\ r.pc \in {"write", "relay"} /\ r.using_dest_conn_fd =>
       r.socket_fd = r.dest_conn_fd
  /\ r.pc = "reconnect" => r.socket_fd = r.dest_conn_fd
  /\ r.pc \in {"reconnect", "connect"} => ~r.using_dest_conn_fd
  /\ r.part /\ (r.using_dest_conn_fd \/ r.pc = "reconnect") =>
       r.dest_conn_fd # NoFd

\* What a handler with data r knows about its destination and its database.
Sane(r) == /\ r.pc # "idle" => r.port_dest \in Dests
           /\ r.pc \in Forwards => r.dest \in Dests /\ r.dest \in r.asked
           /\ r.pc = "assign" => r.msql # "valid"
           /\ r.pc = "ping" => r.msql = "valid"
           /\ r.pc = "connect" => r.socket_fd = NoFd
           /\ Whole(r)

Typed == TypeOK /\ \A t \in Threads : Sane(th[t])

Roles == {"client", "db", "dest"}

\* A handler with data r takes n for its socket of this role, and would use
\* or close it.  While a request is forwarded that is socket_fd; the number in
\* dest_conn_fd may be out of date then.
Has(r, n, role) ==
  \/ role = "client" /\ n = r.conn_fd /\ r.pc \notin {"idle", "cleanup_dest"}
  \/ role = "db" /\ n = r.new_fd /\ r.pc = "assign"
  \/ /\ role = "db" /\ n = r.msql_fd /\ r.msql = "valid"
     /\ r.pc \notin {"idle", "cleanup", "cleanup_dest"}
  \/ role = "dest" /\ n = r.socket_fd /\ r.pc \in {"write", "reconnect", "relay"}
  \/ role = "dest" /\ n = r.dest_conn_fd /\ r.pc \notin Forwards \cup {"idle"}

\* Whoever opened a socket takes its number for it, unless connect_msql has
\* lost it.
OwnedOK ==
  \A n \in Fds : file[n] # Closed =>
    \/ file[n].own = "main" /\ accepted = n
    \/ file[n].own \in Threads /\ Has(th[file[n].own], n, file[n].role)
    \/ file[n].role = "lost"

\* Until a number is left behind, what is taken for a socket is that socket.
HeldOK ==
  ~strayed =>
    /\ accepted # NoFd => Belongs(accepted, "main", "client")
    /\ \A t \in Threads : th[t].msql # "invalid"
    /\ \A t \in Threads, n \in Fds, role \in Roles :
         Has(th[t], n, role) => Belongs(n, t, role)

\* A handler with data r writes to a connection made for this request.
NewTo(r) == r.pc \in {"write", "relay"} /\ ~r.using_dest_conn_fd

\* The connections of a handler to a destination go where its client asked
\* for, and a new one where the request has to go.
PeersOK ==
  /\ \A n \in Fds : file[n].role = "dest" =>
       file[n].peer \in th[file[n].own].asked
  /\ \A t \in Threads : NewTo(th[t]) /\ Belongs(th[t].socket_fd, t, "dest") =>
       file[th[t].socket_fd].peer = th[t].dest

IInv == Typed /\ OwnedOK /\ HeldOK /\ PeersOK /\ MisuseHasCause

-----------------------------------------------------------------------------
(* Descriptor numbers.                                                     *)

LEMMA LowestIsFree ==
  ASSUME FreeFds # {}
  PROVE  LowestFree \in Fds /\ file[LowestFree] = Closed
<1>1. FreeFds \subseteq Nat
  BY BoundsAssumption DEF FreeFds, Fds
<1> DEFINE Less == {ss \in Nat \X Nat : ss[1] < ss[2]}
<1>2. IsWellFoundedOn(Less, Nat)
  BY NatLessThanWellFounded DEF OpToRel
<1> HIDE DEF Less
<1>3. PICK x \in FreeFds : \A y \in FreeFds : ~(<<y, x>> \in Less)
  BY <1>1, <1>2, WFMin, Zenon
<1>4. LowestFree \in FreeFds
  <2>1. \A y \in FreeFds : x <= y
    <3> SUFFICES ASSUME NEW y \in FreeFds PROVE x <= y
      OBVIOUS
    <3>1. x \in Nat /\ y \in Nat
      BY <1>1
    <3>2. y < x => <<y, x>> \in Less
      BY <3>1 DEF Less
    <3> QED BY <1>3, <3>1, <3>2
  <2>2. \E z \in FreeFds : \A y \in FreeFds : z <= y
    BY <2>1
  <2> QED BY <2>2, Zenon DEF LowestFree, Min
<1> QED BY <1>4 DEF FreeFds

LEMMA FreshType == Fresh \in Handlers
BY BoundsAssumption DEF Fresh, Handlers, Pcs

LEMMA InitTyped == Init => Typed
<1> SUFFICES ASSUME Init PROVE Typed
  OBVIOUS
<1>1. file \in [Fds -> Sockets]
  BY DEF Init, Sockets
<1>2. th \in [Threads -> Handlers]
  BY FreshType DEF Init
<1>3. TypeOK
  BY <1>1, <1>2 DEF Init, TypeOK, Handlers
<1> QED BY <1>3 DEF Init, Typed, Sane, Whole, Fresh, Forwards

LEMMA InitInv == Init => IInv
<1> SUFFICES ASSUME Init PROVE IInv
  OBVIOUS
<1>1. \A t \in Threads : \A n, role : ~Has(th[t], n, role)
  BY DEF Init, Has, Fresh, Forwards
<1>2. \A t \in Threads : th[t].msql = "none"
  BY DEF Init, Fresh
<1>3. \A n \in Fds : file[n] = Closed
  BY DEF Init
<1>4. Closed.role # "dest"
  BY DEF Closed
<1>5. PeersOK
  BY <1>3, <1>4 DEF PeersOK, Belongs
<1> QED BY <1>1, <1>2, <1>3, <1>5, InitTyped
           DEF Init, IInv, OwnedOK, HeldOK, MisuseHasCause

-----------------------------------------------------------------------------
(* What a step does to a handler and to the table of the kernel.           *)

\* Handler t goes on with data r.
Becomes(t, r) == th' = [th EXCEPT ![t] = r]

\* Number m is closed, or nothing if m is NoFd.
Shuts(m) == \/ file' = [file EXCEPT ![m] = Closed]
            \/ file' = file /\ m = NoFd

LEMMA HandlerType ==
  ASSUME Typed
  PROVE  /\ th \in [Threads -> Handlers] /\ file \in [Fds -> Sockets]
         /\ accepted \in Numbers /\ misused \in BOOLEAN /\ strayed \in BOOLEAN
         /\ \A t \in Threads : Sane(th[t])
BY DEF Typed, TypeOK, Handlers, Numbers

LEMMA NextTypedParts ==
  ASSUME th' \in [Threads -> Handlers], file' \in [Fds -> Sockets],
         accepted' \in Numbers, misused' \in BOOLEAN, strayed' \in BOOLEAN,
         \A t \in Threads : Sane(th'[t])
  PROVE  Typed'
BY DEF Typed, TypeOK, Handlers, Numbers

LEMMA NoFdIsNone == NoFd \notin Fds
BY BoundsAssumption DEF NoFd, Fds

LEMMA ShutFacts ==
  ASSUME Typed, NEW m, Shuts(m)
  PROVE  /\ file' \in [Fds -> Sockets]
         /\ \A n \in Fds : file'[n] = IF n = m THEN Closed ELSE file[n]
BY HandlerType, NoFdIsNone DEF Shuts, Sockets

LEMMA BecomesFacts ==
  ASSUME Typed, NEW t \in Threads, NEW r \in Handlers, Becomes(t, r), Sane(r)
  PROVE  /\ th' \in [Threads -> Handlers] /\ th'[t] = r
         /\ \A u \in Threads \ {t} : th'[u] = th[u]
         /\ \A u \in Threads : Sane(th'[u])
<1>1. th \in [Threads -> Handlers]
  BY HandlerType
<1>2. th'[t] = r /\ \A u \in Threads \ {t} : th'[u] = th[u]
  BY <1>1 DEF Becomes
<1> QED BY <1>1, <1>2, HandlerType DEF Becomes

\* HeldOK with the state as parameters.
Held(f, n, t, role) == n \in Fds /\ f[n].own = t /\ f[n].role = role

HeldIn(f, a, h) ==
  /\ a # NoFd => Held(f, a, "main", "client")
  /\ \A t \in Threads : h[t].msql # "invalid"
  /\ \A t \in Threads, n \in Fds, role \in Roles :
       Has(h[t], n, role) => Held(f, n, t, role)

LEMMA HeldUnfolds ==
  /\ HeldOK <=> (~strayed => HeldIn(file, accepted, th))
  /\ HeldOK' <=> (~strayed' => HeldIn(file', accepted', th'))
BY DEF HeldOK, Belongs, HeldIn, Held

\* PeersOK with the state as parameters.
PeersIn(f, h) ==
  /\ \A n \in Fds : f[n].role = "dest" => f[n].peer \in h[f[n].own].asked
  /\ \A t \in Threads :
       NewTo(h[t]) /\ Held(f, h[t].socket_fd, t, "dest") =>
         f[h[t].socket_fd].peer = h[t].dest

LEMMA PeersUnfolds ==
  /\ PeersOK <=> PeersIn(file, th)
  /\ PeersOK' <=> PeersIn(file', th')
BY DEF PeersOK, Belongs, PeersIn, Held

\* A handler with data h goes on with r and remembers its destinations.
Remembers(h, r) ==
  /\ h.asked \subseteq r.asked \/ (\A n \in Fds : ~Has(r, n, "dest"))
  /\ NewTo(r) => NewTo(h) /\ r.socket_fd = h.socket_fd /\ r.dest = h.dest

\* t goes on with data r and closes m, which it took for a socket of role0.
LEMMA ShutStep ==
  ASSUME IInv, NEW t \in Threads, NEW r \in Handlers, Sane(r), Becomes(t, r),
         NEW m \in Numbers, NEW role0 \in Roles, Shuts(m),
         UNCHANGED accepted, strayed => strayed',
         misused' \in BOOLEAN, strayed' \in BOOLEAN,
         Remembers(th[t], r),
         \A n \in Fds, role \in Roles :
           Has(th[t], n, role) /\ n # m => Has(r, n, role),
         ~strayed' =>
           /\ r.msql # "invalid"
           /\ m = NoFd \/ Has(th[t], m, role0)
           /\ \A n \in Fds, role \in Roles :
                Has(r, n, role) =>
                  Has(th[t], n, role) /\ (role = role0 => n # m)
  PROVE  Typed' /\ OwnedOK' /\ HeldOK' /\ PeersOK'
<1> USE DEF IInv
<1>1. Typed'
  BY HandlerType, ShutFacts, BecomesFacts, NextTypedParts
<1>2. /\ th'[t] = r /\ \A u \in Threads \ {t} : th'[u] = th[u]
      /\ \A n \in Fds : file'[n] = IF n = m THEN Closed ELSE file[n]
  BY ShutFacts, BecomesFacts
<1>3. \A n \in Fds : file[n] \in Sockets
  BY HandlerType
<1>4. \A n \in Fds : file[n] # Closed => file[n].role \in Roles \cup {"lost"}
  BY <1>3 DEF Sockets, Socket, Roles
<1>5. OwnedOK'
  <2> SUFFICES ASSUME NEW n \in Fds, file'[n] # Closed
               PROVE  \/ file'[n].own = "main" /\ accepted' = n
                      \/ /\ file'[n].own \in Threads
                         /\ Has(th'[file'[n].own], n, file'[n].role)
                      \/ file'[n].role = "lost"
    BY DEF OwnedOK
  <2>1. n # m /\ file'[n] = file[n] /\ file[n] # Closed
    BY <1>2
  <2>2. CASE file[n].own = "main" /\ accepted = n
    BY <2>1, <2>2
  <2>3. CASE file[n].own = t /\ Has(th[t], n, file[n].role)
    BY <1>2, <1>4, <2>1, <2>3 DEF Has
  <2>4. CASE /\ file[n].own \in Threads \ {t}
             /\ Has(th[file[n].own], n, file[n].role)
    BY <1>2, <2>1, <2>4
  <2>5. CASE file[n].role = "lost"
    BY <2>1, <2>5
  <2> QED BY <2>1, <2>2, <2>3, <2>4, <2>5 DEF OwnedOK
<1>6. HeldOK'
  <2> SUFFICES ASSUME ~strayed'
               PROVE  HeldIn(file', accepted', th')
    BY HeldUnfolds
  <2>0. HeldIn(file, accepted, th)
    BY HeldUnfolds
  <2>1. m = NoFd \/ Held(file, m, t, role0)
    BY <2>0 DEF HeldIn, Numbers
  <2>2. accepted' # NoFd => Held(file', accepted', "main", "client")
    <3>1. accepted # NoFd => Held(file, accepted, "main", "client")
      BY <2>0 DEF HeldIn
    <3>2. accepted # NoFd => accepted # m
      BY <2>1, <3>1, NamesAssumption DEF Held
    <3> QED BY <1>2, <3>1, <3>2 DEF Held
  <2>3. \A u \in Threads : th'[u].msql # "invalid"
    BY <1>2, <2>0 DEF HeldIn
  <2>4. ASSUME NEW u \in Threads, NEW n \in Fds, NEW role \in Roles,
               Has(th'[u], n, role)
        PROVE  Held(file', n, u, role)
    <3>1. Has(th[u], n, role) /\ Held(file, n, u, role)
      <4>1. Has(th[u], n, role)
        BY <1>2, <2>4
      <4> QED BY <4>1, <2>0 DEF HeldIn
    <3>2. n # m
      <4>1. CASE u = t
        BY <1>2, <2>1, <2>4, <3>1, <4>1, NoFdIsNone DEF Held
      <4>2. CASE u # t
        BY <2>1, <3>1, <4>2, NoFdIsNone DEF Held
      <4> QED BY <4>1, <4>2
    <3> QED BY <1>2, <3>1, <3>2 DEF Held
  <2> QED BY <2>2, <2>3, <2>4 DEF HeldIn
<1>7. PeersIn(file', th')
  <2>0. PeersIn(file, th)
    BY PeersUnfolds
  <2>1. Closed.role # "dest"
    BY DEF Closed
  <2>2. ASSUME NEW n \in Fds, file'[n].role = "dest"
        PROVE  file'[n].peer \in th'[file'[n].own].asked
    <3>1. n # m /\ file'[n] = file[n] /\ file[n] # Closed
      BY <1>2, <2>1, <2>2
    <3>2. file[n].peer \in th[file[n].own].asked
      BY <2>0, <2>2, <3>1 DEF PeersIn
    <3>3. file[n].own \in Threads
      BY <1>3, <2>2, <3>1 DEF Sockets, Socket
    <3>4. CASE file[n].own # t
      BY <1>2, <3>1, <3>2, <3>3, <3>4
    <3>5. CASE file[n].own = t
      <4>1. Has(r, n, "dest")
        <5>1. Has(th'[t], n, "dest")
          BY <1>5, <2>2, <3>1, <3>5, NamesAssumption DEF OwnedOK
        <5> QED BY <1>2, <5>1
      <4> QED BY <1>2, <3>1, <3>2, <3>5, <4>1 DEF Remembers
    <3> QED BY <3>4, <3>5
  <2>3. ASSUME NEW u \in Threads, NewTo(th'[u]),
               Held(file', th'[u].socket_fd, u, "dest")
        PROVE  file'[th'[u].socket_fd].peer = th'[u].dest
    <3>1. /\ NewTo(th[u]) /\ th'[u].socket_fd = th[u].socket_fd
          /\ th'[u].dest = th[u].dest
      BY <1>2, <2>3 DEF Remembers
    <3>2. /\ th[u].socket_fd \in Fds /\ th[u].socket_fd # m
          /\ file'[th[u].socket_fd] = file[th[u].socket_fd]
      BY <1>2, <2>1, <2>3, <3>1 DEF Held
    <3>3. Held(file, th[u].socket_fd, u, "dest")
      BY <2>3, <3>1, <3>2 DEF Held
    <3> QED BY <2>0, <3>1, <3>2, <3>3 DEF PeersIn
  <2> QED BY <2>2, <2>3 DEF PeersIn
<1> QED BY <1>1, <1>5, <1>6, <1>7, PeersUnfolds

\* t goes on with data r and opens socket `new' with number m.
Opens(t, r, m, new) ==
  /\ file[m] = Closed /\ new.own = t /\ new.role \in Roles \cup {"lost"}
  /\ file' = [file EXCEPT ![m] = new] /\ Becomes(t, r) /\ Sane(r)
  /\ UNCHANGED <<accepted, strayed>> /\ misused' \in BOOLEAN
  /\ th[t].asked \subseteq r.asked
  /\ new.role = "dest" => new.peer \in r.asked
  /\ NewTo(r) => r.socket_fd = m /\ new.peer = r.dest
  /\ ~strayed => r.msql # "invalid"
  /\ new.role = "lost" \/ Has(r, m, new.role)
  /\ \A n \in Fds, role \in Roles : Has(th[t], n, role) => Has(r, n, role)
  /\ \A n \in Fds, role \in Roles :
       Has(r, n, role) => Has(th[t], n, role) \/ (n = m /\ role = new.role)

LEMMA OpenStep ==
  ASSUME IInv, NEW t \in Threads, NEW r \in Handlers, NEW m \in Fds,
         NEW new \in Sockets, Opens(t, r, m, new)
  PROVE  Typed' /\ OwnedOK' /\ HeldOK' /\ PeersOK'
<1> USE DEF IInv, Opens
<1>1. /\ file' \in [Fds -> Sockets] /\ file'[m] = new
      /\ \A n \in Fds : n # m => file'[n] = file[n]
  BY HandlerType
<1>2. th'[t] = r /\ \A u \in Threads \ {t} : th'[u] = th[u]
  BY BecomesFacts
<1>3. Typed'
  BY <1>1, HandlerType, BecomesFacts, NextTypedParts
<1>5. \A n \in Fds : file[n] \in Sockets
  BY HandlerType
<1>6. \A n \in Fds : file[n] # Closed => file[n].role \in Roles \cup {"lost"}
  BY <1>5 DEF Sockets, Socket, Roles
<1>7. OwnedOK'
  <2> SUFFICES ASSUME NEW n \in Fds, file'[n] # Closed
               PROVE  \/ file'[n].own = "main" /\ accepted' = n
                      \/ /\ file'[n].own \in Threads
                         /\ Has(th'[file'[n].own], n, file'[n].role)
                      \/ file'[n].role = "lost"
    BY DEF OwnedOK
  <2>1. CASE n = m
    BY <1>1, <1>2, <2>1
  <2>2. CASE n # m
    <3>1. file'[n] = file[n] /\ file[n] # Closed
      BY <1>1, <2>2
    <3>2. CASE file[n].own = "main" /\ accepted = n
      BY <3>1, <3>2
    <3>3. CASE file[n].own = t /\ Has(th[t], n, file[n].role)
      BY <1>2, <1>6, <3>1, <3>3 DEF Has
    <3>4. CASE /\ file[n].own \in Threads \ {t}
               /\ Has(th[file[n].own], n, file[n].role)
      BY <1>2, <3>1, <3>4
    <3>5. CASE file[n].role = "lost"
      BY <3>1, <3>5
    <3> QED BY <3>1, <3>2, <3>3, <3>4, <3>5 DEF OwnedOK
  <2> QED BY <2>1, <2>2
<1>8. HeldOK'
  <2> SUFFICES ASSUME ~strayed'
               PROVE  HeldIn(file', accepted', th')
    BY HeldUnfolds
  <2>0. HeldIn(file, accepted, th)
    BY HeldUnfolds
  <2>1. file[m].role \notin Roles
    BY DEF Closed, Roles
  <2>2. accepted' # NoFd => Held(file', accepted', "main", "client")
    <3>1. accepted # NoFd => Held(file, accepted, "main", "client")
      BY <2>0 DEF HeldIn
    <3>2. accepted # NoFd => accepted \in Fds /\ accepted # m
      BY <2>1, <3>1 DEF Held, Roles
    <3> QED BY <1>1, <3>1, <3>2 DEF Held
  <2>3. \A u \in Threads : th'[u].msql # "invalid"
    BY <1>2, <2>0 DEF HeldIn
  <2>4. ASSUME NEW u \in Threads, NEW n \in Fds, NEW role \in Roles,
               Has(th'[u], n, role)
        PROVE  Held(file', n, u, role)
    <3>1. CASE Has(th[u], n, role)
      <4>1. Held(file, n, u, role)
        BY <2>0, <3>1 DEF HeldIn
      <4>2. n # m
        BY <2>1, <4>1 DEF Held
      <4> QED BY <1>1, <4>1, <4>2 DEF Held
    <3>2. CASE u = t /\ n = m /\ role = new.role
      BY <1>1, <3>2 DEF Held
    <3> QED BY <1>2, <2>4, <3>1, <3>2
  <2> QED BY <2>2, <2>3, <2>4 DEF HeldIn
<1>9. PeersIn(file', th')
  <2>0. PeersIn(file, th)
    BY PeersUnfolds
  <2>1. ASSUME NEW n \in Fds, file'[n].role = "dest"
        PROVE  file'[n].peer \in th'[file'[n].own].asked
    <3>1. CASE n = m
      BY <1>1, <1>2, <2>1, <3>1
    <3>2. CASE n # m
      <4>1. file'[n] = file[n]
        BY <1>1, <3>2
      <4>2. file[n].peer \in th[file[n].own].asked
        BY <2>0, <2>1, <4>1 DEF PeersIn
      <4>3. file[n].own \in Threads
        BY <1>5, <2>1, <4>1 DEF Sockets, Socket, Closed
      <4> QED BY <1>2, <4>1, <4>2, <4>3
    <3> QED BY <3>1, <3>2
  <2>2. ASSUME NEW u \in Threads, NewTo(th'[u]),
               Held(file', th'[u].socket_fd, u, "dest")
        PROVE  file'[th'[u].socket_fd].peer = th'[u].dest
    <3>1. CASE u = t
      BY <1>1, <1>2, <2>2, <3>1
    <3>2. CASE u # t
      <4>1. th'[u] = th[u]
        BY <1>2, <3>2
      <4>2. th[u].socket_fd \in Fds /\ th[u].socket_fd # m
        BY <1>1, <2>2, <3>2, <4>1 DEF Held
      <4>3. file'[th[u].socket_fd] = file[th[u].socket_fd]
        BY <1>1, <4>2
      <4>4. Held(file, th[u].socket_fd, u, "dest")
        BY <2>2, <4>1, <4>2, <4>3 DEF Held
      <4> QED BY <2>0, <2>2, <4>1, <4>3, <4>4 DEF PeersIn
    <3> QED BY <3>1, <3>2
  <2> QED BY <2>1, <2>2 DEF PeersIn
<1> QED BY <1>3, <1>7, <1>8, <1>9, PeersUnfolds

\* A handler that reads or writes what it takes for its socket misuses one
\* only after a number was left behind.
LEMMA UsesOK ==
  ASSUME IInv, NEW t \in Threads, NEW n \in Numbers, NEW role \in Roles,
         n = NoFd \/ Has(th[t], n, role), Uses(n, t, role),
         strayed => strayed'
  PROVE  MisuseHasCause' /\ misused' \in BOOLEAN
<1>1. ~strayed => misused' = misused
  <2>1. ~strayed /\ n # NoFd => Belongs(n, t, role)
    BY DEF IInv, HeldOK, Numbers
  <2>2. ~strayed => ~(IsOpen(n) /\ ~Belongs(n, t, role))
    BY <2>1, NoFdIsNone DEF IsOpen
  <2> QED BY <2>2, HandlerType DEF Uses, IInv
<1>2. misused' \in BOOLEAN
  BY Zenon DEF Uses
<1> QED BY <1>1, <1>2 DEF IInv, MisuseHasCause

\* The same when nothing is used.
LEMMA UsesNone ==
  ASSUME IInv, misused' = misused, strayed => strayed'
  PROVE  MisuseHasCause' /\ misused' \in BOOLEAN
BY HandlerType DEF IInv, MisuseHasCause

\* t only changes data that do not matter for its sockets.
Calm(h, r) == /\ Sane(r) /\ r.msql = h.msql /\ Remembers(h, r)
              /\ \A n \in Fds, role \in Roles :
                   Has(h, n, role) <=> Has(r, n, role)

LEMMA CalmStep ==
  ASSUME IInv, NEW t \in Threads, NEW r \in Handlers, Becomes(t, r),
         Calm(th[t], r), UNCHANGED <<file, accepted, strayed>>,
         MisuseHasCause', misused' \in BOOLEAN
  PROVE  IInv'
<1>1. Shuts(NoFd) /\ NoFd \in Numbers /\ "dest" \in Roles
  BY DEF Shuts, Numbers, Roles
<1>2. strayed' \in BOOLEAN
  BY HandlerType DEF IInv
<1>3. ~strayed' => r.msql # "invalid"
  BY DEF IInv, HeldOK, Calm
<1>4. Typed' /\ OwnedOK' /\ HeldOK' /\ PeersOK'
  BY <1>1, <1>2, <1>3, ShutStep, NoFdIsNone DEF Calm
<1> QED BY <1>4 DEF IInv

-----------------------------------------------------------------------------
(* Steps that open and close nothing.                                      *)

Quiet == {"poll", "gate", "ping", "respond", "unwind"}

LEMMA PcsAre ==
  /\ Quiet \cup Forwards \cup {"assign", "cleanup", "cleanup_dest"} \subseteq Pcs
  /\ 0 \in 0..THREAD_TIMEOUT_TICKS
  /\ NoFd \in Fds \cup {NoFd}
BY BoundsAssumption DEF Pcs, Quiet, Forwards

\* Handler data h and r say the same of the forwarding of requests.
SameForward(h, r) ==
  /\ r.part = h.part /\ r.cut = h.cut /\ r.asked = h.asked
  /\ r.using_dest_conn_fd = h.using_dest_conn_fd

LEMMA CalmData ==
  ASSUME NEW h \in Handlers, Sane(h), NEW r \in Handlers,
         h.pc \in Quiet, r.pc \in Quiet \ {"ping"},
         r.conn_fd = h.conn_fd, r.dest_conn_fd = h.dest_conn_fd,
         r.msql = h.msql, r.msql_fd = h.msql_fd, r.port_dest = h.port_dest,
         SameForward(h, r)
  PROVE  Calm(h, r)
<1>1. Sane(r)
  BY DEF Sane, Whole, Quiet, Forwards, SameForward
<1>a. Remembers(h, r)
  BY DEF Remembers, NewTo, Quiet, SameForward
<1>2. ASSUME NEW n \in Fds, NEW role \in Roles
      PROVE  Has(h, n, role) <=> Has(r, n, role)
  BY DEF Has, Quiet, Forwards
<1> QED BY <1>1, <1>a, <1>2 DEF Calm

LEMMA QuietRemembers ==
  ASSUME NEW h, NEW r, r.pc \notin {"write", "relay"}, r.asked = h.asked
  PROVE  Remembers(h, r)
BY DEF Remembers, NewTo

Calms(t) == \E r \in Handlers : Becomes(t, r) /\ Calm(th[t], r)

LEMMA LeaveCalm ==
  ASSUME Typed, NEW t \in Threads, th[t].pc \in Quiet, Leave(t)
  PROVE  Calms(t)
<1> DEFINE h == th[t]
           r == [h EXCEPT !.pc = "unwind", !.ticks = 0]
<1>1. h \in Handlers /\ Sane(h)
  BY HandlerType
<1>2. Becomes(t, r)
  BY HandlerType DEF Becomes, Leave
<1> HIDE DEF h
<1>3. r \in Handlers
  BY <1>1, PcsAre DEF Handlers, Quiet
<1>4. /\ r.pc = "unwind" /\ r.conn_fd = h.conn_fd
      /\ r.dest_conn_fd = h.dest_conn_fd /\ r.msql = h.msql
      /\ r.msql_fd = h.msql_fd /\ r.port_dest = h.port_dest
      /\ SameForward(h, r)
  BY <1>1 DEF Handlers, SameForward
<1> HIDE DEF r
<1>5. h.pc \in Quiet /\ r.pc \in Quiet \ {"ping"}
  BY <1>4 DEF Quiet, h
<1>6. Calm(h, r)
  BY <1>1, <1>3, <1>4, <1>5, CalmData
<1> QED BY <1>2, <1>3, <1>6 DEF Calms, h

LEMMA PcCalm ==
  ASSUME Typed, NEW t \in Threads, th[t].pc \in Quiet,
         NEW pc \in Quiet \ {"ping"}, th' = [th EXCEPT ![t].pc = pc]
  PROVE  Calms(t)
<1> DEFINE h == th[t]
           r == [h EXCEPT !.pc = pc]
<1>1. h \in Handlers /\ Sane(h)
  BY HandlerType
<1>2. Becomes(t, r)
  BY HandlerType DEF Becomes
<1> HIDE DEF h
<1>3. r \in Handlers
  BY <1>1, PcsAre DEF Handlers, Quiet
<1>4. /\ r.pc = pc /\ r.conn_fd = h.conn_fd
      /\ r.dest_conn_fd = h.dest_conn_fd /\ r.msql = h.msql
      /\ r.msql_fd = h.msql_fd /\ r.port_dest = h.port_dest
      /\ SameForward(h, r)
  BY <1>1 DEF Handlers, SameForward
<1> HIDE DEF r
<1>5. h.pc \in Quiet /\ r.pc \in Quiet \ {"ping"}
  BY <1>4 DEF Quiet, h
<1>6. Calm(h, r)
  BY <1>1, <1>3, <1>4, <1>5, CalmData
<1> QED BY <1>2, <1>3, <1>6 DEF Calms, h

LEMMA TickCalm ==
  ASSUME Typed, NEW t \in Threads, th[t].pc \in Quiet,
         th[t].pc = "poll", th[t].ticks < THREAD_TIMEOUT_TICKS,
         th' = [th EXCEPT ![t].ticks = @ + 1]
  PROVE  Calms(t)
<1> DEFINE h == th[t]
           r == [h EXCEPT !.ticks = h.ticks + 1]
<1>1. h \in Handlers /\ Sane(h)
  BY HandlerType
<1>2. Becomes(t, r)
  BY HandlerType DEF Becomes
<1>a. h.ticks + 1 \in 0..THREAD_TIMEOUT_TICKS
  <2>1. h.ticks \in 0..THREAD_TIMEOUT_TICKS
    BY <1>1 DEF Handlers
  <2> QED BY <2>1, BoundsAssumption
<1> HIDE DEF h
<1>3. r \in Handlers
  BY <1>1, <1>a, PcsAre DEF Handlers, Quiet
<1>4. /\ r.pc = h.pc /\ r.conn_fd = h.conn_fd
      /\ r.dest_conn_fd = h.dest_conn_fd /\ r.msql = h.msql
      /\ r.msql_fd = h.msql_fd /\ r.port_dest = h.port_dest
      /\ SameForward(h, r)
  BY <1>1 DEF Handlers, SameForward
<1> HIDE DEF r
<1>5. h.pc \in Quiet /\ r.pc \in Quiet \ {"ping"}
  BY <1>4 DEF Quiet, h
<1>6. Calm(h, r)
  BY <1>1, <1>3, <1>4, <1>5, CalmData
<1> QED BY <1>2, <1>3, <1>6 DEF Calms, h

LEMMA FlushedCalm ==
  ASSUME Typed, NEW t \in Threads, th[t].pc \in Quiet,
         th[t].pc = "poll",
         th' = [th EXCEPT ![t].remaining_buffer = FALSE, ![t].ticks = 0]
  PROVE  Calms(t)
<1> DEFINE h == th[t]
           r == [h EXCEPT !.remaining_buffer = FALSE, !.ticks = 0]
<1>1. h \in Handlers /\ Sane(h)
  BY HandlerType
<1>2. Becomes(t, r)
  BY HandlerType DEF Becomes
<1> HIDE DEF h
<1>3. r \in Handlers
  BY <1>1, PcsAre DEF Handlers, Quiet
<1>4. /\ r.pc = h.pc /\ r.conn_fd = h.conn_fd
      /\ r.dest_conn_fd = h.dest_conn_fd /\ r.msql = h.msql
      /\ r.msql_fd = h.msql_fd /\ r.port_dest = h.port_dest
      /\ SameForward(h, r)
  BY <1>1 DEF Handlers, SameForward
<1> HIDE DEF r
<1>5. h.pc \in Quiet /\ r.pc \in Quiet \ {"ping"}
  BY <1>4 DEF Quiet, h
<1>6. Calm(h, r)
  BY <1>1, <1>3, <1>4, <1>5, CalmData
<1> QED BY <1>2, <1>3, <1>6 DEF Calms, h

LEMMA RequestCalm ==
  ASSUME Typed, NEW t \in Threads, th[t].pc \in Quiet,
         th' = [th EXCEPT ![t].pc = "gate", ![t].ticks = 0]
  PROVE  Calms(t)
<1> DEFINE h == th[t]
           r == [h EXCEPT !.pc = "gate", !.ticks = 0]
<1>1. h \in Handlers /\ Sane(h)
  BY HandlerType
<1>2. Becomes(t, r)
  BY HandlerType DEF Becomes
<1> HIDE DEF h
<1>3. r \in Handlers
  BY <1>1, PcsAre DEF Handlers, Quiet
<1>4. /\ r.pc = "gate" /\ r.conn_fd = h.conn_fd
      /\ r.dest_conn_fd = h.dest_conn_fd /\ r.msql = h.msql
      /\ r.msql_fd = h.msql_fd /\ r.port_dest = h.port_dest
      /\ SameForward(h, r)
  BY <1>1 DEF Handlers, SameForward
<1> HIDE DEF r
<1>5. h.pc \in Quiet /\ r.pc \in Quiet \ {"ping"}
  BY <1>4 DEF Quiet, h
<1>6. Calm(h, r)
  BY <1>1, <1>3, <1>4, <1>5, CalmData
<1> QED BY <1>2, <1>3, <1>6 DEF Calms, h

LEMMA RespondCalm ==
  ASSUME Typed, NEW t \in Threads, th[t].pc \in Quiet,
         NEW b \in BOOLEAN,
         th' = [th EXCEPT ![t].pc = "poll", ![t].remaining_buffer = b]
  PROVE  Calms(t)
<1> DEFINE h == th[t]
           r == [h EXCEPT !.pc = "poll", !.remaining_buffer = b]
<1>1. h \in Handlers /\ Sane(h)
  BY HandlerType
<1>2. Becomes(t, r)
  BY HandlerType DEF Becomes
<1> HIDE DEF h
<1>3. r \in Handlers
  BY <1>1, PcsAre DEF Handlers, Quiet
<1>4. /\ r.pc = "poll" /\ r.conn_fd = h.conn_fd
      /\ r.dest_conn_fd = h.dest_conn_fd /\ r.msql = h.msql
      /\ r.msql_fd = h.msql_fd /\ r.port_dest = h.port_dest
      /\ SameForward(h, r)
  BY <1>1 DEF Handlers, SameForward
<1> HIDE DEF r
<1>5. h.pc \in Quiet /\ r.pc \in Quiet \ {"ping"}
  BY <1>4 DEF Quiet, h
<1>6. Calm(h, r)
  BY <1>1, <1>3, <1>4, <1>5, CalmData
<1> QED BY <1>2, <1>3, <1>6 DEF Calms, h

LEMMA ForwardCalm ==
  ASSUME Typed, NEW t \in Threads, th[t].pc \in Quiet,
         NEW d \in DestsOf(t),
         th' = [th EXCEPT ![t].pc = "write", ![t].dest = d,
                          ![t].asked = @ \cup {d},
                          ![t].socket_fd = th[t].dest_conn_fd]
  PROVE  Calms(t)
<1> DEFINE h == th[t]
           r == [h EXCEPT !.pc = "write", !.dest = d,
                          !.asked = h.asked \cup {d},
                          !.socket_fd = h.dest_conn_fd]
<1>1. h \in Handlers /\ Sane(h) /\ h.pc \in Quiet
  BY HandlerType
<1>2. Becomes(t, r)
  BY HandlerType DEF Becomes
<1>3. d \in Dests
  BY <1>1 DEF DestsOf, Sane, Quiet
<1> HIDE DEF h
<1>4. r \in Handlers
  <2>1. "write" \in Pcs
    BY PcsAre DEF Forwards
  <2> QED BY <1>1, <1>3, <2>1 DEF Handlers
<1>5. /\ r.pc = "write" /\ r.conn_fd = h.conn_fd /\ r.dest = d
      /\ r.socket_fd = h.dest_conn_fd /\ r.msql = h.msql
      /\ r.msql_fd = h.msql_fd /\ r.port_dest = h.port_dest
      /\ r.dest_conn_fd = h.dest_conn_fd /\ r.asked = h.asked \cup {d}
      /\ r.part = h.part /\ r.cut = h.cut
      /\ r.using_dest_conn_fd = h.using_dest_conn_fd
  BY <1>1 DEF Handlers
<1> HIDE DEF r
<1>6. Sane(r)
  BY <1>1, <1>3, <1>5 DEF Sane, Whole, Quiet, Forwards
<1>a. Remembers(h, r)
  BY <1>1, <1>5 DEF Remembers, NewTo, Sane, Whole, Quiet, Forwards
<1>7. ASSUME NEW n \in Fds, NEW role \in Roles
      PROVE  Has(h, n, role) <=> Has(r, n, role)
  BY <1>1, <1>5 DEF Has, Quiet, Forwards
<1>8. Calm(h, r)
  BY <1>5, <1>6, <1>7, <1>a DEF Calm
<1> QED BY <1>2, <1>4, <1>8 DEF Calms, h

\* Whatever the gate decides.
LEMMA AnswerCalm ==
  ASSUME Typed, NEW t \in Threads, th[t].pc \in Quiet, AnswerOrForward(t)
  PROVE  Calms(t)
<1>1. "respond" \in Quiet \ {"ping"} /\ "poll" \in Quiet \ {"ping"}
  BY DEF Quiet
<1> QED BY <1>1, PcCalm, ForwardCalm DEF AnswerOrForward, Forward

\* What a handler between two requests has.
LEMMA QuietHas ==
  ASSUME Typed, NEW t \in Threads, th[t].pc \in Quiet
  PROVE  /\ th[t].conn_fd \in Numbers /\ th[t].msql_fd \in Numbers
         /\ Has(th[t], th[t].conn_fd, "client")
         /\ th[t].msql = "valid" => Has(th[t], th[t].msql_fd, "db")
         /\ "client" \in Roles /\ "db" \in Roles /\ "dest" \in Roles
<1>1. th[t] \in Handlers
  BY HandlerType
<1>2. th[t].conn_fd \in Numbers /\ th[t].msql_fd \in Numbers
  BY <1>1 DEF Handlers, Numbers
<1> QED BY <1>2 DEF Has, Quiet, Roles

LEMMA PollStep ==
  ASSUME IInv, NEW t \in Threads,
         FlushBuffer(t) \/ ReadNothing(t) \/ ReadEnds(t) \/ ReadRequest(t)
  PROVE  IInv'
<1>1. Typed /\ th[t].pc = "poll" /\ th[t].pc \in Quiet
  BY DEF IInv, FlushBuffer, ReadNothing, ReadEnds, ReadRequest, Turn, Quiet
<1>2. Calms(t)
  <2>1. CASE FlushBuffer(t)
    BY <1>1, <2>1, TickCalm, FlushedCalm, LeaveCalm DEF FlushBuffer, Turn
  <2>2. CASE ReadNothing(t)
    BY <1>1, <2>2, TickCalm DEF ReadNothing, Turn
  <2>3. CASE ReadEnds(t)
    BY <1>1, <2>3, LeaveCalm DEF ReadEnds
  <2>4. CASE ReadRequest(t)
    BY <1>1, <2>4, RequestCalm DEF ReadRequest
  <2> QED BY <2>1, <2>2, <2>3, <2>4
<1>3. Uses(th[t].conn_fd, t, "client") /\ UNCHANGED <<file, accepted, strayed>>
  BY DEF FlushBuffer, ReadNothing, ReadEnds, ReadRequest
<1>4. MisuseHasCause' /\ misused' \in BOOLEAN
  BY <1>1, <1>3, QuietHas, UsesOK
<1> QED BY <1>2, <1>3, <1>4, CalmStep DEF Calms

LEMMA DecideStep ==
  ASSUME IInv, NEW t \in Threads,
         TimedOut(t) \/ Decide(t) \/ DecideMsql(t) \/ Respond(t)
  PROVE  IInv'
<1>1. Typed /\ th[t].pc \in Quiet
  BY DEF IInv, TimedOut, Decide, DecideMsql, Respond, Quiet
<1>2. Calms(t)
  <2>1. CASE TimedOut(t)
    BY <1>1, <2>1, LeaveCalm DEF TimedOut
  <2>2. CASE Decide(t) \/ DecideMsql(t)
    BY <1>1, <2>2, AnswerCalm DEF Decide, DecideMsql
  <2>3. CASE Respond(t)
    BY <1>1, <2>3, LeaveCalm, RespondCalm DEF Respond
  <2> QED BY <2>1, <2>2, <2>3
<1>3. UNCHANGED <<file, accepted, strayed>>
  BY DEF TimedOut, Decide, DecideMsql, Respond
<1>4. MisuseHasCause' /\ misused' \in BOOLEAN
  <2>1. CASE TimedOut(t) \/ Decide(t)
    BY <1>3, <2>1, UsesNone DEF TimedOut, Decide
  <2>2. CASE DecideMsql(t)
    BY <1>1, <1>3, <2>2, QuietHas, UsesOK DEF DecideMsql
  <2>3. CASE Respond(t)
    BY <1>1, <1>3, <2>3, QuietHas, UsesOK DEF Respond
  <2> QED BY <2>1, <2>2, <2>3
<1> QED BY <1>2, <1>3, <1>4, CalmStep DEF Calms

-----------------------------------------------------------------------------
(* The MySQL connection.                                                   *)

LEMMA ConnectMsqlStep ==
  ASSUME IInv, NEW t \in Threads, ConnectMsql(t)
  PROVE  IInv'
<1> DEFINE h == th[t]
<1>1. Typed /\ h \in Handlers /\ Sane(h) /\ h.pc = "gate" /\ h.msql # "valid"
  BY HandlerType DEF IInv, ConnectMsql
<1>2. MisuseHasCause' /\ misused' \in BOOLEAN
  BY UsesNone DEF ConnectMsql
<1>3. UNCHANGED <<accepted, strayed>> /\ strayed' \in BOOLEAN
  BY HandlerType DEF ConnectMsql, IInv
<1>4. ~strayed => h.msql # "invalid"
  BY DEF IInv, HeldOK
<1>5. CASE /\ FreeFds # {}
           /\ file' = [file EXCEPT ![LowestFree] = Socket(t, "db", "db")]
           /\ th' = [th EXCEPT ![t].pc = "assign", ![t].new_fd = LowestFree]
  <2> DEFINE m == LowestFree
             r == [h EXCEPT !.pc = "assign", !.new_fd = m]
             new == Socket(t, "db", "db")
  <2>1. m \in Fds /\ file[m] = Closed
    BY <1>5, LowestIsFree
  <2>2. Becomes(t, r)
    BY <1>5, <1>1, HandlerType DEF Becomes
  <2>3. new \in Sockets /\ "db" \in Roles /\ new.own = t /\ new.role = "db"
    BY DEF Sockets, Socket, Roles
  <2>5. file' = [file EXCEPT ![m] = new]
    BY <1>5
  <2> HIDE DEF h, m, new
  <2>6. r \in Handlers
    BY <1>1, <2>1, PcsAre DEF Handlers
  <2>7. /\ r.pc = "assign" /\ r.new_fd = m /\ r.conn_fd = h.conn_fd
        /\ r.dest_conn_fd = h.dest_conn_fd /\ r.msql = h.msql
        /\ r.msql_fd = h.msql_fd /\ r.port_dest = h.port_dest
        /\ SameForward(h, r)
    BY <1>1 DEF Handlers, SameForward
  <2> HIDE DEF r
  <2>8. Sane(r)
    BY <1>1, <2>7 DEF Sane, Whole, Forwards, SameForward
  <2>9. Has(r, m, "db")
    BY <2>7 DEF Has
  <2>10. ASSUME NEW n \in Fds, NEW role \in Roles
         PROVE  /\ Has(h, n, role) => Has(r, n, role)
                /\ Has(r, n, role) => Has(h, n, role) \/ (n = m /\ role = "db")
    BY <1>1, <2>7 DEF Has, Forwards
  <2>11. /\ th[t].asked \subseteq r.asked /\ ~NewTo(r)
         /\ ~strayed => r.msql # "invalid"
         /\ \A n \in Fds, role \in Roles :
              Has(th[t], n, role) => Has(r, n, role)
         /\ \A n \in Fds, role \in Roles :
              Has(r, n, role) => Has(th[t], n, role) \/ (n = m /\ role = "db")
    BY <1>4, <2>3, <2>7, <2>10 DEF h, NewTo, SameForward
  <2>12. Opens(t, r, m, new)
    BY <1>2, <1>3, <2>1, <2>2, <2>3, <2>5, <2>8, <2>9, <2>11 DEF Opens
  <2> QED BY <1>2, <2>1, <2>3, <2>6, <2>12, OpenStep DEF IInv
<1>6. CASE /\ th' = [th EXCEPT ![t].pc = "respond", ![t].msql = "none",
                               ![t].msql_fd = NoFd]
           /\ \/ UNCHANGED file
              \/ /\ FreeFds # {}
                 /\ file' = [file EXCEPT ![LowestFree] =
                                Socket(t, "lost", "db")]
  <2> DEFINE r == [h EXCEPT !.pc = "respond", !.msql = "none", !.msql_fd = NoFd]
  <2>1. Becomes(t, r)
    BY <1>6, <1>1, HandlerType DEF Becomes
  <2> HIDE DEF h
  <2>3. r \in Handlers
    <3>1. "respond" \in Pcs
      BY PcsAre DEF Quiet
    <3> QED BY <1>1, <3>1 DEF Handlers
  <2>4. /\ r.pc = "respond" /\ r.conn_fd = h.conn_fd
        /\ r.dest_conn_fd = h.dest_conn_fd /\ r.msql = "none"
        /\ r.port_dest = h.port_dest /\ SameForward(h, r)
    BY <1>1 DEF Handlers, SameForward
  <2> HIDE DEF r
  <2>5. Sane(r)
    BY <1>1, <2>4 DEF Sane, Whole, Forwards, SameForward
  <2>6. ASSUME NEW n \in Fds, NEW role \in Roles
        PROVE  Has(h, n, role) <=> Has(r, n, role)
    BY <1>1, <2>4 DEF Has, Forwards
  <2>7. CASE UNCHANGED file
    <3>1. Shuts(NoFd) /\ NoFd \in Numbers /\ "db" \in Roles
      BY <2>7 DEF Shuts, Numbers, Roles
    <3>2. Remembers(h, r)
      BY <2>4, QuietRemembers DEF SameForward
    <3>3. Typed' /\ OwnedOK' /\ HeldOK' /\ PeersOK'
      BY <1>2, <1>3, <2>1, <2>3, <2>4, <2>5, <2>6, <3>1, <3>2, ShutStep,
         NoFdIsNone DEF h
    <3> QED BY <1>2, <3>3 DEF IInv
  <2>8. CASE /\ FreeFds # {}
             /\ file' = [file EXCEPT ![LowestFree] = Socket(t, "lost", "db")]
    <3> DEFINE m == LowestFree
               new == Socket(t, "lost", "db")
    <3>1. m \in Fds /\ file[m] = Closed
      BY <2>8, LowestIsFree
    <3>2. new \in Sockets /\ new.own = t /\ new.role = "lost"
      BY DEF Sockets, Socket
    <3>3. file' = [file EXCEPT ![m] = new]
      BY <2>8
    <3> HIDE DEF m, new
    <3>4. /\ th[t].asked \subseteq r.asked /\ ~NewTo(r)
          /\ ~strayed => r.msql # "invalid"
          /\ \A n \in Fds, role \in Roles :
               Has(th[t], n, role) <=> Has(r, n, role)
      BY <2>4, <2>6 DEF h, NewTo, SameForward
    <3>5. Opens(t, r, m, new)
      BY <1>2, <1>3, <2>1, <2>5, <3>1, <3>2, <3>3, <3>4 DEF Opens
    <3> QED BY <1>2, <2>3, <3>1, <3>2, <3>5, OpenStep DEF IInv
  <2> QED BY <1>6, <2>7, <2>8
<1> QED BY <1>5, <1>6 DEF ConnectMsql

\* When the old connection is invalid a number was left behind already, and
\* the move may close anything, even the socket it has just opened.
LEMMA AssignMsqlStep ==
  ASSUME IInv, NEW t \in Threads, AssignMsql(t)
  PROVE  IInv'
<1> DEFINE h == th[t]
           r == [h EXCEPT !.pc = "ping", !.msql = "valid",
                          !.msql_fd = h.new_fd, !.new_fd = NoFd]
           m == IF h.msql = "invalid" THEN h.msql_fd ELSE NoFd
<1>1. Typed /\ h \in Handlers /\ Sane(h) /\ h.pc = "assign"
  BY HandlerType DEF IInv, AssignMsql
<1>2. ~strayed => h.msql # "invalid"
  BY DEF IInv, HeldOK
<1>3. UNCHANGED <<accepted, strayed>> /\ strayed' \in BOOLEAN
  BY HandlerType DEF AssignMsql, IInv
<1>4. MisuseHasCause' /\ misused' \in BOOLEAN
  <2>1. misused' = (misused \/ (h.msql = "invalid" /\ IsOpen(h.msql_fd)))
    BY DEF AssignMsql
  <2>2. misused' \in BOOLEAN
    BY <2>1, Zenon
  <2> HIDE DEF h
  <2>3. misused' => misused \/ h.msql = "invalid"
    BY <2>1
  <2> QED BY <1>2, <1>3, <2>2, <2>3 DEF MisuseHasCause, IInv
<1>5. Becomes(t, r)
  BY HandlerType, <1>1 DEF Becomes, AssignMsql
<1>6. Shuts(m)
  BY DEF AssignMsql, Shuts
<1>7. m \in Numbers
  BY <1>1 DEF Handlers, Numbers
<1> HIDE DEF h
<1>8. r \in Handlers
  <2>1. "ping" \in Pcs
    BY PcsAre DEF Quiet
  <2> QED BY <1>1, <2>1 DEF Handlers
<1>9. /\ r.pc = "ping" /\ r.conn_fd = h.conn_fd /\ r.msql_fd = h.new_fd
      /\ r.dest_conn_fd = h.dest_conn_fd /\ r.msql = "valid"
      /\ r.port_dest = h.port_dest /\ SameForward(h, r)
  BY <1>1 DEF Handlers, SameForward
<1> HIDE DEF r
<1>10. Sane(r) /\ Remembers(h, r)
  BY <1>1, <1>9, QuietRemembers DEF Sane, Whole, Forwards, SameForward
<1>11. ASSUME NEW n \in Fds, NEW role \in Roles
       PROVE  Has(h, n, role) <=> Has(r, n, role)
  BY <1>1, <1>9 DEF Has, Forwards, Sane
<1>12. ~strayed' => m = NoFd
  BY <1>2, <1>3
<1> HIDE DEF m
<1>13. "db" \in Roles
  BY DEF Roles
<1>14. Typed' /\ OwnedOK' /\ HeldOK' /\ PeersOK'
  BY <1>3, <1>4, <1>5, <1>6, <1>7, <1>8, <1>9, <1>10, <1>11, <1>12, <1>13,
     ShutStep, NoFdIsNone DEF h
<1> QED BY <1>4, <1>14 DEF IInv

LEMMA PingCheckStep ==
  ASSUME IInv, NEW t \in Threads, PingCheck(t)
  PROVE  IInv'
<1> DEFINE h == th[t]
           m == h.msql_fd
<1>1. Typed /\ h \in Handlers /\ Sane(h) /\ h.pc = "ping" /\ h.pc \in Quiet
  BY HandlerType DEF IInv, PingCheck, Quiet
<1>2. h.msql = "valid"
  BY <1>1 DEF Sane
<1>3. strayed => strayed'
  BY DEF PingCheck
<1>4. MisuseHasCause' /\ misused' \in BOOLEAN
  BY <1>1, <1>2, <1>3, QuietHas, UsesOK DEF PingCheck
<1>5. CASE AnswerOrForward(t) /\ UNCHANGED <<file, strayed>>
  <2>1. Calms(t)
    BY <1>1, <1>5, AnswerCalm
  <2>2. UNCHANGED accepted
    BY DEF PingCheck
  <2> QED BY <1>4, <1>5, <2>1, <2>2, CalmStep DEF Calms
<1>6. CASE /\ file' = [file EXCEPT ![m] = Closed]
           /\ th' = [th EXCEPT ![t].pc = "respond", ![t].msql = "invalid"]
           /\ strayed' = TRUE
  <2> DEFINE r == [h EXCEPT !.pc = "respond", !.msql = "invalid"]
  <2>1. Becomes(t, r)
    BY <1>6, <1>1, HandlerType DEF Becomes
  <2>2. Shuts(m) /\ m \in Numbers /\ "db" \in Roles /\ accepted' = accepted
    BY <1>1, <1>6 DEF Shuts, Numbers, Roles, PingCheck, Handlers
  <2> HIDE DEF h
  <2>3. r \in Handlers
    <3>1. "respond" \in Pcs
      BY PcsAre DEF Quiet
    <3> QED BY <1>1, <3>1 DEF Handlers
  <2>4. /\ r.pc = "respond" /\ r.conn_fd = h.conn_fd
        /\ r.dest_conn_fd = h.dest_conn_fd /\ r.msql = "invalid"
        /\ r.port_dest = h.port_dest /\ SameForward(h, r)
    BY <1>1 DEF Handlers, SameForward
  <2> HIDE DEF r
  <2>5. Sane(r) /\ Remembers(h, r)
    BY <1>1, <2>4, QuietRemembers DEF Sane, Whole, Forwards, SameForward
  <2>6. ASSUME NEW n \in Fds, NEW role \in Roles, Has(h, n, role), n # m
        PROVE  Has(r, n, role)
    BY <1>1, <2>4, <2>6 DEF Has, Forwards
  <2> HIDE DEF m
  <2>7. Typed' /\ OwnedOK' /\ HeldOK' /\ PeersOK'
    BY <1>3, <1>4, <1>6, <2>1, <2>2, <2>3, <2>4, <2>5, <2>6, ShutStep DEF h
  <2> QED BY <1>4, <2>7 DEF IInv
<1> QED BY <1>5, <1>6 DEF PingCheck

-----------------------------------------------------------------------------
(* Forwarding.                                                             *)

\* What a handler that forwards a request has.
LEMMA ForwardHas ==
  ASSUME Typed, NEW t \in Threads, th[t].pc \in Forwards
  PROVE  /\ th[t].socket_fd \in Numbers /\ th[t].conn_fd \in Numbers
         /\ th[t].socket_fd = NoFd \/ Has(th[t], th[t].socket_fd, "dest")
         /\ Has(th[t], th[t].conn_fd, "client")
         /\ "client" \in Roles /\ "dest" \in Roles
<1>1. th[t] \in Handlers /\ Sane(th[t])
  BY HandlerType
<1>2. th[t].conn_fd \in Numbers /\ th[t].socket_fd \in Numbers
  BY <1>1 DEF Handlers, Numbers
<1> QED BY <1>1, <1>2 DEF Has, Forwards, Roles, Sane

\* From write to relay or to a new connection, or on with the write.
LEMMA WriteStep ==
  ASSUME IInv, NEW t \in Threads,
         WritePart(t) \/ WriteRequest(t) \/ WriteFails(t)
  PROVE  IInv'
<1> DEFINE h == th[t]
<1>1. Typed /\ h \in Handlers /\ Sane(h) /\ h.pc = "write" /\ h.pc \in Forwards
  BY HandlerType DEF IInv, WritePart, WriteRequest, WriteFails, Forwards
<1>2. UNCHANGED <<file, accepted, strayed>> /\ Uses(h.socket_fd, t, "dest")
  BY DEF WritePart, WriteRequest, WriteFails
<1>3. MisuseHasCause' /\ misused' \in BOOLEAN
  BY <1>1, <1>2, ForwardHas, UsesOK
<1>4. PICK pc \in {"write", "relay", "reconnect"}, b \in BOOLEAN,
           p \in BOOLEAN :
        /\ Becomes(t, [h EXCEPT !.pc = pc, !.using_dest_conn_fd = b,
                                !.part = p])
        /\ pc = "reconnect" => h.using_dest_conn_fd /\ ~b
        /\ pc # "reconnect" => b = h.using_dest_conn_fd
        /\ p # h.part => pc = "write" /\ h.socket_fd # NoFd
  <2>0. h.using_dest_conn_fd \in BOOLEAN /\ h.part \in BOOLEAN
    BY <1>1 DEF Handlers
  <2>1. CASE WriteRequest(t)
    <3> DEFINE r == [h EXCEPT !.pc = "relay",
                              !.using_dest_conn_fd = h.using_dest_conn_fd,
                              !.part = h.part]
    <3>1. th' = [th EXCEPT ![t] = [h EXCEPT !.pc = "relay"]]
      BY <2>1, HandlerType, <1>1 DEF WriteRequest
    <3>2. [h EXCEPT !.pc = "relay"] = r
      BY <1>1 DEF Handlers
    <3>3. Becomes(t, r)
      BY <3>1, <3>2 DEF Becomes
    <3> QED BY <2>0, <3>3
  <2>2. CASE WriteFails(t)
    <3> DEFINE r == [h EXCEPT !.pc = "reconnect",
                              !.using_dest_conn_fd = FALSE, !.part = h.part]
    <3>1. th' = [th EXCEPT ![t] = [h EXCEPT !.pc = "reconnect",
                                            !.using_dest_conn_fd = FALSE]]
      BY <2>2, HandlerType, <1>1 DEF WriteFails
    <3>2. [h EXCEPT !.pc = "reconnect", !.using_dest_conn_fd = FALSE] = r
      BY <1>1 DEF Handlers
    <3>3. Becomes(t, r) /\ h.using_dest_conn_fd
      BY <2>2, <3>1, <3>2 DEF Becomes, WriteFails
    <3> QED BY <2>0, <3>3
  <2>3. CASE WritePart(t)
    <3> DEFINE r == [h EXCEPT !.pc = "write",
                              !.using_dest_conn_fd = h.using_dest_conn_fd,
                              !.part = TRUE]
    <3>1. th' = [th EXCEPT ![t] = [h EXCEPT !.part = TRUE]]
      BY <2>3, HandlerType, <1>1 DEF WritePart
    <3>2. [h EXCEPT !.part = TRUE] = r
      BY <1>1 DEF Handlers
    <3>3. Becomes(t, r) /\ h.socket_fd # NoFd
      BY <2>3, <3>1, <3>2, NoFdIsNone DEF Becomes, WritePart, IsOpen
    <3> QED BY <2>0, <3>3
  <2> QED BY <2>1, <2>2, <2>3
<1> DEFINE r == [h EXCEPT !.pc = pc, !.using_dest_conn_fd = b, !.part = p]
<1>5. Becomes(t, r)
  BY <1>4
<1>a. /\ pc = "reconnect" => h.using_dest_conn_fd /\ ~b
      /\ pc # "reconnect" => b = h.using_dest_conn_fd
      /\ p # h.part => pc = "write" /\ h.socket_fd # NoFd
  BY <1>4
<1> HIDE DEF h
<1>6. r \in Handlers
  <2>1. pc \in Pcs
    BY PcsAre DEF Forwards
  <2> QED BY <1>1, <2>1 DEF Handlers
<1>7. /\ r.pc = pc /\ r.conn_fd = h.conn_fd /\ r.socket_fd = h.socket_fd
      /\ r.dest = h.dest /\ r.dest_conn_fd = h.dest_conn_fd
      /\ r.msql = h.msql /\ r.msql_fd = h.msql_fd
      /\ r.port_dest = h.port_dest /\ r.asked = h.asked /\ r.cut = h.cut
      /\ r.using_dest_conn_fd = b /\ r.part = p
  BY <1>1 DEF Handlers
<1> HIDE DEF r
<1>8. Sane(r)
  <2>1. Whole(r)
    BY <1>1, <1>7, <1>a DEF Sane, Whole, Forwards
  <2> QED BY <1>1, <1>7, <2>1 DEF Sane, Forwards
<1>9. ASSUME NEW n \in Fds, NEW role \in Roles
      PROVE  Has(h, n, role) <=> Has(r, n, role)
  BY <1>1, <1>7 DEF Has, Forwards
<1>10. Remembers(h, r)
  BY <1>1, <1>7, <1>a DEF Remembers, NewTo
<1>11. Calm(th[t], r)
  BY <1>7, <1>8, <1>9, <1>10 DEF Calm, h
<1> QED BY <1>2, <1>3, <1>5, <1>6, <1>11, CalmStep

\* do_ipv4_socket_forwarding returns with the number `kept'.
Returned(h, kept) ==
  [h EXCEPT !.pc = "poll", !.dest_conn_fd = kept, !.socket_fd = NoFd,
            !.using_dest_conn_fd = TRUE, !.part = FALSE, !.cut = FALSE,
            !.dest = "none"]

LEMMA ReturnData ==
  ASSUME Typed, NEW t \in Threads, th[t].pc \in Forwards, NEW kept \in Numbers,
         Return(t, kept)
  PROVE  LET r == Returned(th[t], kept) IN
         /\ r \in Handlers /\ Becomes(t, r) /\ Sane(r)
         /\ r.msql = th[t].msql /\ Remembers(th[t], r)
         /\ \A n \in Fds, role \in {"client", "db"} :
              Has(th[t], n, role) <=> Has(r, n, role)
         /\ \A n \in Fds : Has(r, n, "dest") <=> n = kept
<1> DEFINE h == th[t]
           r == Returned(h, kept)
<1>1. h \in Handlers /\ Sane(h) /\ h.pc \in Forwards
  BY HandlerType
<1>2. Becomes(t, r)
  BY HandlerType DEF Return, Becomes, Returned
<1>3. r = [h EXCEPT !.pc = "poll", !.dest_conn_fd = kept,
                    !.socket_fd = NoFd, !.using_dest_conn_fd = TRUE,
                    !.part = FALSE, !.cut = FALSE, !.dest = "none"]
  BY DEF Returned
<1> HIDE DEF h, r
<1>4. r \in Handlers
  <2>1. "poll" \in Pcs
    BY PcsAre DEF Quiet
  <2> QED BY <1>1, <1>3, <2>1 DEF Handlers, Numbers
<1>5. /\ r.pc = "poll" /\ r.conn_fd = h.conn_fd /\ r.dest_conn_fd = kept
      /\ r.msql = h.msql /\ r.msql_fd = h.msql_fd
      /\ r.port_dest = h.port_dest /\ r.asked = h.asked
      /\ ~r.part /\ ~r.cut /\ r.using_dest_conn_fd
  BY <1>1, <1>3 DEF Handlers
<1>6. Sane(r) /\ Remembers(h, r)
  BY <1>1, <1>5, QuietRemembers DEF Sane, Whole, Forwards
<1>7. ASSUME NEW n \in Fds, NEW role \in {"client", "db"}
      PROVE  Has(h, n, role) <=> Has(r, n, role)
  BY <1>1, <1>5 DEF Has, Forwards
<1>8. ASSUME NEW n \in Fds
      PROVE  Has(r, n, "dest") <=> n = kept
  BY <1>5 DEF Has, Forwards
<1> QED BY <1>2, <1>4, <1>5, <1>6, <1>7, <1>8 DEF h, r

\* The early return: unless no connection was kept, the number of a closed
\* socket, or of one of someone else, is left behind.
LEMMA GiveUpStep ==
  ASSUME IInv, NEW t \in Threads, th[t].pc \in Forwards, GiveUp(t),
         UNCHANGED accepted, MisuseHasCause', misused' \in BOOLEAN
  PROVE  IInv'
<1> DEFINE kept == th[t].dest_conn_fd
           m == th[t].socket_fd
           r == Returned(th[t], kept)
<1>1. Typed /\ th[t] \in Handlers
  BY HandlerType DEF IInv
<1>2. kept \in Numbers /\ m \in Numbers
  BY <1>1 DEF Handlers, Numbers
<1>3. Return(t, kept) /\ Shuts(m)
  BY DEF GiveUp, Shuts
<1>4. strayed' = (strayed \/ kept # NoFd)
  BY DEF GiveUp
<1>5. strayed' \in BOOLEAN
  BY <1>4, Zenon
<1>6. /\ r \in Handlers /\ Becomes(t, r) /\ Sane(r)
      /\ r.msql = th[t].msql /\ Remembers(th[t], r)
      /\ \A n \in Fds, role \in {"client", "db"} :
           Has(th[t], n, role) <=> Has(r, n, role)
      /\ \A n \in Fds : Has(r, n, "dest") <=> n = kept
  BY <1>1, <1>2, <1>3, ReturnData
<1>7. m = NoFd \/ Has(th[t], m, "dest")
  BY <1>1, ForwardHas
<1>8. \A n \in Fds : Has(th[t], n, "dest") => n = m
  BY DEF Has
<1> HIDE DEF r, m, kept
<1>9. ASSUME NEW n \in Fds, NEW role \in Roles, Has(th[t], n, role), n # m
      PROVE  Has(r, n, role)
  BY <1>6, <1>8, <1>9 DEF Roles
<1>10. ASSUME ~strayed'
       PROVE  /\ r.msql # "invalid"
              /\ \A n \in Fds, role \in Roles :
                   Has(r, n, role) =>
                     Has(th[t], n, role) /\ (role = "dest" => n # m)
  <2>1. kept = NoFd /\ ~strayed
    BY <1>4, <1>10
  <2>2. r.msql # "invalid"
    BY <1>6, <2>1 DEF IInv, HeldOK
  <2> QED BY <1>6, <2>1, <2>2, NoFdIsNone DEF Roles
<1>11. "dest" \in Roles /\ (strayed => strayed')
  BY <1>4 DEF Roles
<1>12. Typed' /\ OwnedOK' /\ HeldOK' /\ PeersOK'
  BY <1>2, <1>3, <1>5, <1>6, <1>7, <1>9, <1>10, <1>11, ShutStep
<1> QED BY <1>12 DEF IInv

LEMMA GivesUpStep ==
  ASSUME IInv, NEW t \in Threads, WriteGivesUp(t) \/ RelayGivesUp(t)
  PROVE  IInv'
<1>1. Typed /\ th[t].pc \in Forwards
  BY DEF IInv, WriteGivesUp, RelayGivesUp, Forwards
<1>2. /\ GiveUp(t) /\ UNCHANGED accepted /\ Uses(th[t].socket_fd, t, "dest")
      /\ strayed => strayed'
  BY DEF WriteGivesUp, RelayGivesUp, GiveUp
<1>3. MisuseHasCause' /\ misused' \in BOOLEAN
  BY <1>1, <1>2, ForwardHas, UsesOK
<1> QED BY <1>1, <1>2, <1>3, GiveUpStep

LEMMA RelayEndsStep ==
  ASSUME IInv, NEW t \in Threads, RelayEnds(t)
  PROVE  IInv'
<1> DEFINE kept == th[t].socket_fd
           r == Returned(th[t], kept)
<1>1. Typed /\ th[t].pc = "relay" /\ th[t].pc \in Forwards
  BY DEF IInv, RelayEnds, Forwards
<1>2. Return(t, kept) /\ UNCHANGED <<file, accepted, strayed>>
  BY DEF RelayEnds
<1>3. kept \in Numbers
  BY <1>1, ForwardHas
<1>4. /\ r \in Handlers /\ Becomes(t, r) /\ Sane(r)
      /\ r.msql = th[t].msql /\ Remembers(th[t], r)
      /\ \A n \in Fds, role \in {"client", "db"} :
           Has(th[t], n, role) <=> Has(r, n, role)
      /\ \A n \in Fds : Has(r, n, "dest") <=> n = kept
  BY <1>1, <1>2, <1>3, ReturnData
<1>5. \A n \in Fds : Has(th[t], n, "dest") <=> n = kept
  BY <1>1 DEF Has, Forwards
<1> HIDE DEF r
<1>6. Calm(th[t], r)
  BY <1>4, <1>5 DEF Calm, Roles
<1>7. misused' \in BOOLEAN
  BY Zenon DEF RelayEnds
<1>8. ~strayed => misused' = misused
  <2>1. ~strayed => /\ th[t].socket_fd # NoFd =>
                         Belongs(th[t].socket_fd, t, "dest")
                    /\ th[t].conn_fd # NoFd =>
                         Belongs(th[t].conn_fd, t, "client")
    BY <1>1, ForwardHas DEF IInv, HeldOK, Numbers
  <2>2. ~IsOpen(NoFd)
    BY NoFdIsNone DEF IsOpen
  <2>3. misused \in BOOLEAN
    BY HandlerType DEF IInv
  <2> QED BY <2>1, <2>2, <2>3 DEF RelayEnds
<1>9. MisuseHasCause'
  BY <1>2, <1>7, <1>8 DEF IInv, MisuseHasCause
<1> QED BY <1>2, <1>4, <1>6, <1>7, <1>9, CalmStep

LEMMA CloseKeptStep ==
  ASSUME IInv, NEW t \in Threads, CloseKept(t)
  PROVE  IInv'
<1> DEFINE h == th[t]
           m == h.socket_fd
           r == [h EXCEPT !.pc = "connect", !.socket_fd = NoFd,
                          !.cut = h.part]
<1>1. /\ Typed /\ h \in Handlers /\ Sane(h) /\ h.pc = "reconnect"
      /\ h.pc \in Forwards
  BY HandlerType DEF IInv, CloseKept, Forwards
<1>2. /\ UNCHANGED <<accepted, strayed>> /\ Uses(m, t, "dest") /\ Shuts(m)
      /\ strayed' \in BOOLEAN
  BY HandlerType DEF CloseKept, Shuts, IInv
<1>3. m \in Numbers /\ (m = NoFd \/ Has(h, m, "dest")) /\ "dest" \in Roles
  BY <1>1, ForwardHas
<1>4. MisuseHasCause' /\ misused' \in BOOLEAN
  BY <1>2, <1>3, UsesOK
<1>5. Becomes(t, r)
  BY HandlerType, <1>1 DEF CloseKept, Becomes
<1> HIDE DEF h
<1>6. r \in Handlers
  <2>1. "connect" \in Pcs
    BY PcsAre DEF Forwards
  <2> QED BY <1>1, <2>1 DEF Handlers
<1>7. /\ r.pc = "connect" /\ r.conn_fd = h.conn_fd /\ r.socket_fd = NoFd
      /\ r.dest = h.dest /\ r.msql = h.msql /\ r.msql_fd = h.msql_fd
      /\ r.port_dest = h.port_dest /\ r.asked = h.asked
      /\ r.part = h.part /\ r.cut = h.part
      /\ r.using_dest_conn_fd = h.using_dest_conn_fd
      /\ r.dest_conn_fd = h.dest_conn_fd
  BY <1>1 DEF Handlers
<1> HIDE DEF r
<1>8. Sane(r) /\ Remembers(h, r)
  BY <1>1, <1>7, QuietRemembers DEF Sane, Whole, Forwards
<1>9. ASSUME NEW n \in Fds, NEW role \in Roles
      PROVE  /\ Has(h, n, role) /\ n # m => Has(r, n, role)
             /\ Has(r, n, role) => Has(h, n, role) /\ role # "dest"
  BY <1>1, <1>7 DEF Has, Forwards
<1>10. ~strayed' => r.msql # "invalid"
  BY <1>2, <1>7 DEF h, IInv, HeldOK
<1> HIDE DEF m
<1>11. Typed' /\ OwnedOK' /\ HeldOK' /\ PeersOK'
  BY <1>2, <1>3, <1>4, <1>5, <1>6, <1>7, <1>8, <1>9, <1>10, ShutStep DEF h
<1> QED BY <1>4, <1>11 DEF IInv

LEMMA ConnectDestStep ==
  ASSUME IInv, NEW t \in Threads, ConnectDest(t)
  PROVE  IInv'
<1> DEFINE h == th[t]
<1>1. /\ Typed /\ h \in Handlers /\ Sane(h) /\ h.pc = "connect"
      /\ h.pc \in Forwards
  BY HandlerType DEF IInv, ConnectDest, Forwards
<1>2. UNCHANGED <<accepted, misused>>
  BY DEF ConnectDest
<1>3. CASE GiveUp(t)
  <2>1. strayed => strayed'
    BY <1>3 DEF GiveUp
  <2> QED BY <1>1, <1>2, <1>3, <2>1, UsesNone, GiveUpStep
<1>4. CASE /\ FreeFds # {}
           /\ file' = [file EXCEPT ![LowestFree] =
                         Socket(t, "dest", th[t].dest)]
           /\ th' = [th EXCEPT ![t].pc = "write", ![t].socket_fd = LowestFree]
           /\ UNCHANGED strayed
  <2> DEFINE m == LowestFree
             r == [h EXCEPT !.pc = "write", !.socket_fd = m]
             new == Socket(t, "dest", h.dest)
  <2>1. m \in Fds /\ file[m] = Closed
    BY <1>4, LowestIsFree
  <2>2. Becomes(t, r)
    BY <1>4, <1>1, HandlerType DEF Becomes
  <2>3. h.dest \in Dests /\ h.dest \in h.asked
    BY <1>1 DEF Sane
  <2>4. /\ new \in Sockets /\ new.own = t /\ new.role = "dest"
        /\ "dest" \in Roles /\ new.peer = h.dest
    BY <2>3 DEF Sockets, Socket, Roles
  <2>5. file' = [file EXCEPT ![m] = new]
    BY <1>4
  <2>6. MisuseHasCause' /\ misused' \in BOOLEAN
    BY <1>2, <1>4, UsesNone
  <2> HIDE DEF h, m, new
  <2>7. r \in Handlers
    <3>1. "write" \in Pcs
      BY PcsAre DEF Forwards
    <3> QED BY <1>1, <2>1, <3>1 DEF Handlers
  <2>8. /\ r.pc = "write" /\ r.conn_fd = h.conn_fd /\ r.socket_fd = m
        /\ r.dest = h.dest /\ r.msql = h.msql /\ r.msql_fd = h.msql_fd
        /\ r.port_dest = h.port_dest /\ r.dest_conn_fd = h.dest_conn_fd
        /\ SameForward(h, r)
    BY <1>1 DEF Handlers, SameForward
  <2> HIDE DEF r
  <2>9. Sane(r)
    BY <1>1, <2>8 DEF Sane, Whole, Forwards, SameForward
  <2>10. Has(r, m, "dest")
    BY <2>8 DEF Has
  <2>11. ASSUME NEW n \in Fds, NEW role \in Roles
         PROVE  /\ Has(h, n, role) => Has(r, n, role)
                /\ Has(r, n, role) =>
                     Has(h, n, role) \/ (n = m /\ role = "dest")
    BY <1>1, <2>8 DEF Has, Forwards
  <2>12. ~strayed => r.msql # "invalid"
    BY <2>8 DEF h, IInv, HeldOK
  <2>a. /\ th[t].asked \subseteq r.asked /\ new.peer \in r.asked
        /\ r.socket_fd = m /\ new.peer = r.dest
    BY <2>3, <2>4, <2>8 DEF h, SameForward
  <2>b. /\ \A n \in Fds, role \in Roles :
             Has(th[t], n, role) => Has(r, n, role)
        /\ \A n \in Fds, role \in Roles :
             Has(r, n, role) => Has(th[t], n, role) \/ (n = m /\ role = "dest")
    BY <2>11 DEF h
  <2>13. Opens(t, r, m, new)
    BY <1>2, <1>4, <2>1, <2>2, <2>4, <2>5, <2>6, <2>9, <2>10,
       <2>12, <2>a, <2>b DEF Opens
  <2> QED BY <2>1, <2>4, <2>6, <2>7, <2>13, OpenStep DEF IInv
<1> QED BY <1>3, <1>4 DEF ConnectDest

-----------------------------------------------------------------------------
(* The end of a connection.                                                *)

LEMMA UnwindStep ==
  ASSUME IInv, NEW t \in Threads, Unwind(t)
  PROVE  IInv'
<1> DEFINE h == th[t]
           m == IF h.msql = "valid" THEN h.msql_fd ELSE NoFd
           r == [h EXCEPT !.pc = "cleanup"]
<1>1. Typed /\ h \in Handlers /\ Sane(h) /\ h.pc = "unwind" /\ h.pc \in Quiet
  BY HandlerType DEF IInv, Unwind, Quiet
<1>2. UNCHANGED <<accepted, strayed>> /\ Shuts(m) /\ strayed' \in BOOLEAN
  BY HandlerType DEF Unwind, Shuts, IInv
<1>3. m \in Numbers /\ (m = NoFd \/ Has(h, m, "db")) /\ "db" \in Roles
  BY <1>1, QuietHas DEF Numbers
<1>4. MisuseHasCause' /\ misused' \in BOOLEAN
  <2>1. CASE h.msql = "valid"
    BY <1>2, <1>3, <2>1, UsesOK DEF Unwind
  <2>2. CASE h.msql # "valid"
    BY <1>2, <2>2, UsesNone DEF Unwind
  <2> QED BY <2>1, <2>2
<1>5. Becomes(t, r)
  BY HandlerType, <1>1 DEF Unwind, Becomes
<1> HIDE DEF h
<1>6. r \in Handlers
  BY <1>1, PcsAre DEF Handlers
<1>7. /\ r.pc = "cleanup" /\ r.conn_fd = h.conn_fd
      /\ r.dest_conn_fd = h.dest_conn_fd /\ r.msql = h.msql
      /\ r.port_dest = h.port_dest /\ SameForward(h, r)
  BY <1>1 DEF Handlers, SameForward
<1> HIDE DEF r
<1>8. Sane(r) /\ Remembers(h, r)
  BY <1>1, <1>7, QuietRemembers DEF Sane, Whole, Forwards, SameForward
<1>9. ASSUME NEW n \in Fds, NEW role \in Roles
      PROVE  /\ Has(h, n, role) /\ n # m => Has(r, n, role)
             /\ Has(r, n, role) => Has(h, n, role) /\ role # "db"
  BY <1>1, <1>7 DEF Has, Forwards
<1>10. ~strayed' => r.msql # "invalid"
  BY <1>2, <1>7 DEF h, IInv, HeldOK
<1> HIDE DEF m
<1>11. Typed' /\ OwnedOK' /\ HeldOK' /\ PeersOK'
  BY <1>2, <1>3, <1>4, <1>5, <1>6, <1>7, <1>8, <1>9, <1>10, ShutStep DEF h
<1> QED BY <1>4, <1>11 DEF IInv

LEMMA CleanupConnStep ==
  ASSUME IInv, NEW t \in Threads, CleanupConn(t)
  PROVE  IInv'
<1> DEFINE h == th[t]
           m == h.conn_fd
           r == [h EXCEPT !.pc = "cleanup_dest"]
<1>1. Typed /\ h \in Handlers /\ Sane(h) /\ h.pc = "cleanup"
  BY HandlerType DEF IInv, CleanupConn
<1>2. /\ UNCHANGED <<accepted, strayed>> /\ Shuts(m) /\ strayed' \in BOOLEAN
      /\ Uses(m, t, "client")
  BY HandlerType DEF CleanupConn, Shuts, IInv
<1>3. m \in Numbers /\ Has(h, m, "client") /\ "client" \in Roles
  BY <1>1 DEF Numbers, Handlers, Has, Roles
<1>4. MisuseHasCause' /\ misused' \in BOOLEAN
  BY <1>2, <1>3, UsesOK
<1>5. Becomes(t, r)
  BY HandlerType, <1>1 DEF CleanupConn, Becomes
<1> HIDE DEF h
<1>6. r \in Handlers
  BY <1>1, PcsAre DEF Handlers
<1>7. /\ r.pc = "cleanup_dest" /\ r.dest_conn_fd = h.dest_conn_fd
      /\ r.msql = h.msql /\ r.port_dest = h.port_dest /\ SameForward(h, r)
  BY <1>1 DEF Handlers, SameForward
<1> HIDE DEF r
<1>8. Sane(r) /\ Remembers(h, r)
  BY <1>1, <1>7, QuietRemembers DEF Sane, Whole, Forwards, SameForward
<1>9. ASSUME NEW n \in Fds, NEW role \in Roles
      PROVE  /\ Has(h, n, role) /\ n # m => Has(r, n, role)
             /\ Has(r, n, role) => Has(h, n, role) /\ role # "client"
  BY <1>1, <1>7 DEF Has, Forwards
<1>10. ~strayed' => r.msql # "invalid"
  BY <1>2, <1>7 DEF h, IInv, HeldOK
<1> HIDE DEF m
<1>11. Typed' /\ OwnedOK' /\ HeldOK' /\ PeersOK'
  BY <1>2, <1>3, <1>4, <1>5, <1>6, <1>7, <1>8, <1>9, <1>10, ShutStep DEF h
<1> QED BY <1>4, <1>11 DEF IInv

LEMMA CleanupDestStep ==
  ASSUME IInv, NEW t \in Threads, CleanupDest(t)
  PROVE  IInv'
<1> DEFINE h == th[t]
           m == h.dest_conn_fd
<1>1. Typed /\ h \in Handlers /\ Sane(h) /\ h.pc = "cleanup_dest"
  BY HandlerType DEF IInv, CleanupDest
<1>2. /\ UNCHANGED <<accepted, strayed>> /\ Shuts(m) /\ strayed' \in BOOLEAN
      /\ Uses(m, t, "dest")
  BY HandlerType DEF CleanupDest, Shuts, IInv
<1>3. m \in Numbers /\ Has(h, m, "dest") /\ "dest" \in Roles
  BY <1>1 DEF Numbers, Handlers, Has, Roles, Forwards
<1>4. MisuseHasCause' /\ misused' \in BOOLEAN
  BY <1>2, <1>3, UsesOK
<1>5. Becomes(t, Fresh)
  BY DEF CleanupDest, Becomes
<1>6. Sane(Fresh) /\ Fresh.msql # "invalid"
  BY DEF Sane, Whole, Fresh, Forwards
<1>7. ASSUME NEW n \in Fds, NEW role \in Roles
      PROVE  (Has(h, n, role) => n = m) /\ ~Has(Fresh, n, role)
  <2>1. Fresh.pc = "idle"
    BY DEF Fresh
  <2> QED BY <1>1, <2>1 DEF Has, Forwards
<1>8. "dest" \in Roles
  BY DEF Roles
<1>a. Remembers(h, Fresh)
  <2>1. \A n \in Fds : ~Has(Fresh, n, "dest")
    BY <1>7, <1>8
  <2>2. ~NewTo(Fresh)
    BY DEF NewTo, Fresh
  <2> QED BY <2>1, <2>2 DEF Remembers
<1> HIDE DEF m
<1>9. Typed' /\ OwnedOK' /\ HeldOK' /\ PeersOK'
  BY <1>2, <1>3, <1>4, <1>5, <1>6, <1>7, <1>8, <1>a, FreshType, ShutStep
<1> QED BY <1>4, <1>9 DEF IInv

-----------------------------------------------------------------------------
(* The accept loop.                                                        *)

LEMMA AcceptStep ==
  ASSUME IInv, Accept
  PROVE  IInv'
<1> DEFINE m == LowestFree
           new == Socket("main", "client", "client")
<1>1. m \in Fds /\ file[m] = Closed
  BY LowestIsFree DEF Accept
<1>2. /\ accepted = NoFd /\ accepted' = m /\ UNCHANGED <<th, misused, strayed>>
      /\ file' = [file EXCEPT ![m] = new]
  BY DEF Accept
<1>3. /\ new \in Sockets /\ new.own = "main" /\ new.role = "client"
      /\ new.peer = "client"
  BY DEF Sockets, Socket
<1> HIDE DEF m, new
<1>4. /\ file' \in [Fds -> Sockets] /\ file'[m] = new
      /\ \A n \in Fds : n # m => file'[n] = file[n]
  BY <1>1, <1>2, <1>3, HandlerType DEF IInv
<1>5. Typed'
  BY <1>1, <1>2, <1>4, HandlerType, NextTypedParts DEF IInv, Numbers
<1>6. OwnedOK'
  <2> SUFFICES ASSUME NEW n \in Fds, file'[n] # Closed
               PROVE  \/ file'[n].own = "main" /\ accepted' = n
                      \/ /\ file'[n].own \in Threads
                         /\ Has(th'[file'[n].own], n, file'[n].role)
                      \/ file'[n].role = "lost"
    BY DEF OwnedOK
  <2>1. CASE n = m
    BY <1>2, <1>3, <1>4, <2>1
  <2>2. CASE n # m
    BY <1>2, <1>4, <2>2, NoFdIsNone DEF IInv, OwnedOK
  <2> QED BY <2>1, <2>2
<1>7. HeldOK'
  <2> SUFFICES ASSUME ~strayed'
               PROVE  HeldIn(file', accepted', th')
    BY HeldUnfolds
  <2>1. HeldIn(file, accepted, th)
    BY <1>2, HeldUnfolds DEF IInv
  <2>2. file[m].role \notin Roles
    BY <1>1 DEF Closed, Roles
  <2>3. Held(file', accepted', "main", "client")
    BY <1>1, <1>2, <1>3, <1>4 DEF Held
  <2>4. ASSUME NEW u \in Threads, NEW n \in Fds, NEW role \in Roles,
               Has(th'[u], n, role)
        PROVE  Held(file', n, u, role)
    <3>1. Held(file, n, u, role)
      BY <1>2, <2>1, <2>4 DEF HeldIn
    <3>2. n # m
      BY <2>2, <3>1 DEF Held
    <3> QED BY <1>4, <3>1, <3>2 DEF Held
  <2> QED BY <1>2, <2>1, <2>3, <2>4 DEF HeldIn
<1>8. PeersOK'
  <2>1. PeersIn(file, th)
    BY PeersUnfolds DEF IInv
  <2>2. \A n \in Fds : file'[n].role = "dest" => file'[n] = file[n]
    BY <1>3, <1>4
  <2>3. PeersIn(file', th')
    BY <1>2, <2>1, <2>2 DEF PeersIn, Held
  <2> QED BY <2>3, PeersUnfolds
<1>9. MisuseHasCause'
  BY <1>2 DEF IInv, MisuseHasCause
<1> QED BY <1>5, <1>6, <1>7, <1>8, <1>9 DEF IInv

LEMMA RefuseStep ==
  ASSUME IInv, Refuse
  PROVE  IInv'
<1> DEFINE m == accepted
<1>1. /\ m # NoFd /\ accepted' = NoFd /\ UNCHANGED <<th, strayed>>
      /\ Shuts(m)
  BY DEF Refuse, Shuts
<1>2. m \in Fds
  BY <1>1, HandlerType DEF IInv, Numbers
<1>3. /\ file' \in [Fds -> Sockets]
      /\ \A n \in Fds : file'[n] = IF n = m THEN Closed ELSE file[n]
  BY <1>1, ShutFacts DEF IInv
<1>4. MisuseHasCause' /\ misused' \in BOOLEAN
  <2>1. misused' \in BOOLEAN
    BY Zenon DEF Refuse
  <2>2. ~strayed => Belongs(m, "main", "client")
    BY <1>1 DEF IInv, HeldOK
  <2>3. ~strayed => misused' = misused
    BY <2>2, HandlerType DEF Refuse, IInv
  <2> QED BY <1>1, <2>1, <2>3 DEF IInv, MisuseHasCause
<1>5. Typed'
  BY <1>1, <1>3, <1>4, HandlerType, NextTypedParts DEF IInv, Numbers
<1>6. OwnedOK'
  <2> SUFFICES ASSUME NEW n \in Fds, file'[n] # Closed
               PROVE  \/ file'[n].own = "main" /\ accepted' = n
                      \/ /\ file'[n].own \in Threads
                         /\ Has(th'[file'[n].own], n, file'[n].role)
                      \/ file'[n].role = "lost"
    BY DEF OwnedOK
  <2>1. n # m /\ file'[n] = file[n]
    BY <1>3
  <2> QED BY <1>1, <2>1 DEF IInv, OwnedOK
<1>7. HeldOK'
  <2> SUFFICES ASSUME ~strayed'
               PROVE  HeldIn(file', accepted', th')
    BY HeldUnfolds
  <2>1. HeldIn(file, accepted, th)
    BY <1>1, HeldUnfolds DEF IInv
  <2>2. file[m].own = "main"
    BY <1>1, <2>1 DEF HeldIn, Held
  <2>3. ASSUME NEW u \in Threads, NEW n \in Fds, NEW role \in Roles,
               Has(th'[u], n, role)
        PROVE  Held(file', n, u, role)
    <3>1. Held(file, n, u, role)
      BY <1>1, <2>1, <2>3 DEF HeldIn
    <3>2. n # m
      BY <2>2, <3>1, NamesAssumption DEF Held
    <3> QED BY <1>3, <3>1, <3>2 DEF Held
  <2> QED BY <1>1, <2>1, <2>3 DEF HeldIn
<1>8. PeersOK'
  <2>1. PeersIn(file, th)
    BY PeersUnfolds DEF IInv
  <2>2. \A n \in Fds : file'[n].role = "dest" => file'[n] = file[n]
    BY <1>3 DEF Closed
  <2>3. PeersIn(file', th')
    BY <1>1, <2>1, <2>2 DEF PeersIn, Held
  <2> QED BY <2>3, PeersUnfolds
<1> QED BY <1>4, <1>5, <1>6, <1>7, <1>8 DEF IInv

LEMMA DispatchStep ==
  ASSUME IInv, NEW t \in Threads, Dispatch(t)
  PROVE  IInv'
<1> DEFINE m == accepted
           new == Socket(t, "client", "client")
<1>1. PICK d \in Dests :
        th' = [th EXCEPT ![t] = [Fresh EXCEPT !.pc = "poll",
                                              !.conn_fd = accepted,
                                              !.port_dest = d]]
  BY DEF Dispatch
<1> DEFINE r == [Fresh EXCEPT !.pc = "poll", !.conn_fd = m, !.port_dest = d]
<1>2. Typed /\ m # NoFd /\ th[t].pc = "idle" /\ accepted' = NoFd
  BY DEF Dispatch, IInv
<1>3. m \in Fds /\ UNCHANGED <<misused, strayed>>
  BY <1>2, HandlerType DEF IInv, Numbers, Dispatch
<1>4. r \in Handlers /\ Becomes(t, r)
  <2>1. "poll" \in Pcs
    BY PcsAre DEF Quiet
  <2>2. r \in Handlers
    BY <1>3, <2>1, FreshType DEF Handlers
  <2> QED BY <1>1, <2>2 DEF Becomes
<1>5. /\ r.pc = "poll" /\ r.conn_fd = m /\ r.dest_conn_fd = NoFd
      /\ r.msql = "none" /\ r.port_dest = d
      /\ ~r.part /\ ~r.cut /\ r.using_dest_conn_fd
  BY DEF Fresh
<1> HIDE DEF r
<1>6. Sane(r)
  BY <1>5 DEF Sane, Whole, Forwards
<1>7. /\ th' \in [Threads -> Handlers] /\ th'[t] = r
      /\ \A u \in Threads \ {t} : th'[u] = th[u]
      /\ \A u \in Threads : Sane(th'[u])
  BY <1>2, <1>4, <1>6, BecomesFacts
<1>8. \A n \in Fds, role \in Roles :
        /\ ~Has(th[t], n, role)
        /\ Has(r, n, role) <=> (n = m /\ role = "client")
  BY <1>2, <1>5, NoFdIsNone DEF Has, Forwards, Roles
<1>9. \A n \in Fds : file[n] # Closed /\ file[n].role # "lost" =>
        file[n].own # t
  <2> SUFFICES ASSUME NEW n \in Fds, file[n] # Closed, file[n].own = t,
                      file[n].role # "lost"
               PROVE  FALSE
    OBVIOUS
  <2>1. file[n].role \in Roles
    BY <1>2, HandlerType DEF Sockets, Socket, Roles
  <2>2. Has(th[t], n, file[n].role)
    BY NamesAssumption DEF IInv, OwnedOK
  <2> QED BY <1>8, <2>1, <2>2
<1>10. new \in Sockets /\ new.own = t /\ new.role = "client"
  BY DEF Sockets, Socket
<1> DEFINE mine == Belongs(m, "main", "client")
<1>11. /\ file' \in [Fds -> Sockets]
       /\ \A n \in Fds : file'[n] = IF n = m /\ mine THEN new ELSE file[n]
  <2>1. file' = IF mine THEN [file EXCEPT ![m] = new] ELSE file
    BY DEF Dispatch
  <2> HIDE DEF mine, new
  <2> QED BY <1>2, <1>3, <1>10, <2>1, HandlerType
<1> HIDE DEF new
<1>12. Typed'
  BY <1>2, <1>3, <1>7, <1>11, HandlerType, NextTypedParts DEF Numbers
<1>13. OwnedOK'
  <2> SUFFICES ASSUME NEW n \in Fds, file'[n] # Closed
               PROVE  \/ file'[n].own = "main" /\ accepted' = n
                      \/ /\ file'[n].own \in Threads
                         /\ Has(th'[file'[n].own], n, file'[n].role)
                      \/ file'[n].role = "lost"
    BY DEF OwnedOK
  <2>1. CASE n = m /\ mine
    <3>1. Has(r, n, "client")
      BY <1>8, <2>1 DEF Roles
    <3> QED BY <1>7, <1>10, <1>11, <2>1, <3>1
  <2>2. CASE ~(n = m /\ mine)
    <3>1. /\ file'[n] = file[n] /\ file[n] # Closed
          /\ file[n].role = "lost" \/ file[n].own # t
      BY <1>9, <1>11, <2>2
    <3>2. CASE file[n].own = "main" /\ accepted = n
      <4>1. file[n].role = "client"
        BY <1>2, <3>2, HandlerType, NamesAssumption DEF Sockets, Socket, Closed
      <4> QED BY <2>2, <3>2, <4>1 DEF Belongs
    <3>3. CASE /\ file[n].own \in Threads
               /\ Has(th[file[n].own], n, file[n].role)
      BY <1>7, <3>1, <3>3
    <3>4. CASE file[n].role = "lost"
      BY <3>1, <3>4
    <3> QED BY <3>1, <3>2, <3>3, <3>4 DEF IInv, OwnedOK
  <2> QED BY <2>1, <2>2
<1>14. HeldOK'
  <2> SUFFICES ASSUME ~strayed'
               PROVE  HeldIn(file', accepted', th')
    BY HeldUnfolds
  <2>1. HeldIn(file, accepted, th)
    BY <1>3, HeldUnfolds DEF IInv
  <2>2. mine /\ file[m].own = "main"
    BY <1>2, <2>1 DEF HeldIn, Held, Belongs
  <2>3. \A u \in Threads : th'[u].msql # "invalid"
    BY <1>5, <1>7, <2>1 DEF HeldIn
  <2>4. ASSUME NEW u \in Threads, NEW n \in Fds, NEW role \in Roles,
               Has(th'[u], n, role)
        PROVE  Held(file', n, u, role)
    <3>1. CASE u = t
      <4>1. n = m /\ role = "client"
        BY <1>7, <1>8, <2>4, <3>1
      <4> QED BY <1>10, <1>11, <2>2, <3>1, <4>1 DEF Held
    <3>2. CASE u # t
      <4>1. Held(file, n, u, role)
        BY <1>7, <2>1, <2>4, <3>2 DEF HeldIn
      <4>2. n # m
        BY <2>2, <4>1, NamesAssumption DEF Held
      <4> QED BY <1>11, <4>1, <4>2 DEF Held
    <3> QED BY <3>1, <3>2
  <2> QED BY <1>2, <2>3, <2>4 DEF HeldIn
<1>15. PeersOK'
  <2>0. PeersIn(file, th)
    BY PeersUnfolds DEF IInv
  <2>1. ASSUME NEW n \in Fds, file'[n].role = "dest"
        PROVE  file'[n] = file[n] /\ file[n].own \in Threads \ {t}
    <3>1. file'[n] = file[n]
      BY <1>10, <1>11, <2>1
    <3>2. file[n] \in Sockets
      BY <1>2, HandlerType
    <3>3. file[n] # Closed /\ file[n].own \in Threads
      BY <2>1, <3>1, <3>2 DEF Sockets, Socket, Closed
    <3> QED BY <1>9, <2>1, <3>1, <3>3
  <2>2. ~NewTo(th'[t])
    BY <1>5, <1>7 DEF NewTo
  <2>3. PeersIn(file', th')
    BY <1>7, <2>0, <2>1, <2>2 DEF PeersIn, Held
  <2> QED BY <2>3, PeersUnfolds
<1>16. MisuseHasCause'
  BY <1>3 DEF IInv, MisuseHasCause
<1> QED BY <1>12, <1>13, <1>14, <1>15, <1>16 DEF IInv

-----------------------------------------------------------------------------
(* The theorems.                                                           *)

LEMMA NextInv ==
  ASSUME IInv, [Next]_vars
  PROVE  IInv'
<1>1. CASE UNCHANGED vars
  <2>1. /\ file' = file /\ accepted' = accepted /\ th' = th
        /\ misused' = misused /\ strayed' = strayed
    BY <1>1 DEF vars
  <2>2. Typed'
    BY <2>1, HandlerType, NextTypedParts DEF IInv
  <2>3. HeldOK'
    BY <2>1, HeldUnfolds DEF IInv
  <2>4. PeersOK'
    BY <2>1, PeersUnfolds DEF IInv
  <2> QED BY <2>1, <2>2, <2>3, <2>4 DEF IInv, OwnedOK, MisuseHasCause
<1>2. CASE Accept
  BY <1>2, AcceptStep
<1>3. CASE Refuse
  BY <1>3, RefuseStep
<1>4. ASSUME NEW t \in Threads, Dispatch(t) \/ Step(t)
      PROVE  IInv'
  <2>1. CASE Dispatch(t)
    BY <2>1, DispatchStep
  <2>2. CASE FlushBuffer(t) \/ ReadNothing(t) \/ ReadEnds(t) \/ ReadRequest(t)
    BY <2>2, PollStep
  <2>3. CASE TimedOut(t) \/ Decide(t) \/ DecideMsql(t) \/ Respond(t)
    BY <2>3, DecideStep
  <2>4. CASE ConnectMsql(t)
    BY <2>4, ConnectMsqlStep
  <2>5. CASE AssignMsql(t)
    BY <2>5, AssignMsqlStep
  <2>6. CASE PingCheck(t)
    BY <2>6, PingCheckStep
  <2>7. CASE WritePart(t) \/ WriteRequest(t) \/ WriteFails(t)
    BY <2>7, WriteStep
  <2>8. CASE WriteGivesUp(t) \/ RelayGivesUp(t)
    BY <2>8, GivesUpStep
  <2>9. CASE CloseKept(t)
    BY <2>9, CloseKeptStep
  <2>10. CASE ConnectDest(t)
    BY <2>10, ConnectDestStep
  <2>11. CASE RelayEnds(t)
    BY <2>11, RelayEndsStep
  <2>12. CASE Unwind(t)
    BY <2>12, UnwindStep
  <2>13. CASE CleanupConn(t)
    BY <2>13, CleanupConnStep
  <2>14. CASE CleanupDest(t)
    BY <2>14, CleanupDestStep
  <2> QED BY <1>4, <2>1, <2>2, <2>3, <2>4, <2>5, <2>6, <2>7, <2>8, <2>9,
             <2>10, <2>11, <2>12, <2>13, <2>14 DEF Step
<1> QED BY <1>1, <1>2, <1>3, <1>4 DEF Next

LEMMA InvariantHolds == Spec => []IInv
<1>1. Init => IInv
  BY InitInv
<1>2. IInv /\ [Next]_vars => IInv'
  BY NextInv
<1> QED BY <1>1, <1>2, PTL DEF Spec

\* Every field of every handler of thread_handle_connection_fn, and every
\* socket of the process, keeps its type: the ticks of the request loop stay
\* within THREAD_TIMEOUT_TICKS, and a number is one the kernel gave out or -1.
THEOREM TypeCorrect == Spec => []TypeOK
<1>1. IInv => TypeOK
  BY DEF IInv, Typed
<1> QED BY <1>1, InvariantHolds, PTL

\* No thread, and not main(), reads, writes or closes the socket of another
\* before do_ipv4_socket_forwarding has given up with a kept connection or
\* ping_check has failed, for any number of threads and descriptors: only
\* these two leave the number of a closed socket behind.
THEOREM MisusesHaveACause == Spec => []MisuseHasCause
<1>1. IInv => MisuseHasCause
  BY DEF IInv
<1> QED BY <1>1, InvariantHolds, PTL

\* The only sockets that are ever forgotten are those of a connect_msql that
\* failed in its handshake, also once numbers have been left behind and
\* threads close each other's sockets: whoever opened any other socket that
\* is still open has its number and would close it.
THEOREM SocketsAreKept == Spec => []NothingLeaks
<1>1. IInv => NothingLeaks
  <2> SUFFICES ASSUME IInv, NEW n \in Fds, file[n] # Closed,
                      ~(file[n].own = "main" /\ accepted = n),
                      file[n].role # "lost"
               PROVE  \E t \in Threads :
                        /\ file[n].own = t
                        /\ n \in {th[t].conn_fd, th[t].dest_conn_fd,
                                  th[t].socket_fd, th[t].msql_fd, th[t].new_fd}
    BY DEF NothingLeaks
  <2>1. PICK t \in Threads : file[n].own = t /\ Has(th[t], n, file[n].role)
    BY DEF IInv, OwnedOK
  <2> QED BY <2>1 DEF Has
<1> QED BY <1>1, InvariantHolds, PTL

\* With and without --enable-override-dest-url, and whatever threads do to
\* each other's sockets: a request written to a new connection goes to its
\* own destination, one written to a kept connection to a destination of the
\* same client, and only a request that a kept connection took a part of and
\* then failed loses its beginning.
THEOREM RequestsGoRight == Spec => []RightDestination
<1>1. IInv => RightDestination
  <2> SUFFICES ASSUME IInv, NEW t \in Threads, th[t].pc = "relay",
                      Belongs(th[t].socket_fd, t, "dest")
               PROVE  /\ file[th[t].socket_fd].peer \in
                           IF th[t].using_dest_conn_fd THEN th[t].asked
                           ELSE {th[t].dest}
                      /\ th[t].cut => /\ ~th[t].using_dest_conn_fd
                                      /\ th[t].dest_conn_fd # NoFd
    BY DEF RightDestination
  <2>1. Sane(th[t])
    BY HandlerType DEF IInv
  <2>2. file[th[t].socket_fd].peer \in th[t].asked
    BY DEF IInv, PeersOK, Belongs
  <2>3. ~th[t].using_dest_conn_fd => file[th[t].socket_fd].peer = th[t].dest
    BY DEF IInv, PeersOK, NewTo
  <2> QED BY <2>1, <2>2, <2>3 DEF Sane, Whole
<1> QED BY <1>1, InvariantHolds, PTL
=============================================================================
