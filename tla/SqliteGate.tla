----------------------------- MODULE SqliteGate -----------------------------
(***************************************************************************)
(* The challenge gate of cxx_impl with its SQLite back end: the request    *)
(* part of thread_handle_connection_fn (main.cc) and the queries of db.cc. *)
(*                                                                         *)
(* Every connection thread opens the database for itself, so the unit of   *)
(* atomicity is one SQL statement: one action per statement.  Any          *)
(* statement named in MayFail may also fail and change nothing (the        *)
(* database is busy, the disk is full).  The cache of allowed clients is   *)
(* shared by the threads under its own mutex.                              *)
(*                                                                         *)
(* Time is counted in units of which the four timeouts are multiples; the  *)
(* steady clock of the cache and the wall clock of the database advance    *)
(* together.                                                               *)
(***************************************************************************)
EXTENDS Integers, FiniteSets

CONSTANTS
  Threads,           \* threads that run thread_handle_connection_fn
  IPs, Ports,        \* client addresses, listening ports
  AllowedTimeout,    \* --allowed-timeout
  ChallengeTimeout,  \* --challenge-timeout
  CachedTimeout,     \* CACHED_TIMEOUT_T
  CachedClear,       \* CACHED_CLEAR_T
  SeqLimit,          \* 0x7FFFFFFFFFFFFFFF, where SEQ_ID starts again at 1
  Rand,              \* what rand_uint64_t may return
  MayFail,           \* names of the statements that may fail
  MayCrash,          \* whether the process may die and be started again
  MaxTime,           \* bound: the clock stops here
  NoId, NoPort,      \* no such id, no port read
  NoRequest          \* a thread that has not read a request

ASSUME TimeoutAssumption ==
  /\ AllowedTimeout \in Nat /\ ChallengeTimeout \in Nat
  /\ CachedTimeout \in Nat /\ CachedClear \in Nat
  /\ MaxTime \in Nat
ASSUME SeqAssumption == SeqLimit \in Nat /\ SeqLimit > 1
ASSUME NoPortAssumption == NoPort \notin Ports
ASSUME CrashAssumption == MayCrash \in BOOLEAN

VARIABLES
  now,
  SEQ_ID,            \* the tables, as sets of rows
  ID_TO_PORT,
  CHALLENGE_FACTOR,
  ALLOWED_IP,
  cached_allowed,    \* cached_allowed[ip, port]: a time, or Never
  time_prev,         \* when the main loop last cleared the cache
  pc, req, loc,      \* per thread: program counter, request, locals
  challenged,        \* history: the <<ip, port>> of every stored challenge
  granted,           \* history: time of the latest row for <<ip, port>>
  answered           \* history: when ip last posted a good answer to port

tables == <<SEQ_ID, ID_TO_PORT, CHALLENGE_FACTOR, ALLOWED_IP>>
cache == <<cached_allowed, time_prev>>
history == <<challenged, granted, answered>>
vars == <<now, tables, cache, pc, req, loc, history>>

Never == -1
Times == 0..MaxTime
Clients == IPs \X Ports

\* next_hash of a sequence number and a random number.  Different pairs stand
\* for different hashes; equal hashes are made by drawing the same pair.
Ids == (1..SeqLimit) \X Rand

Requests == [kind : {"page", "js", "api"}, ip : IPs, port : Ports,
             id : Ids \cup {NoId}, t0 : Times]

\* val: the sequence number read; id: the id being created; port, at: of the
\* row that was read.
Locals == [val : 0..SeqLimit, id : Ids \cup {NoId},
           port : Ports \cup {NoPort}, at : Times]

NoLocals == [val |-> 0, id |-> NoId, port |-> NoPort, at |-> 0]

Pc == {"idle", "cache", "cleanup_allowed", "is_allowed",
       "cache_allowed", "forward", "cleanup_ids", "insert_id",
       "cleanup_challenges", "read_port", "delete_id", "insert_challenge",
       "seq_read", "seq_write", "exists",
       "read_challenge", "delete_challenge", "insert_allowed",
       "cache_correct", "issued", "correct"}

TypeOK ==
  /\ now \in Times
  /\ SEQ_ID \subseteq 1..(SeqLimit - 1)
  /\ ID_TO_PORT \subseteq [id : Ids, port : Ports, at : Times]
  /\ CHALLENGE_FACTOR \subseteq [id : Ids, ip : IPs, port : Ports, at : Times]
  /\ ALLOWED_IP \subseteq [ip : IPs, port : Ports, at : Times]
  /\ cached_allowed \in [Clients -> Times \cup {Never}]
  /\ time_prev \in Times
  /\ pc \in [Threads -> Pc]
  /\ req \in [Threads -> Requests \cup {NoRequest}]
  /\ loc \in [Threads -> Locals]
  /\ challenged \subseteq Clients
  /\ granted \in [Clients -> Times \cup {Never}]
  /\ answered \in [Clients -> Times \cup {Never}]

Init ==
  /\ now = 0
  /\ SEQ_ID = {} /\ ID_TO_PORT = {}
  /\ CHALLENGE_FACTOR = {} /\ ALLOWED_IP = {}
  /\ cached_allowed = [k \in Clients |-> Never]
  /\ time_prev = 0
  /\ pc = [th \in Threads |-> "idle"]
  /\ req = [th \in Threads |-> NoRequest]
  /\ loc = [th \in Threads |-> NoLocals]
  /\ challenged = {}
  /\ granted = [k \in Clients |-> Never]
  /\ answered = [k \in Clients |-> Never]

Goto(th, label) == pc' = [pc EXCEPT ![th] = label] /\ UNCHANGED req

\* The response is sent and the thread waits for the next request.
Done(th) ==
  /\ pc' = [pc EXCEPT ![th] = "idle"]
  /\ req' = [req EXCEPT ![th] = NoRequest]
  /\ loc' = [loc EXCEPT ![th] = NoLocals]

\* Statement s of thread th fails, and with it the request.
Fails(th, s) == s \in MayFail /\ Done(th) /\ UNCHANGED tables

\* unordered_map::insert keeps the entry that is there.
CacheInsert(k, t) ==
  cached_allowed' = [cached_allowed EXCEPT ![k] = IF @ = Never THEN t ELSE @]

-----------------------------------------------------------------------------
(* A request arrives.                                                      *)

\* The handler that the url selects starts here.
FirstStep(kind) ==
  CASE kind = "page" -> "cache"
    [] kind = "js" -> "cleanup_challenges"
    [] kind = "api" -> "read_challenge"

\* time_now is taken, the request is read, init_sqlite succeeds (if it does
\* not, an error is sent and nothing happens).  An id or an answer that
\* matches no row is as good as NoId.
Arrive(th, kind, ip, port, id) ==
  /\ pc[th] = "idle"
  /\ id \in CASE kind = "page" -> {NoId}
              [] kind = "js" -> {NoId} \cup {r.id : r \in ID_TO_PORT}
              [] kind = "api" -> {NoId} \cup {r.id : r \in CHALLENGE_FACTOR}
  /\ req' = [req EXCEPT ![th] = [kind |-> kind, ip |-> ip, port |-> port,
                                 id |-> id, t0 |-> now]]
  /\ pc' = [pc EXCEPT ![th] = FirstStep(kind)]
  /\ UNCHANGED <<now, tables, cache, loc, history>>

Reply(th) ==
  /\ pc[th] \in {"forward", "issued", "correct"}
  /\ Done(th)
  /\ UNCHANGED <<now, tables, cache, history>>

-----------------------------------------------------------------------------
(* Any other url: forward if the client is allowed, else a challenge page. *)

Client(th) == <<req[th].ip, req[th].port>>

\* Mutant of CacheLookup: the age of the entry is not looked at.
CacheLookupNoExpiry(th) ==
  /\ pc[th] = "cache"
  /\ Goto(th, IF cached_allowed[Client(th)] = Never THEN "cleanup_allowed"
                                                    ELSE "forward")
  /\ UNCHANGED <<now, tables, cache, loc, history>>

CacheLookup(th) ==
  /\ pc[th] = "cache"
  /\ LET t == cached_allowed[Client(th)] IN
       \/ /\ t = Never
          /\ Goto(th, "cleanup_allowed")
          /\ UNCHANGED cached_allowed
       \/ /\ t # Never
          /\ req[th].t0 - t > CachedTimeout
          /\ Goto(th, "cleanup_allowed")
          /\ cached_allowed' = [cached_allowed EXCEPT ![Client(th)] = Never]
       \/ /\ t # Never
          /\ req[th].t0 - t <= CachedTimeout
          /\ Goto(th, "forward")
          /\ UNCHANGED cached_allowed
  /\ UNCHANGED <<now, tables, time_prev, loc, history>>

\* Mutant of CleanupAllowed: off by one.
CleanupAllowedEarly(th) ==
  /\ pc[th] = "cleanup_allowed"
  /\ ALLOWED_IP' = {r \in ALLOWED_IP : r.at + AllowedTimeout > now}
  /\ Goto(th, "is_allowed")
  /\ UNCHANGED <<now, SEQ_ID, ID_TO_PORT, CHALLENGE_FACTOR, cache, loc, history>>

\* A failure of this DELETE is ignored.
CleanupAllowed(th) ==
  /\ pc[th] = "cleanup_allowed"
  /\ \/ ALLOWED_IP' = {r \in ALLOWED_IP : r.at + AllowedTimeout >= now}
     \/ "cleanup_allowed" \in MayFail /\ UNCHANGED ALLOWED_IP
  /\ Goto(th, "is_allowed")
  /\ UNCHANGED <<now, SEQ_ID, ID_TO_PORT, CHALLENGE_FACTOR, cache, loc, history>>

\* An error counts as "not allowed".
IsAllowed(th) ==
  /\ pc[th] = "is_allowed"
  /\ \/ /\ \E r \in ALLOWED_IP : <<r.ip, r.port>> = Client(th)
        /\ Goto(th, "cache_allowed")
     \/ /\ \/ "is_allowed" \in MayFail
           \/ \A r \in ALLOWED_IP : <<r.ip, r.port>> # Client(th)
        /\ Goto(th, "cleanup_ids")
  /\ UNCHANGED <<now, tables, cache, loc, history>>

CacheAllowed(th) ==
  /\ pc[th] = "cache_allowed"
  /\ CacheInsert(Client(th), req[th].t0)
  /\ Goto(th, "forward")
  /\ UNCHANGED <<now, tables, time_prev, loc, history>>

CleanupIdToPorts(th) ==
  /\ pc[th] = "cleanup_ids"
  /\ \/ ID_TO_PORT' = {r \in ID_TO_PORT : r.at + ChallengeTimeout >= now}
     \/ "cleanup_ids" \in MayFail /\ UNCHANGED ID_TO_PORT
  /\ Goto(th, "seq_read")
  /\ UNCHANGED <<now, SEQ_ID, CHALLENGE_FACTOR, ALLOWED_IP, cache, loc, history>>

\* The last statement of init_id_to_port; ID is the primary key.  Its error
\* is not looked at: the page is sent with an empty id.
InsertIdToPort(th) ==
  /\ pc[th] = "insert_id"
  /\ \/ /\ \A r \in ID_TO_PORT : r.id # loc[th].id
        /\ ID_TO_PORT' = ID_TO_PORT \cup {[id |-> loc[th].id,
                                           port |-> req[th].port, at |-> now]}
        /\ Goto(th, "issued")
        /\ UNCHANGED loc
     \/ /\ "insert_id" \in MayFail \/ \E r \in ID_TO_PORT : r.id = loc[th].id
        /\ Done(th)
        /\ UNCHANGED ID_TO_PORT
  /\ UNCHANGED <<now, SEQ_ID, CHALLENGE_FACTOR, ALLOWED_IP, cache, history>>

-----------------------------------------------------------------------------
(* A new id, for init_id_to_port and for generate_challenge.               *)

\* internal_increment_seq_id: SELECT, of which the first row counts ...
SeqRead(th) ==
  /\ pc[th] = "seq_read"
  /\ \/ Fails(th, "seq_read")
     \/ /\ \/ SEQ_ID = {} /\ loc' = [loc EXCEPT ![th].val = 0]
           \/ \E v \in SEQ_ID : /\ \A w \in SEQ_ID : v <= w
                                /\ loc' = [loc EXCEPT ![th].val = v]
        /\ Goto(th, "seq_write")
        /\ UNCHANGED tables
  /\ UNCHANGED <<now, cache, history>>

\* Mutant of NextSeq: does not start again.
NextSeqNoWrap(v) == v + 1

NextSeq(v) == IF v + 1 >= SeqLimit THEN 1 ELSE v + 1

\* ... then INSERT or UPDATE.  The number read is returned, 1 after the
\* INSERT.  ID is the primary key: the INSERT fails if there is a row 1, and
\* the UPDATE, which sets every row, fails if there are several.
SeqWrite(th) ==
  /\ pc[th] = "seq_write"
  /\ \/ Fails(th, "seq_write")
     \/ /\ loc[th].val = 0
        /\ 1 \notin SEQ_ID
        /\ SEQ_ID' = SEQ_ID \cup {1}
        /\ loc' = [loc EXCEPT ![th].val = 1]
        /\ Goto(th, "exists")
     \/ /\ loc[th].val # 0
        /\ Cardinality(SEQ_ID) <= 1
        /\ SEQ_ID' = {NextSeq(loc[th].val) : v \in SEQ_ID}
        /\ Goto(th, "exists")
        /\ UNCHANGED loc
     \/ /\ \/ loc[th].val = 0 /\ 1 \in SEQ_ID
           \/ loc[th].val # 0 /\ Cardinality(SEQ_ID) > 1
        /\ Done(th)
        /\ UNCHANGED SEQ_ID
  /\ UNCHANGED <<now, ID_TO_PORT, CHALLENGE_FACTOR, ALLOWED_IP, cache, history>>

TableIds(th) ==
  IF req[th].kind = "page" THEN {r.id : r \in ID_TO_PORT}
                           ELSE {r.id : r \in CHALLENGE_FACTOR}

\* next_hash and the SELECT that looks for it; another round if it is there.
Exists(th) ==
  /\ pc[th] = "exists"
  /\ \/ Fails(th, "exists")
     \/ \E r \in Rand :
          LET id == <<loc[th].val, r>> IN
            \/ /\ id \in TableIds(th)
               /\ Goto(th, "seq_read")
               /\ UNCHANGED loc
            \/ /\ id \notin TableIds(th)
               /\ loc' = [loc EXCEPT ![th].id = id]
               /\ Goto(th, IF req[th].kind = "page" THEN "insert_id"
                                                    ELSE "insert_challenge")
  /\ UNCHANGED <<now, tables, cache, history>>

-----------------------------------------------------------------------------
(* js_factors_url: generate_challenge.                                     *)

\* A failure is ignored.
CleanupChallenges(th) ==
  /\ pc[th] = "cleanup_challenges"
  /\ \/ CHALLENGE_FACTOR' = {r \in CHALLENGE_FACTOR :
                               r.at + ChallengeTimeout >= now}
     \/ "cleanup_challenges" \in MayFail /\ UNCHANGED CHALLENGE_FACTOR
  /\ Goto(th, "read_port")
  /\ UNCHANGED <<now, SEQ_ID, ID_TO_PORT, ALLOWED_IP, cache, loc, history>>

ReadPort(th) ==
  /\ pc[th] = "read_port"
  /\ \/ Fails(th, "read_port")
     \/ \E r \in ID_TO_PORT :
          /\ r.id = req[th].id
          /\ loc' = [loc EXCEPT ![th].port = r.port]
          /\ Goto(th, "delete_id")
     \/ /\ \A r \in ID_TO_PORT : r.id # req[th].id
        /\ Done(th)
  /\ UNCHANGED <<now, tables, cache, history>>

\* A failure is ignored.
DeleteId(th) ==
  /\ pc[th] = "delete_id"
  /\ \/ ID_TO_PORT' = {r \in ID_TO_PORT : r.id # req[th].id}
     \/ "delete_id" \in MayFail /\ UNCHANGED ID_TO_PORT
  /\ Goto(th, "seq_read")
  /\ UNCHANGED <<now, SEQ_ID, CHALLENGE_FACTOR, ALLOWED_IP, cache, loc, history>>

InsertChallenge(th) ==
  /\ pc[th] = "insert_challenge"
  /\ \/ /\ \A r \in CHALLENGE_FACTOR : r.id # loc[th].id
        /\ CHALLENGE_FACTOR' =
             CHALLENGE_FACTOR \cup {[id |-> loc[th].id, ip |-> req[th].ip,
                                     port |-> loc[th].port, at |-> now]}
        /\ challenged' = challenged \cup {<<req[th].ip, loc[th].port>>}
        /\ Goto(th, "issued")
        /\ UNCHANGED loc
     \/ /\ \/ "insert_challenge" \in MayFail
           \/ \E r \in CHALLENGE_FACTOR : r.id = loc[th].id
        /\ Done(th)
        /\ UNCHANGED <<CHALLENGE_FACTOR, challenged>>
  /\ UNCHANGED <<now, SEQ_ID, ID_TO_PORT, ALLOWED_IP, cache, granted,
                 answered>>

-----------------------------------------------------------------------------
(* api_url: verify_answer.                                                 *)

\* SELECT by id and answer, then the comparison of the addresses.
ReadChallenge(th) ==
  /\ pc[th] = "read_challenge"
  /\ \/ Fails(th, "read_challenge")
     \/ \E r \in CHALLENGE_FACTOR :
          /\ r.id = req[th].id
          /\ r.ip = req[th].ip
          /\ loc' = [loc EXCEPT ![th].port = r.port, ![th].at = r.at]
          /\ Goto(th, "delete_challenge")
     \/ /\ \A r \in CHALLENGE_FACTOR : r.id = req[th].id => r.ip # req[th].ip
        /\ Done(th)
  /\ UNCHANGED <<now, tables, cache, history>>

DeleteChallenge(th) ==
  /\ pc[th] = "delete_challenge"
  /\ \/ Fails(th, "delete_challenge")
     \/ /\ CHALLENGE_FACTOR' = {r \in CHALLENGE_FACTOR : r.id # req[th].id}
        /\ Goto(th, "insert_allowed")
        /\ UNCHANGED <<SEQ_ID, ID_TO_PORT, ALLOWED_IP, loc>>
  /\ UNCHANGED <<now, cache, history>>

\* Mutant of InsertAllowed: for the port of the request, not of the challenge.
InsertAllowedPostPort(th) ==
  /\ pc[th] = "insert_allowed"
  /\ ALLOWED_IP' = ALLOWED_IP \cup {[ip |-> req[th].ip,
                                     port |-> req[th].port, at |-> now]}
  /\ granted' = [granted EXCEPT ![<<req[th].ip, req[th].port>>] = now]
  /\ Goto(th, "cache_correct")
  /\ UNCHANGED <<now, SEQ_ID, ID_TO_PORT, CHALLENGE_FACTOR, cache, loc,
                 challenged, answered>>

InsertAllowed(th) ==
  /\ pc[th] = "insert_allowed"
  /\ \/ Fails(th, "insert_allowed") /\ UNCHANGED granted
     \/ /\ ALLOWED_IP' = ALLOWED_IP \cup {[ip |-> req[th].ip,
                                           port |-> loc[th].port,
                                           at |-> now]}
        /\ granted' = [granted EXCEPT ![<<req[th].ip, loc[th].port>>] = now]
        /\ Goto(th, "cache_correct")
        /\ UNCHANGED <<SEQ_ID, ID_TO_PORT, CHALLENGE_FACTOR, loc>>
  /\ UNCHANGED <<now, cache, challenged, answered>>

\* The key is the port the answer was posted to, whatever port the challenge
\* was for; the time is that of the arrival of the answer.
CacheCorrect(th) ==
  /\ pc[th] = "cache_correct"
  /\ CacheInsert(Client(th), req[th].t0)
  /\ answered' = [answered EXCEPT ![Client(th)] = now]
  /\ Goto(th, "correct")
  /\ UNCHANGED <<now, tables, time_prev, loc, challenged, granted>>

-----------------------------------------------------------------------------
(* The main loop, the clock, and the end of the process.                   *)

ClearCache ==
  /\ now - time_prev > CachedClear
  /\ time_prev' = now
  /\ cached_allowed' = [k \in Clients |-> Never]
  /\ UNCHANGED <<now, tables, pc, req, loc, history>>

Tick ==
  /\ now < MaxTime
  /\ now' = now + 1
  /\ UNCHANGED <<tables, cache, pc, req, loc, history>>

\* The process dies and is started again: the tables stay.
Crash ==
  /\ MayCrash
  /\ pc' = [th \in Threads |-> "idle"]
  /\ req' = [th \in Threads |-> NoRequest]
  /\ loc' = [th \in Threads |-> NoLocals]
  /\ cached_allowed' = [k \in Clients |-> Never]
  /\ time_prev' = now
  /\ UNCHANGED <<now, tables, history>>

-----------------------------------------------------------------------------
PageStep(th) ==
  \/ CacheLookup(th) \/ CleanupAllowed(th) \/ IsAllowed(th)
  \/ CacheAllowed(th) \/ CleanupIdToPorts(th) \/ InsertIdToPort(th)

IdStep(th) == SeqRead(th) \/ SeqWrite(th) \/ Exists(th)

JsStep(th) ==
  \/ CleanupChallenges(th) \/ ReadPort(th) \/ DeleteId(th)
  \/ InsertChallenge(th)

ApiStep(th) ==
  \/ ReadChallenge(th) \/ DeleteChallenge(th) \/ InsertAllowed(th)
  \/ CacheCorrect(th)

ThreadStep(th) ==
  PageStep(th) \/ IdStep(th) \/ JsStep(th) \/ ApiStep(th)
    \/ Reply(th)

Next ==
  \/ \E th \in Threads : ThreadStep(th)
  \/ \E th \in Threads, kind \in {"page", "js", "api"}, ip \in IPs,
        port \in Ports, id \in Ids \cup {NoId} : Arrive(th, kind, ip, port, id)
  \/ ClearCache
  \/ Tick
  \/ Crash

Spec == Init /\ [][Next]_vars

\* Threads that have a request make progress; nobody promises a request.
FairSpec == Spec /\ \A th \in Threads : WF_vars(ThreadStep(th))

-----------------------------------------------------------------------------
(* Properties                                                              *)

\* A grant that has not expired is in the table, whatever other threads
\* delete at the same time and whether or not the process died since: the
\* client is not asked again before AllowedTimeout.
GrantSurvives ==
  \A k \in Clients :
    granted[k] # Never /\ now <= granted[k] + AllowedTimeout =>
      [ip |-> k[1], port |-> k[2], at |-> granted[k]] \in ALLOWED_IP

\* The grant names the port the challenge was for, the cache entry the port
\* the answer was posted to.  So a client is forwarded on a port it was never
\* granted, but only one to which it posted a good answer, and only for
\* CachedTimeout from then: nothing that threads do with the cache or the
\* table in between (an entry kept by insert, a cleanup that fails, the
\* renewal of an entry from the table) makes this any longer.
OwnPort ==
  \A th \in Threads : pc[th] = "forward" =>
    \/ granted[Client(th)] # Never
    \/ /\ answered[Client(th)] # Never
       /\ req[th].t0 <= answered[Client(th)] + CachedTimeout

\* README: "It is generated per request".  A request needs a number from
\* SEQ_ID first: as long as requests ask for one, some of them get one.
NumbersKeepComing ==
  ([]<>\E th \in Threads : pc[th] = "seq_write")
    => []<>(\E th \in Threads : pc[th] = "exists")

\* The gate keeps the promise of AccessGate (as long as the cleanup of
\* ALLOWED_IP is not among the statements that fail).
Nothing == [ip |-> NoId, port |-> NoPort, at |-> Never]

Forwarding ==
  [th \in Threads |->
     IF pc[th] = "forward"
     THEN [ip |-> req[th].ip, port |-> req[th].port, at |-> req[th].t0]
     ELSE Nothing]

Gate == INSTANCE AccessGate WITH forwarding <- Forwarding

GateSpec == Gate!Spec
=============================================================================
