------------------------------ MODULE MsqlGate ------------------------------
(***************************************************************************)
(* The challenge gate of cxx_impl with its MySQL back end (--enable-mysql):*)
(* the request part of thread_handle_connection_fn and the queries at the  *)
(* end of db_msql.cc.                                                      *)
(*                                                                         *)
(* Every connection thread has a session of its own.  A statement is one   *)
(* action; LOCK TABLE gives the session one table and takes away the one   *)
(* it had.  A statement named in MayFail may be refused; the session of a  *)
(* thread in MayBreak may be lost, before a statement or after it ran.     *)
(* The Connection object goes on to call itself valid: every later         *)
(* statement of the thread fails, until its client has gone.  That the     *)
(* answer of a statement is the one its caller gets is MsqlClient's matter.*)
(***************************************************************************)
EXTENDS Integers, Sequences, FiniteSets

CONSTANTS
  Threads, IPs, Ports,
  AllowedTimeout, ChallengeTimeout, CachedTimeout,
  SeqLimit,          \* 0xFFFFFFFFFFFFFFFF, where SEQ_ID starts again at 1
  Rand,              \* what rand_uint64_t may return
  MayFail,           \* names of the statements that the server may refuse
  MayBreak,          \* the threads whose sessions may be lost
  MaxTime,           \* bound: the clock stops here
  MaxRows,           \* bound: ids (and challenges) stored or being made
  NoId, NoPort, NoRequest

ASSUME MsqlAssumption ==
  /\ AllowedTimeout \in Nat /\ ChallengeTimeout \in Nat
  /\ CachedTimeout \in Nat /\ MaxTime \in Nat /\ MaxRows \in Nat
  /\ SeqLimit \in Nat /\ SeqLimit > 1
  /\ MayBreak \subseteq Threads
  /\ NoPort \notin Ports

VARIABLES
  now,
  SEQ_ID,                \* CXX_SEQ_ID_1, its rows in the order of their keys
  ID_TO_PORT, CHALLENGE_FACTORS, ALLOWED_IPS,
  held,                  \* held[th]: the lock of the session of th
  dead,                  \* dead[th]: that session is lost
  cached_allowed,        \* cached_allowed[ip, port]: a time, or Never
  pc, req, loc,
  wrapped,               \* history: SEQ_ID started again at 1
  redeemed, kept,        \* history: ids whose answer counted; whose DELETE failed
  challenged, granted    \* history, as AccessGate has it

tables == <<SEQ_ID, ID_TO_PORT, CHALLENGE_FACTORS, ALLOWED_IPS>>
history == <<wrapped, redeemed, kept, challenged, granted>>
thread == <<pc, req, loc>>
vars == <<now, tables, held, dead, cached_allowed, thread, history>>

Never == -1
Times == 0..MaxTime
Clients == IPs \X Ports
Ids == (0..(SeqLimit - 1)) \X Rand
Requests == [kind : {"page", "js", "api"}, ip : IPs, port : Ports,
             id : Ids \cup {NoId}, t0 : Times]

NoLock == [table |-> "none", mode |-> "none"]
Lock(table, mode) == [table |-> table, mode |-> mode]

\* The statements: the table each is about and whether it reads or writes.
Table(s) ==
  CASE s \in {"lock_seq", "seq_read", "seq_write"} -> "seq"
    [] s \in {"lock_ids", "cleanup_ids", "exists_id", "insert_id",
              "read_port", "delete_id"} -> "ids"
    [] s \in {"lock_chal", "cleanup_chal", "exists", "insert_chal",
              "read_chal", "delete_chal"} -> "chal"
    [] s \in {"lock_allowed", "cleanup_allowed", "lock_allowed_r",
              "is_allowed", "insert_allowed"} -> "allowed"

Locking == {"lock_seq", "lock_ids", "lock_chal", "lock_allowed",
            "lock_allowed_r"}
Reading == {"seq_read", "exists_id", "read_port", "exists", "read_chal",
            "is_allowed"}
Writing == {"seq_write", "cleanup_ids", "insert_id", "delete_id",
            "cleanup_chal", "insert_chal", "delete_chal", "cleanup_allowed",
            "insert_allowed"}
Statements == Locking \cup Reading \cup Writing

Mode(s) == IF s \in Reading \cup {"lock_allowed_r"} THEN "READ" ELSE "WRITE"

\* ret: where to go after UNLOCK TABLES, to a statement that needs no table
\* locked; val: the sequence number in hand.
Returns == {"idle", "issued", "cache_allowed", "lock_allowed_r", "lock_seq",
            "lock_ids", "exists", "insert_allowed"}
Locals == [ret : Returns,
           val : Never..(SeqLimit - 1), id : Ids \cup {NoId},
           port : Ports \cup {NoPort}, at : Times]
NoLocals == [ret |-> "idle", val |-> Never, id |-> NoId, port |-> NoPort,
             at |-> 0]

TypeOK ==
  /\ now \in Times
  /\ SEQ_ID \in Seq(1..(SeqLimit - 1))
  /\ ID_TO_PORT \subseteq [id : Ids, port : Ports, at : Times]
  /\ CHALLENGE_FACTORS \subseteq [id : Ids, ip : IPs, port : Ports, at : Times]
  /\ ALLOWED_IPS \subseteq [ip : IPs, port : Ports, at : Times]
  /\ held \in [Threads -> {NoLock} \cup
                          [table : {"seq", "ids", "chal", "allowed"},
                           mode : {"READ", "WRITE"}]]
  /\ dead \in [Threads -> BOOLEAN]
  /\ cached_allowed \in [Clients -> Times \cup {Never}]
  /\ pc \in [Threads -> Statements \cup {"idle", "cache", "unlock",
                "cache_allowed", "forward", "cache_correct", "issued",
                "correct"}]
  /\ req \in [Threads -> Requests \cup {NoRequest}]
  /\ loc \in [Threads -> Locals]
  /\ wrapped \in BOOLEAN
  /\ redeemed \subseteq Ids /\ kept \subseteq Ids
  /\ challenged \subseteq Clients
  /\ granted \in [Clients -> Times \cup {Never}]

Init ==
  /\ now = 0
  /\ SEQ_ID = <<>> /\ ID_TO_PORT = {}
  /\ CHALLENGE_FACTORS = {} /\ ALLOWED_IPS = {}
  /\ held = [th \in Threads |-> NoLock]
  /\ dead = [th \in Threads |-> FALSE]
  /\ cached_allowed = [k \in Clients |-> Never]
  /\ pc = [th \in Threads |-> "idle"]
  /\ req = [th \in Threads |-> NoRequest]
  /\ loc = [th \in Threads |-> NoLocals]
  /\ wrapped = FALSE /\ redeemed = {} /\ kept = {}
  /\ challenged = {} /\ granted = [k \in Clients |-> Never]

-----------------------------------------------------------------------------
(* Sessions and locks.                                                     *)

\* What a session asks for fits with the locks of the others.
Compatible(th, s) ==
  \A u \in Threads \ {th} :
    held[u].table = Table(s) => Mode(s) = "READ" /\ held[u].mode = "READ"

\* Statement s of th is run by the server; it waits for the locks of others.
Runs(th, s) == pc[th] = s /\ ~dead[th] /\ Compatible(th, s)

Step(th, l, next) ==
  /\ pc' = [pc EXCEPT ![th] = next]
  /\ loc' = [loc EXCEPT ![th] = l]
  /\ UNCHANGED req

\* The response is sent and the thread waits for the next request.
Done(th) ==
  /\ pc' = [pc EXCEPT ![th] = "idle"]
  /\ loc' = [loc EXCEPT ![th] = NoLocals]
  /\ req' = [req EXCEPT ![th] = NoRequest]

Unlocking(th, l, ret) == Step(th, [l EXCEPT !.ret = ret], "unlock")

\* What the code does when a statement has no value: it returns an error, at
\* once or after UNLOCK TABLES.  Two errors are not looked at.
Failing(th) ==
  \/ /\ pc[th] \in Locking \cup {"exists", "insert_allowed"}
     /\ Done(th)
  \/ /\ pc[th] = "cleanup_ids"
     /\ Step(th, loc[th], "exists_id")
  \/ /\ pc[th] = "delete_chal"
     /\ Unlocking(th, loc[th], "insert_allowed")
  \/ /\ pc[th] \in Statements \ (Locking \cup {"exists", "insert_allowed",
                                               "cleanup_ids", "delete_chal"})
     /\ Unlocking(th, NoLocals, "idle")

\* The server ran the statement: the caller goes on with locals l at next, or
\* it never gets the answer.
Answer(th, l, next) ==
  \/ Step(th, l, next) /\ UNCHANGED dead
  \/ /\ th \in MayBreak
     /\ dead' = [dead EXCEPT ![th] = TRUE]
     /\ Failing(th)

\* The same for a statement that is followed by UNLOCK TABLES.
AnswerUnlock(th, l, ret) == Answer(th, [l EXCEPT !.ret = ret], "unlock")

Refuse(th) ==
  /\ pc[th] \in Statements
  /\ dead[th] \/ (pc[th] \in MayFail /\ Compatible(th, pc[th]))
  /\ Failing(th)
  /\ IF pc[th] = "delete_chal" /\ ~dead[th]
     THEN /\ redeemed' = redeemed \cup {req[th].id}
          /\ kept' = kept \cup {req[th].id}
     ELSE UNCHANGED <<redeemed, kept>>
  /\ UNCHANGED <<now, tables, held, dead, cached_allowed, wrapped, challenged,
                 granted>>

Break(th) ==
  /\ th \in MayBreak /\ ~dead[th]
  /\ dead' = [dead EXCEPT ![th] = TRUE]
  /\ UNCHANGED <<now, tables, held, cached_allowed, thread, history>>

\* The server notices that the session is lost and releases its lock.
Drop(th) ==
  /\ dead[th] /\ held[th] # NoLock
  /\ held' = [held EXCEPT ![th] = NoLock]
  /\ UNCHANGED <<now, tables, dead, cached_allowed, thread, history>>

\* The client of the thread is gone and with it its Connection; the next
\* client of the thread gets a new session.
Reconnect(th) ==
  /\ pc[th] = "idle" /\ dead[th] /\ held[th] = NoLock
  /\ dead' = [dead EXCEPT ![th] = FALSE]
  /\ UNCHANGED <<now, tables, held, cached_allowed, thread, history>>

AfterLock(th) ==
  CASE pc[th] = "lock_seq" -> "seq_read"
    [] pc[th] = "lock_ids" ->
         IF req[th].kind = "page" THEN "cleanup_ids" ELSE "read_port"
    [] pc[th] = "lock_chal" -> "cleanup_chal"
    [] pc[th] = "lock_allowed" -> "cleanup_allowed"
    [] pc[th] = "lock_allowed_r" -> "is_allowed"

LockTable(th) ==
  /\ pc[th] \in Locking
  /\ Runs(th, pc[th])
  /\ held' = [held EXCEPT ![th] = Lock(Table(pc[th]), Mode(pc[th]))]
  /\ Answer(th, loc[th], AfterLock(th))
  /\ UNCHANGED <<now, tables, cached_allowed, history>>

\* UNLOCK TABLES; its result is never looked at.
UnlockTables(th) ==
  /\ pc[th] = "unlock"
  /\ held' = IF dead[th] THEN held ELSE [held EXCEPT ![th] = NoLock]
  /\ IF loc[th].ret = "idle" THEN Done(th)
     ELSE Step(th, [loc[th] EXCEPT !.ret = "idle"], loc[th].ret)
  /\ UNCHANGED <<now, tables, dead, cached_allowed, history>>

-----------------------------------------------------------------------------
(* A request arrives.                                                      *)

FirstStep(kind) ==
  CASE kind = "page" -> "cache"
    [] kind = "js" -> "lock_ids"
    [] kind = "api" -> "lock_chal"

\* The rows of table t and the requests that are about to add one.
Rows(t, kind) ==
  Cardinality(t) + Cardinality({th \in Threads : req[th] # NoRequest
                                                 /\ req[th].kind = kind})

\* An id or an answer that matches no row is as good as NoId.
Arrive(th, kind, ip, port, id) ==
  /\ pc[th] = "idle"
  /\ \/ kind = "page" /\ id = NoId /\ Rows(ID_TO_PORT, "page") < MaxRows
     \/ /\ kind = "js"
        /\ id \in {NoId} \cup {r.id : r \in ID_TO_PORT}
        /\ Rows(CHALLENGE_FACTORS, "js") < MaxRows
     \/ kind = "api" /\ id \in {NoId} \cup {r.id : r \in CHALLENGE_FACTORS}
  /\ req' = [req EXCEPT ![th] = [kind |-> kind, ip |-> ip, port |-> port,
                                 id |-> id, t0 |-> now]]
  /\ pc' = [pc EXCEPT ![th] = FirstStep(kind)]
  /\ UNCHANGED <<now, tables, held, dead, cached_allowed, loc, history>>

Reply(th) ==
  /\ pc[th] \in {"forward", "issued", "correct"}
  /\ Done(th)
  /\ UNCHANGED <<now, tables, held, dead, cached_allowed, history>>

-----------------------------------------------------------------------------
(* Any other url: client_is_allowed, then forward or init_id_to_port.      *)

Client(th) == <<req[th].ip, req[th].port>>

\* Mutant of CacheLookup: the age of the entry is not looked at.
CacheLookupNoExpiry(th) ==
  /\ pc[th] = "cache"
  /\ Step(th, loc[th], IF cached_allowed[Client(th)] # Never THEN "forward"
                                                           ELSE "lock_allowed")
  /\ UNCHANGED <<now, tables, held, dead, cached_allowed, history>>

CacheLookup(th) ==
  /\ pc[th] = "cache"
  /\ LET t == cached_allowed[Client(th)]
         fresh == t # Never /\ req[th].t0 - t <= CachedTimeout
     IN /\ Step(th, loc[th], IF fresh THEN "forward" ELSE "lock_allowed")
        /\ cached_allowed' = [cached_allowed EXCEPT ![Client(th)] =
                                IF fresh THEN t ELSE Never]
  /\ UNCHANGED <<now, tables, held, dead, history>>

\* Mutant of Live: keeps a row for one unit more.
LiveOneMore(t, timeout) == {r \in t : now - r.at < timeout + 1}

\* What the cleanup statements leave: TIMESTAMPDIFF >= timeout is deleted.
Live(t, timeout) == {r \in t : now - r.at < timeout}

CleanupAllowed(th) ==
  /\ Runs(th, "cleanup_allowed")
  /\ ALLOWED_IPS' = Live(ALLOWED_IPS, AllowedTimeout)
  /\ AnswerUnlock(th, loc[th], "lock_allowed_r")
  /\ UNCHANGED <<now, SEQ_ID, ID_TO_PORT, CHALLENGE_FACTORS, held,
                 cached_allowed, history>>

IsAllowed(th) ==
  /\ Runs(th, "is_allowed")
  /\ AnswerUnlock(th, loc[th],
       IF \E r \in ALLOWED_IPS : <<r.ip, r.port>> = Client(th)
       THEN "cache_allowed" ELSE "lock_seq")
  /\ UNCHANGED <<now, tables, held, cached_allowed, history>>

\* unordered_map::insert keeps the entry that is there.
CacheInsert(th, next) ==
  /\ cached_allowed' = [cached_allowed EXCEPT ![Client(th)] =
                          IF @ = Never THEN req[th].t0 ELSE @]
  /\ Step(th, loc[th], next)
  /\ UNCHANGED <<now, tables, held, dead, history>>

CacheAllowed(th) == pc[th] = "cache_allowed" /\ CacheInsert(th, "forward")

CleanupIdToPorts(th) ==
  /\ Runs(th, "cleanup_ids")
  /\ ID_TO_PORT' = Live(ID_TO_PORT, ChallengeTimeout)
  /\ Answer(th, loc[th], "exists_id")
  /\ UNCHANGED <<now, SEQ_ID, CHALLENGE_FACTORS, ALLOWED_IPS, held,
                 cached_allowed, history>>

\* next_hash of the same number until the id is not in use.
ExistsId(th, r) ==
  /\ Runs(th, "exists_id")
  /\ LET id == <<loc[th].val, r>> IN
       Answer(th, [loc[th] EXCEPT !.id = id],
              IF \E row \in ID_TO_PORT : row.id = id THEN "exists_id"
                                                     ELSE "insert_id")
  /\ UNCHANGED <<now, tables, held, cached_allowed, history>>

InsertIdToPort(th) ==
  /\ Runs(th, "insert_id")
  /\ \A r \in ID_TO_PORT : r.id # loc[th].id
  /\ ID_TO_PORT' = ID_TO_PORT \cup {[id |-> loc[th].id,
                                     port |-> req[th].port, at |-> now]}
  /\ AnswerUnlock(th, NoLocals, "issued")
  /\ UNCHANGED <<now, SEQ_ID, CHALLENGE_FACTORS, ALLOWED_IPS, held,
                 cached_allowed, history>>

-----------------------------------------------------------------------------
(* get_next_seq_id                                                         *)

\* Mutant of SeqRead: the lock is given back before the UPDATE.
SeqReadUnlocks(th) ==
  /\ Runs(th, "seq_read")
  /\ held' = [held EXCEPT ![th] = NoLock]
  /\ Step(th, [loc[th] EXCEPT !.val = IF SEQ_ID = <<>> THEN 0
                                      ELSE SEQ_ID[Len(SEQ_ID)]],
          "seq_write")
  /\ UNCHANGED <<now, tables, dead, cached_allowed, history>>

\* 0 stands for an empty table.
SeqRead(th) ==
  /\ Runs(th, "seq_read")
  /\ Answer(th, [loc[th] EXCEPT !.val = IF SEQ_ID = <<>> THEN 0
                                        ELSE SEQ_ID[Len(SEQ_ID)]],
            "seq_write")
  /\ UNCHANGED <<now, tables, held, cached_allowed, history>>

\* Mutant of NextSeq: does not start again.
NextSeqNoWrap(v) == v + 1

NextSeq(v) == IF v >= SeqLimit - 1 THEN 1 ELSE v + 1

\* INSERT into an empty table, else UPDATE; the number read is returned.
SeqWrite(th) ==
  /\ Runs(th, "seq_write")
  /\ LET v == loc[th].val IN
       /\ SEQ_ID' = IF v = 0 THEN Append(SEQ_ID, 1)
                    ELSE [i \in DOMAIN SEQ_ID |-> NextSeq(v)]
       /\ wrapped' = (wrapped \/ v >= SeqLimit - 1)
  /\ AnswerUnlock(th, loc[th],
                  IF req[th].kind = "page" THEN "lock_ids" ELSE "exists")
  /\ UNCHANGED <<now, ID_TO_PORT, CHALLENGE_FACTORS, ALLOWED_IPS, held,
                 cached_allowed, redeemed, kept, challenged, granted>>

-----------------------------------------------------------------------------
(* js_factors_url: get_id_to_port_port, then set_challenge_factor.         *)

\* Mutant of ReadPort: no UNLOCK TABLES if the id is not there.
ReadPortKeepsLock(th) ==
  /\ Runs(th, "read_port")
  /\ \/ \E r \in ID_TO_PORT :
          /\ r.id = req[th].id
          /\ Step(th, [loc[th] EXCEPT !.port = r.port], "delete_id")
     \/ /\ \A r \in ID_TO_PORT : r.id # req[th].id
        /\ Done(th)
  /\ UNCHANGED <<now, tables, held, dead, cached_allowed, history>>

ReadPort(th) ==
  /\ Runs(th, "read_port")
  /\ \/ \E r \in ID_TO_PORT :
          /\ r.id = req[th].id
          /\ Answer(th, [loc[th] EXCEPT !.port = r.port], "delete_id")
     \/ /\ \A r \in ID_TO_PORT : r.id # req[th].id
        /\ AnswerUnlock(th, NoLocals, "idle")
  /\ UNCHANGED <<now, tables, held, cached_allowed, history>>

DeleteId(th) ==
  /\ Runs(th, "delete_id")
  /\ ID_TO_PORT' = {r \in ID_TO_PORT : r.id # req[th].id}
  /\ AnswerUnlock(th, loc[th], "lock_seq")
  /\ UNCHANGED <<now, SEQ_ID, CHALLENGE_FACTORS, ALLOWED_IPS, held,
                 cached_allowed, history>>

\* next_hash and the SELECT, without a lock; a new number if the id is there.
Exists(th, r) ==
  /\ Runs(th, "exists")
  /\ LET id == <<loc[th].val, r>> IN
       Answer(th, [loc[th] EXCEPT !.id = id],
              IF \E row \in CHALLENGE_FACTORS : row.id = id THEN "lock_seq"
                                                            ELSE "lock_chal")
  /\ UNCHANGED <<now, tables, held, cached_allowed, history>>

\* In set_challenge_factor and in validate_client.
CleanupChallenges(th) ==
  /\ Runs(th, "cleanup_chal")
  /\ CHALLENGE_FACTORS' = Live(CHALLENGE_FACTORS, ChallengeTimeout)
  /\ Answer(th, loc[th],
            IF req[th].kind = "js" THEN "insert_chal" ELSE "read_chal")
  /\ UNCHANGED <<now, SEQ_ID, ID_TO_PORT, ALLOWED_IPS, held, cached_allowed,
                 history>>

\* ID is the primary key: the INSERT is refused if the id came into use since
\* it was looked for.
InsertChallenge(th) ==
  /\ Runs(th, "insert_chal")
  /\ \/ /\ \A r \in CHALLENGE_FACTORS : r.id # loc[th].id
        /\ CHALLENGE_FACTORS' =
             CHALLENGE_FACTORS \cup {[id |-> loc[th].id, ip |-> req[th].ip,
                                      port |-> loc[th].port, at |-> now]}
        /\ challenged' = challenged \cup {<<req[th].ip, loc[th].port>>}
        /\ redeemed' = redeemed \ {loc[th].id}
        /\ kept' = kept \ {loc[th].id}
        /\ AnswerUnlock(th, NoLocals, "issued")
     \/ /\ \E r \in CHALLENGE_FACTORS : r.id = loc[th].id
        /\ Unlocking(th, NoLocals, "idle")
        /\ UNCHANGED <<CHALLENGE_FACTORS, dead, challenged, redeemed, kept>>
  /\ UNCHANGED <<now, SEQ_ID, ID_TO_PORT, ALLOWED_IPS, held, cached_allowed,
                 wrapped, granted>>

-----------------------------------------------------------------------------
(* api_url: validate_client.                                               *)

ReadChallenge(th) ==
  /\ Runs(th, "read_chal")
  /\ \/ \E r \in CHALLENGE_FACTORS :
          /\ r.id = req[th].id /\ r.ip = req[th].ip
          /\ Answer(th, [loc[th] EXCEPT !.port = r.port, !.at = r.at],
                    "delete_chal")
     \/ /\ \A r \in CHALLENGE_FACTORS : r.id = req[th].id => r.ip # req[th].ip
        /\ AnswerUnlock(th, NoLocals, "idle")
  /\ UNCHANGED <<now, tables, held, cached_allowed, history>>

\* Mutant of DeleteChallenge: the lock is given back before the DELETE.
DeleteChallengeUnlocked(th) ==
  /\ Runs(th, "delete_chal")
  /\ IF held[th] # NoLock
     THEN /\ held' = [held EXCEPT ![th] = NoLock]
          /\ UNCHANGED <<CHALLENGE_FACTORS, dead, thread, redeemed>>
     ELSE /\ CHALLENGE_FACTORS' =
               {r \in CHALLENGE_FACTORS : r.id # req[th].id}
          /\ redeemed' = redeemed \cup {req[th].id}
          /\ AnswerUnlock(th, loc[th], "insert_allowed")
          /\ UNCHANGED held
  /\ UNCHANGED <<now, SEQ_ID, ID_TO_PORT, ALLOWED_IPS, cached_allowed,
                 wrapped, kept, challenged, granted>>

DeleteChallenge(th) ==
  /\ Runs(th, "delete_chal")
  /\ CHALLENGE_FACTORS' = {r \in CHALLENGE_FACTORS : r.id # req[th].id}
  /\ redeemed' = redeemed \cup {req[th].id}
  /\ AnswerUnlock(th, loc[th], "insert_allowed")
  /\ UNCHANGED <<now, SEQ_ID, ID_TO_PORT, ALLOWED_IPS, held, cached_allowed,
                 wrapped, kept, challenged, granted>>

\* Without a lock of its own.
InsertAllowed(th) ==
  /\ Runs(th, "insert_allowed")
  /\ ALLOWED_IPS' = ALLOWED_IPS \cup {[ip |-> req[th].ip,
                                       port |-> loc[th].port, at |-> now]}
  /\ granted' = [granted EXCEPT ![<<req[th].ip, loc[th].port>>] = now]
  /\ Answer(th, loc[th], "cache_correct")
  /\ UNCHANGED <<now, SEQ_ID, ID_TO_PORT, CHALLENGE_FACTORS, held,
                 cached_allowed, wrapped, redeemed, kept, challenged>>

CacheCorrect(th) == pc[th] = "cache_correct" /\ CacheInsert(th, "correct")

-----------------------------------------------------------------------------
\* The main loop clears the cache from time to time.
ClearCache ==
  /\ cached_allowed # [k \in Clients |-> Never]
  /\ cached_allowed' = [k \in Clients |-> Never]
  /\ UNCHANGED <<now, tables, held, dead, thread, history>>

Tick ==
  /\ now < MaxTime
  /\ now' = now + 1
  /\ UNCHANGED <<tables, held, dead, cached_allowed, thread, history>>

ThreadStep(th) ==
  \/ LockTable(th) \/ UnlockTables(th) \/ Refuse(th) \/ Reply(th)
  \/ CacheLookup(th) \/ CleanupAllowed(th) \/ IsAllowed(th)
  \/ CacheAllowed(th) \/ CleanupIdToPorts(th) \/ InsertIdToPort(th)
  \/ \E r \in Rand : ExistsId(th, r) \/ Exists(th, r)
  \/ SeqRead(th) \/ SeqWrite(th) \/ ReadPort(th) \/ DeleteId(th)
  \/ CleanupChallenges(th) \/ InsertChallenge(th) \/ ReadChallenge(th)
  \/ DeleteChallenge(th) \/ InsertAllowed(th) \/ CacheCorrect(th)

Next ==
  \/ \E th \in Threads :
       ThreadStep(th) \/ Break(th) \/ Drop(th) \/ Reconnect(th)
  \/ \E th \in Threads, kind \in {"page", "js", "api"}, ip \in IPs,
        port \in Ports, id \in Ids \cup {NoId} : Arrive(th, kind, ip, port, id)
  \/ ClearCache
  \/ Tick

Spec == Init /\ [][Next]_vars

-----------------------------------------------------------------------------
(* Properties                                                              *)

\* Whoever holds a table is at a statement on that table that can run now, or
\* at UNLOCK TABLES: it neither waits for another table, nor is refused one
\* because of its own lock, nor goes back to its client with the table locked.
\* So no two threads wait for each other, and a slow client blocks nobody.
\* Only a lost session may keep a table, until the server notices.
HolderRuns ==
  \A th \in Threads : held[th] # NoLock /\ ~dead[th] =>
    \/ pc[th] = "unlock"
    \/ /\ pc[th] \in Reading \cup Writing
       /\ Table(pc[th]) = held[th].table
       /\ held[th].mode = "READ" => pc[th] \in Reading
       /\ Compatible(th, pc[th])

\* get_next_seq_id has returned a number, from which th makes an id.
HasNumber(th) ==
  /\ loc[th].val # Never
  /\ pc[th] \in {"lock_ids", "cleanup_ids", "exists_id", "insert_id",
                 "exists", "lock_chal", "cleanup_chal", "insert_chal"}

\* The table of the sequence number never has a second row (the branch of
\* get_next_seq_id that removes surplus rows is for the tables of others),
\* and until the numbers start again no two threads hold the same one.
NumbersAreUnique ==
  /\ Len(SEQ_ID) <= 1
  /\ ~wrapped => \A th, u \in Threads :
       th # u /\ HasNumber(th) /\ HasNumber(u) => loc[th].val # loc[u].val

\* An answer that is accepted came before the challenge was ChallengeTimeout
\* old, as --challenge-timeout says.  (The SQLite gate does not have this.)
AnswerInTime ==
  \A th \in Threads : pc[th] \in {"insert_allowed", "cache_correct", "correct"}
    => req[th].t0 < loc[th].at + ChallengeTimeout

\* A challenge is redeemed once: of two answers to it that are handled at the
\* same time only one counts (and goes on to the grant), unless the server
\* refused the DELETE, whose result validate_client does not look at.
RedeemOnce ==
  [][\A th \in Threads :
       pc[th] = "delete_chal" /\ pc'[th] = "unlock" /\ ~dead'[th] =>
         req[th].id \notin redeemed \/ req[th].id \in kept]_vars

\* The gate keeps the promise of AccessGate.
Nothing == [ip |-> NoId, port |-> NoPort, at |-> Never]

Forwarding ==
  [th \in Threads |->
     IF pc[th] = "forward"
     THEN [ip |-> req[th].ip, port |-> req[th].port, at |-> req[th].t0]
     ELSE Nothing]

Gate == INSTANCE AccessGate WITH forwarding <- Forwarding

GateSpec == Gate!Spec
=============================================================================
