--------------------------- MODULE MsqlGateProofs ---------------------------
(***************************************************************************)
(* Proofs about MsqlGate for any number of threads, clients, ports and ids *)
(* and for any timeouts, with any statements refused and any sessions      *)
(* lost.                                                                   *)
(***************************************************************************)
EXTENDS MsqlGate, SequenceTheorems, TLAPS

\* Where a thread with program counter p and locals l is or is going to be
\* after UNLOCK TABLES.
Place(p, l) == IF p = "unlock" THEN l.ret ELSE p

PagePlaces == {"cache", "lock_allowed", "cleanup_allowed", "lock_allowed_r",
               "is_allowed", "cache_allowed", "cleanup_ids", "exists_id",
               "insert_id"}
JsPlaces == {"read_port", "delete_id", "exists", "insert_chal"}
ApiPlaces == {"read_chal", "delete_chal", "insert_allowed", "cache_correct",
              "correct"}

\* What a thread with program counter p, request q and locals l has at hand.
Knows(p, q, l) ==
  /\ p = "idle" => l = NoLocals
  /\ p # "idle" => q \in Requests
  /\ Place(p, l) \in PagePlaces => q.kind = "page"
  /\ Place(p, l) \in JsPlaces => q.kind = "js"
  /\ Place(p, l) \in ApiPlaces => q.kind = "api"
  /\ Place(p, l) \in {"lock_seq", "seq_read", "seq_write", "lock_ids"}
       => q.kind # "api"
  /\ Place(p, l) \in {"lock_chal", "cleanup_chal"} => q.kind # "page"
  /\ Place(p, l) \in {"seq_write", "cleanup_ids", "exists_id", "insert_id",
                      "exists"} => l.val # Never
  /\ Place(p, l) = "lock_ids" => (l.val # Never <=> q.kind = "page")
  /\ Place(p, l) \in {"lock_chal", "cleanup_chal", "insert_chal"}
       => (l.val # Never <=> q.kind = "js")
  /\ Place(p, l) = "insert_id" => l.id \in Ids
  /\ /\ Place(p, l) \in {"lock_chal", "cleanup_chal", "insert_chal"}
     /\ q.kind = "js"
     => l.id \in Ids
  /\ Place(p, l) \in {"delete_id", "exists", "insert_chal", "delete_chal",
                      "insert_allowed", "cache_correct", "correct"}
       => l.port \in Ports
  /\ /\ Place(p, l) \in {"lock_seq", "seq_read", "seq_write", "lock_chal",
                         "cleanup_chal"}
     /\ q.kind = "js"
     => l.port \in Ports
  /\ Place(p, l) = "delete_chal" => q.id \in Ids

ThreadOK == \A th \in Threads : Knows(pc[th], req[th], loc[th])

Typed == TypeOK /\ ThreadOK

\* The statements that run under a lock, and that lock.
Locked == (Reading \cup Writing) \ {"exists", "insert_allowed"}
LockFor(s) == Lock(Table(s), IF s = "is_allowed" THEN "READ" ELSE "WRITE")

LocksOK ==
  /\ \A th \in Threads : ~dead[th] =>
       /\ pc[th] \in Locked => held[th] = LockFor(pc[th])
       /\ pc[th] \notin Locked \cup {"unlock"} => held[th] = NoLock
  /\ \A th, u \in Threads :
       th # u /\ held[th] # NoLock /\ held[th].table = held[u].table =>
         held[th].mode = "READ" /\ held[u].mode = "READ"

\* The number that the next reader of the table gets.
Top == IF SEQ_ID = <<>> THEN 0 ELSE SEQ_ID[1]

\* A thread at p with locals l has a number, or will after UNLOCK TABLES.
Carries(p, l) ==
  /\ l.val # Never
  /\ Place(p, l) \in {"lock_ids", "cleanup_ids", "exists_id", "insert_id",
                      "exists", "lock_chal", "cleanup_chal", "insert_chal"}

Numbered(th) == Carries(pc[th], loc[th])

SeqOK ==
  /\ Len(SEQ_ID) <= 1
  /\ \A th \in Threads :
       pc[th] = "seq_write" /\ ~dead[th] => loc[th].val = Top
  /\ ~wrapped =>
       /\ \A th \in Threads : Numbered(th) => loc[th].val < Top
       /\ \A th, u \in Threads :
            th # u /\ Numbered(th) /\ Numbered(u) => loc[th].val # loc[u].val

\* What a thread at p with request q and locals l may count on when it
\* answers a challenge, if rows are the challenges, t is the time and d tells
\* whether its session is lost: the challenge is there, and was in time.
Answering(rows, t, d, p, q, l) ==
  /\ p = "read_chal" /\ ~d =>
       \A r \in rows : q.t0 < r.at + ChallengeTimeout
  /\ p = "delete_chal" /\ ~d => \E r \in rows : r.id = q.id
  /\ Place(p, l) \in {"delete_chal", "insert_allowed", "cache_correct",
                      "correct"} => q.t0 < l.at + ChallengeTimeout
  /\ p # "idle" => q.t0 <= t

AnswersOK ==
  /\ \A th \in Threads : Answering(CHALLENGE_FACTORS, now, dead[th], pc[th],
                                   req[th], loc[th])
  /\ \A r \in CHALLENGE_FACTORS : r.id \in redeemed => r.id \in kept

\* With the grants g, client ip had one that was good at time t.
CoveredBy(g, ip, t) ==
  \E port \in Ports : /\ g[<<ip, port>>] # Never
                      /\ t <= g[<<ip, port>>] + AllowedTimeout

\* What a thread at p with request q and locals l may count on about grants,
\* if rows are those of ALLOWED_IPS, g the grants and ch the challenged.
Entitled(rows, g, ch, p, q, l) ==
  /\ Place(p, l) \in {"lock_allowed_r", "is_allowed"} =>
       \A r \in rows : q.t0 <= r.at + AllowedTimeout
  /\ Place(p, l) \in {"cache_allowed", "cache_correct"} =>
       CoveredBy(g, q.ip, q.t0)
  /\ Place(p, l) \in {"delete_chal", "insert_allowed"} =>
       <<q.ip, l.port>> \in ch

SharedOK ==
  /\ \A k \in Clients : granted[k] <= now
  /\ \A r \in ALLOWED_IPS : /\ granted[<<r.ip, r.port>>] # Never
                            /\ r.at <= granted[<<r.ip, r.port>>]
  /\ \A r \in CHALLENGE_FACTORS : <<r.ip, r.port>> \in challenged
  /\ \A k \in Clients : cached_allowed[k] # Never =>
       CoveredBy(granted, k[1], cached_allowed[k])

GrantsOK ==
  /\ SharedOK
  /\ \A th \in Threads : Entitled(ALLOWED_IPS, granted, challenged, pc[th],
                                  req[th], loc[th])

IInv == Typed /\ LocksOK /\ SeqOK /\ AnswersOK /\ GrantsOK
-----------------------------------------------------------------------------
(* Types.                                                                  *)

Pcs == Statements \cup {"idle", "cache", "unlock", "cache_allowed", "forward",
                        "cache_correct", "issued", "correct"}

\* The part of Typed that is about the threads.
ThreadsTyped ==
  /\ dead \in [Threads -> BOOLEAN]
  /\ pc \in [Threads -> Pcs]
  /\ req \in [Threads -> Requests \cup {NoRequest}]
  /\ loc \in [Threads -> Locals]
  /\ ThreadOK

LEMMA NoLocalsType == NoLocals \in Locals
BY MsqlAssumption DEF NoLocals, Locals, Returns, Times, Never

LEMMA InitTyped == Init => Typed
<1> SUFFICES ASSUME Init PROVE Typed
  OBVIOUS
<1> USE MsqlAssumption
<1>1. TypeOK
  <2>1. SEQ_ID \in Seq(1..(SeqLimit - 1)) /\ now \in Times
    BY DEF Init, Times
  <2>2. dead \in [Threads -> BOOLEAN] /\ wrapped \in BOOLEAN
    BY Zenon DEF Init
  <2>3. /\ held \in [Threads -> {NoLock} \cup
                          [table : {"seq", "ids", "chal", "allowed"},
                           mode : {"READ", "WRITE"}]]
        /\ cached_allowed \in [Clients -> Times \cup {Never}]
        /\ granted \in [Clients -> Times \cup {Never}]
        /\ loc \in [Threads -> Locals]
    BY NoLocalsType DEF Init
  <2> QED BY <2>1, <2>2, <2>3 DEF Init, TypeOK
<1>2. ThreadOK
  BY DEF Init, ThreadOK, Knows, Place, PagePlaces, JsPlaces, ApiPlaces
<1> QED BY <1>1, <1>2 DEF Typed

LEMMA StepTyped ==
  ASSUME ThreadsTyped, NEW th \in Threads, NEW l \in Locals, NEW next \in Pcs,
         Step(th, l, next), Knows(next, req[th], l),
         dead' \in [Threads -> BOOLEAN]
  PROVE  ThreadsTyped'
BY DEF ThreadsTyped, Step, ThreadOK

LEMMA DoneTyped ==
  ASSUME ThreadsTyped, NEW th \in Threads, Done(th),
         dead' \in [Threads -> BOOLEAN]
  PROVE  ThreadsTyped'
<1>1. \A q : Knows("idle", q, NoLocals)
  BY DEF Knows, Place, PagePlaces, JsPlaces, ApiPlaces
<1> QED
  BY <1>1, NoLocalsType DEF ThreadsTyped, Done, ThreadOK, Pcs

LEMMA UnlockIdle ==
  ASSUME NEW q \in Requests, NEW l, l.ret = "idle"
  PROVE  Knows("unlock", q, l)
BY DEF Knows, Place, PagePlaces, JsPlaces, ApiPlaces

LEMMA FailingTyped ==
  ASSUME ThreadsTyped, NEW th \in Threads, Failing(th),
         dead' \in [Threads -> BOOLEAN]
  PROVE  ThreadsTyped'
<1>0. loc[th] \in Locals /\ Knows(pc[th], req[th], loc[th])
  BY DEF ThreadsTyped, ThreadOK
<1>1. CASE Done(th)
  BY <1>1, DoneTyped
<1>2. CASE pc[th] = "cleanup_ids" /\ Step(th, loc[th], "exists_id")
  <2>1. Knows("exists_id", req[th], loc[th])
    BY <1>0, <1>2 DEF Knows, Place, PagePlaces, JsPlaces, ApiPlaces
  <2> QED BY <1>0, <1>2, <2>1, StepTyped DEF Pcs, Statements, Reading
<1>3. CASE pc[th] = "delete_chal" /\ Unlocking(th, loc[th], "insert_allowed")
  <2> DEFINE l == [loc[th] EXCEPT !.ret = "insert_allowed"]
  <2>1. l \in Locals /\ l.ret = "insert_allowed" /\ l.port = loc[th].port
    BY <1>0 DEF Locals, Returns
  <2>2. Knows("unlock", req[th], l)
    BY <1>0, <1>3, <2>1 DEF Knows, Place, PagePlaces, JsPlaces, ApiPlaces
  <2> HIDE DEF l
  <2>3. Step(th, l, "unlock")
    BY <1>3 DEF Unlocking, l
  <2> QED BY <2>1, <2>2, <2>3, StepTyped DEF Pcs
<1>4. CASE pc[th] \in Statements /\ Unlocking(th, NoLocals, "idle")
  <2>1. /\ [NoLocals EXCEPT !.ret = "idle"] = NoLocals
        /\ NoLocals.ret = "idle"
    BY DEF NoLocals
  <2>2. req[th] \in Requests
    BY <1>0, <1>4 DEF Knows, Statements, Locking, Reading, Writing
  <2>3. Step(th, NoLocals, "unlock")
    BY <1>4, <2>1 DEF Unlocking
  <2>4. Knows("unlock", req[th], NoLocals)
    BY <2>1, <2>2, UnlockIdle
  <2> QED BY <2>3, <2>4, NoLocalsType, StepTyped DEF Pcs
<1> QED BY <1>1, <1>2, <1>3, <1>4 DEF Failing

\* An action that is one statement, whatever its answer does to the thread.
LEMMA AnswerTyped ==
  ASSUME ThreadsTyped, NEW th \in Threads, NEW l \in Locals, NEW next \in Pcs,
         Answer(th, l, next), Knows(next, req[th], l)
  PROVE  ThreadsTyped'
<1>1. CASE Step(th, l, next) /\ UNCHANGED dead
  BY <1>1, StepTyped DEF ThreadsTyped
<1>2. CASE dead' = [dead EXCEPT ![th] = TRUE] /\ Failing(th)
  <2>1. dead' \in [Threads -> BOOLEAN]
    BY <1>2, Zenon DEF ThreadsTyped
  <2> QED BY <1>2, <2>1, FailingTyped
<1> QED BY <1>1, <1>2 DEF Answer

LEMMA AnswerUnlockTyped ==
  ASSUME ThreadsTyped, NEW th \in Threads, NEW l \in Locals,
         NEW ret \in Returns,
         AnswerUnlock(th, l, ret),
         Knows("unlock", req[th], [l EXCEPT !.ret = ret])
  PROVE  ThreadsTyped'
<1>1. [l EXCEPT !.ret = ret] \in Locals
  BY DEF Locals
<1> QED BY <1>1, AnswerTyped DEF AnswerUnlock, Pcs

\* The rest of Typed.
DataTyped ==
  /\ now \in Times
  /\ SEQ_ID \in Seq(1..(SeqLimit - 1))
  /\ ID_TO_PORT \subseteq [id : Ids, port : Ports, at : Times]
  /\ CHALLENGE_FACTORS \subseteq [id : Ids, ip : IPs, port : Ports, at : Times]
  /\ ALLOWED_IPS \subseteq [ip : IPs, port : Ports, at : Times]
  /\ held \in [Threads -> {NoLock} \cup
                          [table : {"seq", "ids", "chal", "allowed"},
                           mode : {"READ", "WRITE"}]]
  /\ cached_allowed \in [Clients -> Times \cup {Never}]
  /\ wrapped \in BOOLEAN
  /\ redeemed \subseteq Ids /\ kept \subseteq Ids
  /\ challenged \subseteq Clients
  /\ granted \in [Clients -> Times \cup {Never}]

LEMMA TypedParts == Typed <=> DataTyped /\ ThreadsTyped
BY DEF Typed, TypeOK, DataTyped, ThreadsTyped, Pcs

LEMMA TypedPartsNext == Typed' <=> DataTyped' /\ ThreadsTyped'
BY DEF Typed, TypeOK, DataTyped, ThreadsTyped, Pcs

\* What ThreadsTyped says of one thread.
LEMMA ThreadTyped ==
  ASSUME ThreadsTyped, NEW th \in Threads
  PROVE  /\ pc[th] \in Pcs /\ loc[th] \in Locals
         /\ Knows(pc[th], req[th], loc[th])
         /\ pc[th] # "idle" =>
              /\ req[th] \in Requests
              /\ req[th].kind \in {"page", "js", "api"}
              /\ req[th].ip \in IPs /\ req[th].port \in Ports
              /\ req[th].id \in Ids \cup {NoId} /\ req[th].t0 \in Times
              /\ Client(th) \in Clients
<1>1. pc[th] \in Pcs /\ loc[th] \in Locals /\ Knows(pc[th], req[th], loc[th])
  BY DEF ThreadsTyped, ThreadOK
<1>2. pc[th] # "idle" => req[th] \in Requests
  BY <1>1 DEF Knows
<1> QED BY <1>1, <1>2 DEF Requests, Client, Clients

LEMMA LockTyped ==
  ASSUME DataTyped, ThreadsTyped, NEW th \in Threads, LockTable(th)
  PROVE  DataTyped' /\ ThreadsTyped'
<1>0. /\ loc[th] \in Locals /\ Knows(pc[th], req[th], loc[th])
      /\ req[th].kind \in {"page", "js", "api"}
  BY ThreadTyped DEF LockTable, Locking
<1>1. Lock(Table(pc[th]), Mode(pc[th])) \in
        [table : {"seq", "ids", "chal", "allowed"}, mode : {"READ", "WRITE"}]
  BY DEF LockTable, Locking, Table, Mode, Lock
<1>2. DataTyped'
  BY <1>1 DEF DataTyped, LockTable, tables, history
<1>3. AfterLock(th) \in Pcs /\ Knows(AfterLock(th), req[th], loc[th])
  BY <1>0 DEF LockTable, Locking, AfterLock, Pcs, Statements, Reading, Writing,
              Knows, Place, PagePlaces, JsPlaces, ApiPlaces
<1>4. ThreadsTyped'
  BY <1>0, <1>3, AnswerTyped DEF LockTable
<1> QED BY <1>2, <1>4

LEMMA UnlockTyped ==
  ASSUME DataTyped, ThreadsTyped, NEW th \in Threads, UnlockTables(th)
  PROVE  DataTyped' /\ ThreadsTyped'
<1>0. /\ loc[th] \in Locals /\ Knows("unlock", req[th], loc[th])
  BY ThreadTyped DEF UnlockTables
<1>1. DataTyped'
  BY DEF DataTyped, UnlockTables, tables, history
<1>2. CASE Done(th)
  BY <1>1, <1>2, DoneTyped DEF UnlockTables, ThreadsTyped
<1>3. CASE /\ loc[th].ret # "idle"
           /\ Step(th, [loc[th] EXCEPT !.ret = "idle"], loc[th].ret)
  <2> DEFINE l == [loc[th] EXCEPT !.ret = "idle"]
  <2>1. /\ l \in Locals /\ l.val = loc[th].val /\ l.id = loc[th].id
        /\ l.port = loc[th].port
    BY <1>0 DEF Locals, Returns
  <2>2. loc[th].ret \in Pcs \ {"idle", "unlock"}
    <3>1. loc[th].ret \in Returns
      BY <1>0 DEF Locals
    <3> QED BY <1>3, <3>1 DEF Returns, Pcs, Statements, Locking, Reading,
                              Writing
  <2>3. Knows(loc[th].ret, req[th], l)
    BY <1>0, <2>1, <2>2 DEF Knows, Place
  <2> HIDE DEF l
  <2> QED BY <1>1, <1>3, <2>1, <2>2, <2>3, StepTyped
             DEF UnlockTables, ThreadsTyped, l
<1> QED BY <1>2, <1>3 DEF UnlockTables

LEMMA ArriveTyped ==
  ASSUME DataTyped, ThreadsTyped, NEW th \in Threads,
         NEW kind \in {"page", "js", "api"}, NEW ip \in IPs,
         NEW port \in Ports, NEW id \in Ids \cup {NoId},
         Arrive(th, kind, ip, port, id)
  PROVE  DataTyped' /\ ThreadsTyped'
<1> DEFINE q == [kind |-> kind, ip |-> ip, port |-> port, id |-> id,
                 t0 |-> now]
<1>1. q \in Requests /\ q.kind = kind
  BY DEF Requests, DataTyped
<1>2. loc[th] = NoLocals
  BY DEF Arrive, ThreadsTyped, ThreadOK, Knows
<1>3. FirstStep(kind) \in Pcs /\ Knows(FirstStep(kind), q, NoLocals)
  BY <1>1 DEF FirstStep, Pcs, Statements, Locking, Knows, Place, PagePlaces,
              JsPlaces, ApiPlaces, NoLocals, Never
<1>4. DataTyped'
  BY DEF DataTyped, Arrive, tables, history
<1> HIDE DEF q
<1>5. req' = [req EXCEPT ![th] = q] /\ pc' = [pc EXCEPT ![th] = FirstStep(kind)]
      /\ UNCHANGED <<loc, dead>>
  BY DEF Arrive, q
<1>6. ThreadsTyped'
  BY <1>1, <1>2, <1>3, <1>5 DEF ThreadsTyped, ThreadOK
<1> QED BY <1>4, <1>6

LEMMA RefuseTyped ==
  ASSUME DataTyped, ThreadsTyped, NEW th \in Threads, Refuse(th)
  PROVE  DataTyped' /\ ThreadsTyped'
<1>1. pc[th] = "delete_chal" => req[th].id \in Ids
  BY ThreadTyped DEF Knows, Place
<1>2. DataTyped'
  BY <1>1 DEF DataTyped, Refuse, tables
<1>3. ThreadsTyped'
  BY FailingTyped DEF Refuse, ThreadsTyped
<1> QED BY <1>2, <1>3

LEMMA SessionTyped ==
  ASSUME DataTyped, ThreadsTyped, NEW th \in Threads,
         Break(th) \/ Drop(th) \/ Reconnect(th)
  PROVE  DataTyped' /\ ThreadsTyped'
<1>1. DataTyped'
  BY DEF DataTyped, Break, Drop, Reconnect, tables, history
<1>2. dead' \in [Threads -> BOOLEAN]
  BY Zenon DEF ThreadsTyped, Break, Drop, Reconnect
<1>3. UNCHANGED <<pc, req, loc>>
  BY DEF Break, Drop, Reconnect, thread
<1>4. ThreadsTyped'
  BY <1>2, <1>3 DEF ThreadsTyped, ThreadOK
<1> QED BY <1>1, <1>4

LEMMA ClockTyped ==
  ASSUME DataTyped, ThreadsTyped, Tick \/ ClearCache
  PROVE  DataTyped' /\ ThreadsTyped'
<1>1. DataTyped'
  <2>1. CASE Tick
    BY <2>1, MsqlAssumption DEF DataTyped, Tick, tables, history, Times
  <2>2. CASE ClearCache
    BY <2>2 DEF DataTyped, ClearCache, tables, history
  <2> QED BY <2>1, <2>2
<1>2. UNCHANGED <<pc, req, loc, dead>>
  BY DEF Tick, ClearCache, thread
<1>3. ThreadsTyped'
  BY <1>2 DEF ThreadsTyped, ThreadOK
<1> QED BY <1>1, <1>3

\* Replies and the two accesses to the cache.
LEMMA CacheTyped ==
  ASSUME DataTyped, ThreadsTyped, NEW th \in Threads,
         Reply(th) \/ CacheLookup(th) \/ CacheAllowed(th) \/ CacheCorrect(th)
  PROVE  DataTyped' /\ ThreadsTyped'
<1>0. /\ loc[th] \in Locals /\ Knows(pc[th], req[th], loc[th])
      /\ req[th].t0 \in Times /\ Client(th) \in Clients
  BY ThreadTyped DEF Reply, CacheLookup, CacheAllowed, CacheCorrect
<1>1. DataTyped'
  BY <1>0 DEF DataTyped, Reply, CacheLookup, CacheAllowed, CacheCorrect,
              CacheInsert, tables, history
<1>2. UNCHANGED dead
  BY DEF Reply, CacheLookup, CacheAllowed, CacheCorrect, CacheInsert
<1>3. CASE Reply(th)
  BY <1>1, <1>2, <1>3, DoneTyped DEF Reply, ThreadsTyped
<1>4. ASSUME NEW next \in {"forward", "lock_allowed", "correct"},
             Step(th, loc[th], next),
             next # "correct" => pc[th] \in {"cache", "cache_allowed"},
             next = "correct" => pc[th] = "cache_correct"
      PROVE  ThreadsTyped'
  <2>1. next \in Pcs /\ Knows(next, req[th], loc[th])
    BY <1>0, <1>4 DEF Pcs, Statements, Locking, Knows, Place, PagePlaces,
                      JsPlaces, ApiPlaces
  <2> QED BY <1>0, <1>2, <1>4, <2>1, StepTyped DEF ThreadsTyped
<1>5. CASE CacheLookup(th)
  BY <1>1, <1>4, <1>5 DEF CacheLookup
<1>6. CASE CacheAllowed(th) \/ CacheCorrect(th)
  BY <1>1, <1>4, <1>6 DEF CacheAllowed, CacheCorrect, CacheInsert
<1> QED BY <1>3, <1>5, <1>6

\* client_is_allowed and init_id_to_port.
LEMMA PageTyped ==
  ASSUME DataTyped, ThreadsTyped, NEW th \in Threads,
         \/ CleanupAllowed(th) \/ IsAllowed(th) \/ CleanupIdToPorts(th)
         \/ InsertIdToPort(th) \/ \E r \in Rand : ExistsId(th, r)
  PROVE  DataTyped' /\ ThreadsTyped'
<1> USE DEF Knows, Place, PagePlaces, JsPlaces, ApiPlaces
<1>0. /\ loc[th] \in Locals /\ Knows(pc[th], req[th], loc[th])
      /\ req[th] \in Requests /\ req[th].port \in Ports
  BY ThreadTyped DEF CleanupAllowed, IsAllowed, CleanupIdToPorts,
                     InsertIdToPort, ExistsId, Runs
<1>1. ASSUME NEW ret \in {"lock_allowed_r", "lock_seq", "cache_allowed"},
             pc[th] \in {"cleanup_allowed", "is_allowed"},
             AnswerUnlock(th, loc[th], ret)
      PROVE  ThreadsTyped'
  <2> DEFINE l == [loc[th] EXCEPT !.ret = ret]
  <2>1. ret \in Returns
    BY DEF Returns
  <2>2. l.ret = ret /\ l.val = loc[th].val /\ l.id = loc[th].id
        /\ l.port = loc[th].port
    BY <1>0 DEF Locals
  <2>3. Knows("unlock", req[th], l)
    BY <1>0, <1>1, <2>2
  <2> QED BY <1>0, <1>1, <2>1, <2>3, AnswerUnlockTyped
<1>2. CASE CleanupAllowed(th)
  <2>1. DataTyped'
    BY <1>2 DEF DataTyped, CleanupAllowed, Live, history
  <2> QED BY <1>1, <1>2, <2>1 DEF CleanupAllowed, Runs
<1>3. CASE IsAllowed(th)
  <2>1. DataTyped'
    BY <1>3 DEF DataTyped, IsAllowed, tables, history
  <2> QED BY <1>1, <1>3, <2>1 DEF IsAllowed, Runs
<1>4. CASE CleanupIdToPorts(th)
  <2>1. DataTyped'
    BY <1>4 DEF DataTyped, CleanupIdToPorts, Live, history
  <2>2. "exists_id" \in Pcs /\ Knows("exists_id", req[th], loc[th])
    BY <1>0, <1>4 DEF CleanupIdToPorts, Runs, Pcs, Statements, Reading
  <2> QED BY <1>0, <1>4, <2>1, <2>2, AnswerTyped DEF CleanupIdToPorts
<1>5. ASSUME NEW r \in Rand, ExistsId(th, r)
      PROVE  DataTyped' /\ ThreadsTyped'
  <2> DEFINE l == [loc[th] EXCEPT !.id = <<loc[th].val, r>>]
  <2>1. DataTyped'
    BY <1>5 DEF DataTyped, ExistsId, tables, history
  <2>2. <<loc[th].val, r>> \in Ids
    BY <1>0, <1>5, MsqlAssumption DEF ExistsId, Runs, Locals, Ids, Never
  <2>3. l \in Locals /\ l.val = loc[th].val /\ l.id \in Ids
    BY <1>0, <2>2 DEF Locals
  <2>4. \A next \in {"exists_id", "insert_id"} :
          next \in Pcs /\ Knows(next, req[th], l)
    BY <1>0, <1>5, <2>3 DEF ExistsId, Runs, Pcs, Statements, Reading, Writing
  <2>5. \E next \in {"exists_id", "insert_id"} : Answer(th, l, next)
    BY <1>5, Zenon DEF ExistsId
  <2> HIDE DEF l, Knows
  <2> QED BY <2>1, <2>3, <2>4, <2>5, AnswerTyped
<1>6. CASE InsertIdToPort(th)
  <2>1. loc[th].id \in Ids
    BY <1>0, <1>6 DEF InsertIdToPort, Runs
  <2>2. DataTyped'
    <3>1. ID_TO_PORT' \subseteq [id : Ids, port : Ports, at : Times]
      BY <1>0, <1>6, <2>1 DEF DataTyped, InsertIdToPort
    <3> QED BY <1>6, <3>1 DEF DataTyped, InsertIdToPort, history
  <2>3. Knows("unlock", req[th], [NoLocals EXCEPT !.ret = "issued"])
    BY <1>0 DEF NoLocals
  <2> QED BY <1>6, <2>2, <2>3, NoLocalsType, AnswerUnlockTyped
             DEF InsertIdToPort, Returns
<1> QED BY <1>2, <1>3, <1>4, <1>5, <1>6

\* get_next_seq_id.
LEMMA SeqTyped ==
  ASSUME DataTyped, ThreadsTyped, NEW th \in Threads,
         SeqRead(th) \/ SeqWrite(th)
  PROVE  DataTyped' /\ ThreadsTyped'
<1> USE MsqlAssumption DEF Knows, Place, PagePlaces, JsPlaces, ApiPlaces
<1>0. /\ loc[th] \in Locals /\ Knows(pc[th], req[th], loc[th])
      /\ req[th] \in Requests
  BY ThreadTyped DEF SeqRead, SeqWrite, Runs
<1>1. CASE SeqRead(th)
  <2> DEFINE v == IF SEQ_ID = <<>> THEN 0 ELSE SEQ_ID[Len(SEQ_ID)]
             l == [loc[th] EXCEPT !.val = v]
  <2>1. DataTyped'
    BY <1>1 DEF DataTyped, SeqRead, tables, history
  <2>2. v \in 0..(SeqLimit - 1)
    BY DEF DataTyped
  <2> HIDE DEF v
  <2>3. l \in Locals /\ l.val = v /\ l.port = loc[th].port
    BY <1>0, <2>2 DEF Locals, Never
  <2>4. "seq_write" \in Pcs /\ Knows("seq_write", req[th], l)
    BY <1>0, <1>1, <2>2, <2>3 DEF SeqRead, Runs, Pcs, Statements, Writing,
                                  Never
  <2>5. Answer(th, l, "seq_write")
    BY <1>1 DEF SeqRead, v
  <2> HIDE DEF l, Knows
  <2> QED BY <2>1, <2>3, <2>4, <2>5, AnswerTyped
<1>2. CASE SeqWrite(th)
  <2>1. loc[th].val \in 0..(SeqLimit - 1)
    BY <1>0, <1>2 DEF SeqWrite, Runs, Locals, Never
  <2>2. NextSeq(loc[th].val) \in 1..(SeqLimit - 1) /\ 1 \in 1..(SeqLimit - 1)
    BY <2>1 DEF NextSeq
  <2>3. SEQ_ID' \in Seq(1..(SeqLimit - 1))
    <3>1. Append(SEQ_ID, 1) \in Seq(1..(SeqLimit - 1))
      BY <2>2 DEF DataTyped
    <3>2. [i \in DOMAIN SEQ_ID |-> NextSeq(loc[th].val)]
            \in Seq(1..(SeqLimit - 1))
      BY <2>2 DEF DataTyped
    <3> QED BY <1>2, <3>1, <3>2 DEF SeqWrite
  <2>4. DataTyped'
    BY <1>2, <2>3 DEF DataTyped, SeqWrite
  <2>5. ASSUME NEW ret \in {"lock_ids", "exists"},
               ret = "lock_ids" <=> req[th].kind = "page",
               AnswerUnlock(th, loc[th], ret)
        PROVE  ThreadsTyped'
    <3> DEFINE l == [loc[th] EXCEPT !.ret = ret]
    <3>1. ret \in Returns
      BY DEF Returns
    <3>2. l.ret = ret /\ l.val = loc[th].val /\ l.port = loc[th].port
      BY <1>0 DEF Locals
    <3>3. req[th].kind \in {"page", "js"}
      BY <1>0, <1>2 DEF SeqWrite, Runs, Requests
    <3>4. Knows("unlock", req[th], l)
      BY <1>0, <1>2, <2>5, <3>2, <3>3 DEF SeqWrite, Runs
    <3> QED BY <1>0, <2>5, <3>1, <3>4, AnswerUnlockTyped
  <2> QED BY <1>2, <2>4, <2>5 DEF SeqWrite
<1> QED BY <1>1, <1>2

\* get_id_to_port_port and set_challenge_factor.
LEMMA JsTyped ==
  ASSUME DataTyped, ThreadsTyped, NEW th \in Threads,
         \/ ReadPort(th) \/ DeleteId(th) \/ (\E r \in Rand : Exists(th, r))
         \/ CleanupChallenges(th) \/ InsertChallenge(th)
  PROVE  DataTyped' /\ ThreadsTyped'
<1> USE DEF Knows, Place, PagePlaces, JsPlaces, ApiPlaces
<1>0. /\ loc[th] \in Locals /\ Knows(pc[th], req[th], loc[th])
      /\ req[th] \in Requests /\ req[th].ip \in IPs
      /\ req[th].kind \in {"page", "js", "api"}
  BY ThreadTyped DEF ReadPort, DeleteId, Exists, CleanupChallenges,
                     InsertChallenge, Runs
<1>1. CASE ReadPort(th)
  <2>1. DataTyped'
    BY <1>1 DEF DataTyped, ReadPort, tables, history
  <2>2. ASSUME NEW r \in ID_TO_PORT,
               Answer(th, [loc[th] EXCEPT !.port = r.port], "delete_id")
        PROVE  ThreadsTyped'
    <3> DEFINE l == [loc[th] EXCEPT !.port = r.port]
    <3>1. r.port \in Ports
      BY DEF DataTyped
    <3>2. l \in Locals /\ l.port \in Ports
      BY <1>0, <3>1 DEF Locals
    <3>3. "delete_id" \in Pcs /\ Knows("delete_id", req[th], l)
      BY <1>0, <1>1, <3>2 DEF ReadPort, Runs, Pcs, Statements, Writing
    <3> HIDE DEF l, Knows
    <3> QED BY <2>2, <3>2, <3>3, AnswerTyped DEF l
  <2>3. CASE AnswerUnlock(th, NoLocals, "idle")
    <3>1. Knows("unlock", req[th], [NoLocals EXCEPT !.ret = "idle"])
      BY <1>0 DEF NoLocals
    <3> QED BY <2>1, <2>3, <3>1, NoLocalsType, AnswerUnlockTyped DEF Returns
  <2> QED BY <1>1, <2>1, <2>2, <2>3 DEF ReadPort
<1>2. CASE DeleteId(th)
  <2>1. DataTyped'
    BY <1>2 DEF DataTyped, DeleteId, history
  <2> DEFINE l == [loc[th] EXCEPT !.ret = "lock_seq"]
  <2>2. l.ret = "lock_seq" /\ l.port = loc[th].port
    BY <1>0 DEF Locals
  <2>3. Knows("unlock", req[th], l) /\ "lock_seq" \in Returns
    BY <1>0, <1>2, <2>2 DEF DeleteId, Runs, Returns
  <2> QED BY <1>0, <1>2, <2>1, <2>3, AnswerUnlockTyped DEF DeleteId
<1>3. ASSUME NEW r \in Rand, Exists(th, r)
      PROVE  DataTyped' /\ ThreadsTyped'
  <2> DEFINE l == [loc[th] EXCEPT !.id = <<loc[th].val, r>>]
  <2>1. DataTyped'
    BY <1>3 DEF DataTyped, Exists, tables, history
  <2>2. <<loc[th].val, r>> \in Ids
    BY <1>0, <1>3, MsqlAssumption DEF Exists, Runs, Locals, Ids, Never
  <2>3. /\ l \in Locals /\ l.val = loc[th].val /\ l.id \in Ids
        /\ l.port = loc[th].port
    BY <1>0, <2>2 DEF Locals
  <2>4. \A next \in {"lock_seq", "lock_chal"} :
          next \in Pcs /\ Knows(next, req[th], l)
    BY <1>0, <1>3, <2>3 DEF Exists, Runs, Pcs, Statements, Locking
  <2>5. \E next \in {"lock_seq", "lock_chal"} : Answer(th, l, next)
    BY <1>3, Zenon DEF Exists
  <2> HIDE DEF l, Knows
  <2> QED BY <2>1, <2>3, <2>4, <2>5, AnswerTyped
<1>4. CASE CleanupChallenges(th)
  <2>1. DataTyped'
    BY <1>4 DEF DataTyped, CleanupChallenges, Live, history
  <2>2. \A next \in {"insert_chal", "read_chal"} :
          /\ next \in Pcs
          /\ (next = "insert_chal" <=> req[th].kind = "js") =>
               Knows(next, req[th], loc[th])
    BY <1>0, <1>4 DEF CleanupChallenges, Runs, Pcs, Statements, Reading,
                      Writing
  <2> HIDE DEF Knows
  <2> QED BY <1>0, <1>4, <2>1, <2>2, AnswerTyped DEF CleanupChallenges
<1>5. CASE InsertChallenge(th)
  <2>1. loc[th].id \in Ids /\ loc[th].port \in Ports
    BY <1>0, <1>5 DEF InsertChallenge, Runs
  <2>2. /\ CHALLENGE_FACTORS' \subseteq [id : Ids, ip : IPs, port : Ports,
                                         at : Times]
        /\ challenged' \subseteq Clients
    BY <1>0, <1>5, <2>1 DEF DataTyped, InsertChallenge, Clients
  <2>3. DataTyped'
    BY <1>5, <2>2 DEF DataTyped, InsertChallenge
  <2>4. /\ Knows("unlock", req[th], [NoLocals EXCEPT !.ret = "issued"])
        /\ Knows("unlock", req[th], [NoLocals EXCEPT !.ret = "idle"])
        /\ [NoLocals EXCEPT !.ret = "idle"] = NoLocals
    BY <1>0 DEF NoLocals
  <2> HIDE DEF Knows
  <2>5. CASE AnswerUnlock(th, NoLocals, "issued")
    BY <2>3, <2>4, <2>5, NoLocalsType, AnswerUnlockTyped DEF Returns
  <2>6. CASE Unlocking(th, NoLocals, "idle") /\ UNCHANGED dead
    BY <2>3, <2>4, <2>6, NoLocalsType, StepTyped
       DEF Unlocking, ThreadsTyped, Pcs
  <2> QED BY <1>5, <2>5, <2>6 DEF InsertChallenge
<1> QED BY <1>1, <1>2, <1>3, <1>4, <1>5

\* validate_client.
LEMMA ApiTyped ==
  ASSUME DataTyped, ThreadsTyped, NEW th \in Threads,
         ReadChallenge(th) \/ DeleteChallenge(th) \/ InsertAllowed(th)
  PROVE  DataTyped' /\ ThreadsTyped'
<1> USE DEF Knows, Place, PagePlaces, JsPlaces, ApiPlaces
<1>0. /\ loc[th] \in Locals /\ Knows(pc[th], req[th], loc[th])
      /\ req[th] \in Requests /\ req[th].ip \in IPs
  BY ThreadTyped DEF ReadChallenge, DeleteChallenge, InsertAllowed, Runs
<1>1. CASE ReadChallenge(th)
  <2>1. DataTyped'
    BY <1>1 DEF DataTyped, ReadChallenge, tables, history
  <2>2. ASSUME NEW r \in CHALLENGE_FACTORS, r.id = req[th].id,
               Answer(th, [loc[th] EXCEPT !.port = r.port, !.at = r.at],
                      "delete_chal")
        PROVE  ThreadsTyped'
    <3> DEFINE l == [loc[th] EXCEPT !.port = r.port, !.at = r.at]
    <3>1. r.port \in Ports /\ r.at \in Times /\ req[th].id \in Ids
      BY <2>2 DEF DataTyped
    <3>2. l \in Locals /\ l.port \in Ports
      BY <1>0, <3>1 DEF Locals
    <3>3. "delete_chal" \in Pcs /\ Knows("delete_chal", req[th], l)
      BY <1>0, <1>1, <3>1, <3>2 DEF ReadChallenge, Runs, Pcs, Statements,
                                    Writing
    <3> HIDE DEF l, Knows
    <3> QED BY <2>2, <3>2, <3>3, AnswerTyped DEF l
  <2>3. CASE AnswerUnlock(th, NoLocals, "idle")
    <3>1. Knows("unlock", req[th], [NoLocals EXCEPT !.ret = "idle"])
      BY <1>0 DEF NoLocals
    <3> QED BY <2>1, <2>3, <3>1, NoLocalsType, AnswerUnlockTyped DEF Returns
  <2> QED BY <1>1, <2>1, <2>2, <2>3 DEF ReadChallenge
<1>2. CASE DeleteChallenge(th)
  <2>1. DataTyped'
    BY <1>0, <1>2 DEF DataTyped, DeleteChallenge, Runs
  <2> DEFINE l == [loc[th] EXCEPT !.ret = "insert_allowed"]
  <2>2. l.ret = "insert_allowed" /\ l.port = loc[th].port
    BY <1>0 DEF Locals
  <2>3. Knows("unlock", req[th], l) /\ "insert_allowed" \in Returns
    BY <1>0, <1>2, <2>2 DEF DeleteChallenge, Runs, Returns
  <2> QED BY <1>0, <1>2, <2>1, <2>3, AnswerUnlockTyped DEF DeleteChallenge
<1>3. CASE InsertAllowed(th)
  <2>1. loc[th].port \in Ports
    BY <1>0, <1>3 DEF InsertAllowed, Runs
  <2>2. ALLOWED_IPS' \subseteq [ip : IPs, port : Ports, at : Times]
    BY <1>0, <1>3, <2>1 DEF DataTyped, InsertAllowed
  <2>3. granted' \in [Clients -> Times \cup {Never}]
    BY <1>0, <1>3, <2>1 DEF DataTyped, InsertAllowed, Clients
  <2>4. DataTyped'
    BY <1>3, <2>2, <2>3 DEF DataTyped, InsertAllowed
  <2>5. "cache_correct" \in Pcs /\ Knows("cache_correct", req[th], loc[th])
    BY <1>0, <1>3 DEF InsertAllowed, Runs, Pcs
  <2> QED BY <1>0, <1>3, <2>4, <2>5, AnswerTyped DEF InsertAllowed
<1> QED BY <1>1, <1>2, <1>3

LEMMA NextTyped == Typed /\ [Next]_vars => Typed'
<1> SUFFICES ASSUME Typed, [Next]_vars PROVE Typed'
  OBVIOUS
<1>0. DataTyped /\ ThreadsTyped
  BY TypedParts
<1> SUFFICES DataTyped' /\ ThreadsTyped'
  BY TypedPartsNext
<1>1. CASE UNCHANGED vars
  BY <1>0, <1>1 DEF vars, tables, thread, history, DataTyped, ThreadsTyped,
                    ThreadOK
<1>2. ASSUME NEW th \in Threads, ThreadStep(th)
      PROVE  DataTyped' /\ ThreadsTyped'
  BY <1>0, <1>2, LockTyped, UnlockTyped, RefuseTyped, CacheTyped, PageTyped,
     SeqTyped, JsTyped, ApiTyped DEF ThreadStep
<1> QED
  BY <1>0, <1>1, <1>2, SessionTyped, ArriveTyped, ClockTyped DEF Next

\* Type correctness, for any number of threads and any constants.
THEOREM TypeCorrect == Spec => []TypeOK
<1>1. Typed => TypeOK
  BY DEF Typed
<1> QED BY <1>1, InitTyped, NextTyped, PTL DEF Spec

-----------------------------------------------------------------------------
(* Locks.                                                                  *)

\* A step of th leaves what the other threads have alone.
OthersSame(th) ==
  \A u \in Threads \ {th} : /\ pc'[u] = pc[u] /\ req'[u] = req[u]
                            /\ loc'[u] = loc[u] /\ dead'[u] = dead[u]

LEMMA StepOthers ==
  ASSUME ThreadsTyped, NEW th \in Threads, NEW l, NEW next,
         Step(th, l, next) \/ Done(th),
         UNCHANGED dead \/ dead' = [dead EXCEPT ![th] = TRUE]
  PROVE  OthersSame(th)
BY DEF ThreadsTyped, Step, Done, OthersSame

LEMMA FailingOthers ==
  ASSUME ThreadsTyped, NEW th \in Threads, Failing(th),
         UNCHANGED dead \/ dead' = [dead EXCEPT ![th] = TRUE]
  PROVE  OthersSame(th)
BY StepOthers DEF Failing, Unlocking

LEMMA AnswerOthers ==
  ASSUME ThreadsTyped, NEW th \in Threads, NEW l, NEW next,
         Answer(th, l, next)
  PROVE  OthersSame(th)
BY StepOthers, FailingOthers DEF Answer

LEMMA ThreadStepOthers ==
  ASSUME ThreadsTyped, NEW th \in Threads, ThreadStep(th)
  PROVE  OthersSame(th)
<1> USE StepOthers, FailingOthers, AnswerOthers DEF AnswerUnlock
<1>1. CASE \/ LockTable(th) \/ UnlockTables(th) \/ Refuse(th) \/ Reply(th)
           \/ CacheLookup(th) \/ CacheAllowed(th) \/ CacheCorrect(th)
  BY <1>1 DEF LockTable, UnlockTables, Refuse, Reply, CacheLookup,
              CacheAllowed, CacheCorrect, CacheInsert
<1>2. CASE \/ CleanupAllowed(th) \/ IsAllowed(th) \/ CleanupIdToPorts(th)
           \/ InsertIdToPort(th) \/ \E r \in Rand : ExistsId(th, r)
  BY <1>2 DEF CleanupAllowed, IsAllowed, CleanupIdToPorts, InsertIdToPort,
              ExistsId
<1>3. CASE \/ SeqRead(th) \/ SeqWrite(th) \/ ReadPort(th) \/ DeleteId(th)
           \/ \E r \in Rand : Exists(th, r)
  BY <1>3 DEF SeqRead, SeqWrite, ReadPort, DeleteId, Exists
<1>4. CASE \/ CleanupChallenges(th) \/ InsertChallenge(th)
           \/ ReadChallenge(th) \/ DeleteChallenge(th) \/ InsertAllowed(th)
  BY <1>4 DEF CleanupChallenges, InsertChallenge, ReadChallenge,
              DeleteChallenge, InsertAllowed, Unlocking
<1> QED BY <1>1, <1>2, <1>3, <1>4 DEF ThreadStep

\* A thread that is at s, with its locks as they should be, may go to next
\* without a lock or an unlock.
Leads(s, next) ==
  \/ s \in Locked /\ next = "unlock"
  \/ s \in Locked /\ next \in Locked /\ LockFor(next) = LockFor(s)
  \/ s \notin Locked \cup {"unlock"} /\ next \notin Locked

LEMMA StepLocks ==
  ASSUME ThreadsTyped, LocksOK, NEW th \in Threads, OthersSame(th),
         UNCHANGED held, ~dead'[th] => ~dead[th] /\ Leads(pc[th], pc'[th])
  PROVE  LocksOK'
<1>0. "unlock" \notin Locked
  BY DEF Locked, Reading, Writing
<1>1. ASSUME NEW u \in Threads, ~dead'[u]
      PROVE  /\ pc'[u] \in Locked => held'[u] = LockFor(pc'[u])
             /\ pc'[u] \notin Locked \cup {"unlock"} => held'[u] = NoLock
  <2>1. CASE u = th
    BY <1>0, <1>1, <2>1 DEF LocksOK, Leads
  <2>2. CASE u # th
    BY <1>1, <2>2 DEF LocksOK, OthersSame
  <2> QED BY <2>1, <2>2
<1> QED BY <1>1 DEF LocksOK

LEMMA AnswerLocks ==
  ASSUME ThreadsTyped, LocksOK, NEW th \in Threads, NEW l, NEW next,
         Answer(th, l, next), ~dead[th], UNCHANGED held, Leads(pc[th], next)
  PROVE  LocksOK'
<1>1. CASE Step(th, l, next) /\ UNCHANGED dead
  BY <1>1, AnswerOthers, StepLocks DEF Step, ThreadsTyped
<1>2. CASE dead' = [dead EXCEPT ![th] = TRUE]
  BY <1>2, AnswerOthers, StepLocks DEF ThreadsTyped
<1> QED BY <1>1, <1>2 DEF Answer

LEMMA StatementLocks ==
  ASSUME ThreadsTyped, LocksOK, NEW th \in Threads,
         \/ CleanupAllowed(th) \/ IsAllowed(th) \/ CleanupIdToPorts(th)
         \/ InsertIdToPort(th) \/ (\E r \in Rand : ExistsId(th, r))
         \/ SeqRead(th) \/ SeqWrite(th) \/ ReadPort(th) \/ DeleteId(th)
         \/ (\E r \in Rand : Exists(th, r)) \/ CleanupChallenges(th)
         \/ InsertChallenge(th) \/ ReadChallenge(th) \/ DeleteChallenge(th)
         \/ InsertAllowed(th)
  PROVE  LocksOK'
<1> USE DEF AnswerUnlock, Runs, tables
<1>1. \A s \in Locked : Leads(s, "unlock")
  BY DEF Leads
<1>2. /\ Leads("cleanup_ids", "exists_id") /\ Leads("exists_id", "exists_id")
      /\ Leads("exists_id", "insert_id") /\ Leads("seq_read", "seq_write")
      /\ Leads("read_port", "delete_id") /\ Leads("exists", "lock_seq")
      /\ Leads("exists", "lock_chal") /\ Leads("cleanup_chal", "insert_chal")
      /\ Leads("cleanup_chal", "read_chal")
      /\ Leads("read_chal", "delete_chal")
      /\ Leads("insert_allowed", "cache_correct")
  BY DEF Leads, Locked, Reading, Writing, LockFor, Lock, Table
<1>3. /\ {"cleanup_allowed", "is_allowed", "insert_id", "seq_write",
          "read_port", "delete_id", "insert_chal", "read_chal",
          "delete_chal"} \subseteq Locked
  BY DEF Locked, Reading, Writing
<1>4. CASE \/ CleanupAllowed(th) \/ IsAllowed(th) \/ CleanupIdToPorts(th)
           \/ InsertIdToPort(th) \/ \E r \in Rand : ExistsId(th, r)
  BY <1>1, <1>2, <1>3, <1>4, AnswerLocks
     DEF CleanupAllowed, IsAllowed, CleanupIdToPorts, InsertIdToPort, ExistsId
<1>5. CASE \/ SeqRead(th) \/ SeqWrite(th) \/ ReadPort(th) \/ DeleteId(th)
           \/ \E r \in Rand : Exists(th, r)
  BY <1>1, <1>2, <1>3, <1>5, AnswerLocks
     DEF SeqRead, SeqWrite, ReadPort, DeleteId, Exists
<1>6. CASE \/ CleanupChallenges(th) \/ ReadChallenge(th)
           \/ DeleteChallenge(th) \/ InsertAllowed(th)
  BY <1>1, <1>2, <1>3, <1>6, AnswerLocks
     DEF CleanupChallenges, ReadChallenge, DeleteChallenge, InsertAllowed
<1>7. CASE InsertChallenge(th)
  <2>1. CASE AnswerUnlock(th, NoLocals, "issued")
    BY <1>1, <1>3, <1>7, <2>1, AnswerLocks DEF InsertChallenge
  <2>2. CASE Unlocking(th, NoLocals, "idle") /\ UNCHANGED dead
    BY <1>1, <1>3, <1>7, <2>2, StepOthers, StepLocks
       DEF InsertChallenge, Unlocking, Step, ThreadsTyped
  <2> QED BY <1>7, <2>1, <2>2 DEF InsertChallenge
<1> QED BY <1>4, <1>5, <1>6, <1>7

LEMMA NextLocks ==
  ASSUME Typed, LocksOK, [Next]_vars
  PROVE  LocksOK'
<1>0. DataTyped /\ ThreadsTyped
  BY TypedParts
<1>1. CASE UNCHANGED vars
  BY <1>1 DEF vars, thread, LocksOK
<1>2. ASSUME NEW th \in Threads, LockTable(th)
      PROVE  LocksOK'
  <2> DEFINE k == Lock(Table(pc[th]), Mode(pc[th]))
  <2>1. held' = [held EXCEPT ![th] = k] /\ held'[th] = k
    BY <1>0, <1>2 DEF LockTable, DataTyped
  <2>2. k.table # "none" /\ k.table = Table(pc[th]) /\ k.mode = Mode(pc[th])
        /\ k.mode \in {"READ", "WRITE"}
    BY <1>2 DEF LockTable, Locking, Lock, Table, Mode
  <2>3. \A u \in Threads \ {th} :
          held[u].table = k.table => k.mode = "READ" /\ held[u].mode = "READ"
    BY <1>2, <2>2 DEF LockTable, Runs, Compatible
  <2>4. /\ AfterLock(th) \in Locked /\ LockFor(AfterLock(th)) = k
    BY <1>2 DEF LockTable, Locking, AfterLock, Locked, Reading, Writing,
                LockFor, Lock, Table, Mode
  <2> HIDE DEF k
  <2>5. OthersSame(th)
    BY <1>0, <1>2, AnswerOthers DEF LockTable
  <2>6. ~dead'[th] => pc'[th] = AfterLock(th)
    BY <1>0, <1>2 DEF LockTable, Answer, Step, ThreadsTyped
  <2>7. \A u \in Threads \ {th} : held'[u] = held[u]
    BY <1>0, <2>1 DEF DataTyped
  <2>8. ASSUME NEW u \in Threads, ~dead'[u]
        PROVE  /\ pc'[u] \in Locked => held'[u] = LockFor(pc'[u])
               /\ pc'[u] \notin Locked \cup {"unlock"} => held'[u] = NoLock
    <3>1. CASE u = th
      BY <2>1, <2>4, <2>6, <2>8, <3>1
    <3>2. CASE u # th
      BY <2>5, <2>7, <2>8, <3>2 DEF LocksOK, OthersSame
    <3> QED BY <3>1, <3>2
  <2>9. ASSUME NEW u \in Threads, NEW w \in Threads, u # w,
               held'[u] # NoLock, held'[u].table = held'[w].table
        PROVE  held'[u].mode = "READ" /\ held'[w].mode = "READ"
    <3>1. CASE u = th
      BY <2>1, <2>3, <2>7, <2>9, <3>1
    <3>2. CASE w = th
      BY <2>1, <2>3, <2>7, <2>9, <3>2
    <3>3. CASE u # th /\ w # th
      BY <2>7, <2>9, <3>3 DEF LocksOK
    <3> QED BY <3>1, <3>2, <3>3
  <2> QED BY <2>8, <2>9 DEF LocksOK
<1>3. ASSUME NEW th \in Threads,
             \/ UnlockTables(th) \/ Drop(th)
      PROVE  LocksOK'
  <2>1. /\ OthersSame(th)
        /\ \A u \in Threads \ {th} : held'[u] = held[u]
        /\ held'[th] = NoLock \/ dead'[th]
        /\ held'[th] \in {held[th], NoLock}
    <3>1. CASE UnlockTables(th)
      <4>1. OthersSame(th)
        BY <1>0, <3>1, StepOthers DEF UnlockTables
      <4> QED BY <1>0, <3>1, <4>1 DEF UnlockTables, DataTyped
    <3>2. CASE Drop(th)
      BY <1>0, <3>2 DEF Drop, OthersSame, thread, DataTyped
    <3> QED BY <1>3, <3>1, <3>2
  <2>2. ~dead'[th] => pc'[th] \notin Locked
    <3>1. CASE UnlockTables(th)
      <4>1. Knows("unlock", req[th], loc[th]) /\ loc[th] \in Locals
        BY <1>0, <3>1, ThreadTyped DEF UnlockTables
      <4>2. pc'[th] \in {"idle", loc[th].ret}
        BY <1>0, <3>1 DEF UnlockTables, Done, Step, ThreadsTyped
      <4> QED BY <4>1, <4>2 DEF Locals, Returns, Locked, Reading, Writing
    <3>2. CASE Drop(th)
      BY <1>0, <3>2 DEF Drop, ThreadsTyped
    <3> QED BY <1>3, <3>1, <3>2
  <2>3. NoLock.table = "none" /\ \A u \in Threads : held[u] # NoLock =>
                                    held[u].table # "none"
    BY <1>0 DEF NoLock, DataTyped
  <2> QED BY <2>1, <2>2, <2>3 DEF LocksOK, OthersSame
<1>4. ASSUME NEW th \in Threads, Refuse(th)
      PROVE  LocksOK'
  <2>1. OthersSame(th) /\ UNCHANGED <<held, dead>>
    BY <1>0, <1>4, FailingOthers DEF Refuse
  <2>2. Leads(pc[th], pc'[th])
    <3>1. CASE pc[th] \in Locking \cup {"exists", "insert_allowed"} /\ Done(th)
      BY <1>0, <3>1 DEF Done, ThreadsTyped, Leads, Locking, Locked, Reading,
                        Writing
    <3>2. CASE pc[th] = "cleanup_ids" /\ Step(th, loc[th], "exists_id")
      BY <1>0, <3>2 DEF Step, ThreadsTyped, Leads, Locked, Reading, Writing,
                        LockFor, Table
    <3>3. CASE /\ pc[th] \in Locked
               /\ \E l : Step(th, l, "unlock")
      BY <1>0, <3>3 DEF Step, ThreadsTyped, Leads
    <3>4. \A s \in Statements \ (Locking \cup {"exists", "insert_allowed"}) :
            s \in Locked
      BY DEF Statements, Locked
    <3>5. "delete_chal" \in Locked
      BY DEF Locked, Reading, Writing
    <3> QED BY <1>4, <3>1, <3>2, <3>3, <3>4, <3>5 DEF Refuse, Failing, Unlocking
  <2>3. ~dead'[th] => ~dead[th]
    BY <2>1
  <2> QED BY <1>0, <2>1, <2>2, <2>3, StepLocks
<1>5. ASSUME NEW th \in Threads,
             \/ Reply(th) \/ CacheLookup(th) \/ CacheAllowed(th)
             \/ CacheCorrect(th)
      PROVE  LocksOK'
  <2>1. UNCHANGED <<held, dead>>
    BY <1>5 DEF Reply, CacheLookup, CacheAllowed, CacheCorrect, CacheInsert
  <2>2. OthersSame(th)
    BY <1>0, <1>5, ThreadStepOthers DEF ThreadStep
  <2>3. /\ pc[th] \in {"cache", "cache_allowed", "cache_correct", "forward",
                       "issued", "correct"}
        /\ pc'[th] \in {"idle", "forward", "lock_allowed", "correct"}
    BY <1>0, <1>5 DEF Reply, CacheLookup, CacheAllowed, CacheCorrect,
                      CacheInsert, Step, Done, ThreadsTyped
  <2>4. Leads(pc[th], pc'[th])
    BY <2>3 DEF Leads, Locked, Reading, Writing
  <2> QED BY <1>0, <2>1, <2>2, <2>4, StepLocks
<1>6. ASSUME NEW th \in Threads, Break(th) \/ Reconnect(th)
      PROVE  LocksOK'
  <2>1. UNCHANGED <<held, pc>>
    BY <1>6 DEF Break, Reconnect, thread
  <2>2. \A u \in Threads : ~dead'[u] /\ dead[u] =>
          held[u] = NoLock /\ pc[u] = "idle"
    BY <1>0, <1>6 DEF Break, Reconnect, ThreadsTyped
  <2>3. "idle" \notin Locked
    BY DEF Locked, Reading, Writing
  <2> QED BY <2>1, <2>2, <2>3 DEF LocksOK
<1>7. ASSUME NEW th \in Threads, NEW kind \in {"page", "js", "api"},
             NEW ip, NEW port, NEW id, Arrive(th, kind, ip, port, id)
      PROVE  LocksOK'
  <2>1. OthersSame(th) /\ UNCHANGED <<held, dead>>
        /\ pc[th] = "idle" /\ pc'[th] = FirstStep(kind)
    BY <1>0, <1>7 DEF Arrive, OthersSame, ThreadsTyped
  <2>2. Leads("idle", FirstStep(kind))
    BY DEF FirstStep, Leads, Locked, Reading, Writing
  <2> QED BY <1>0, <2>1, <2>2, StepLocks
<1>8. CASE Tick \/ ClearCache
  BY <1>8 DEF Tick, ClearCache, thread, LocksOK
<1> QED
  <2>1. ASSUME NEW th \in Threads, ThreadStep(th)
        PROVE  LocksOK'
    BY <1>0, <1>2, <1>3, <1>4, <1>5, <2>1, StatementLocks DEF ThreadStep
  <2> QED BY <1>1, <1>3, <1>6, <1>7, <1>8, <2>1 DEF Next

LEMMA InitLocks == Init => LocksOK
BY DEF Init, LocksOK, Locked, Reading, Writing

\* Whoever holds a table can go on: no two sessions wait for each other, and
\* none goes back to its client with a table locked (HolderRuns).
THEOREM HoldersRun == Spec => []HolderRuns
<1>1. Typed /\ LocksOK => HolderRuns
  <2> SUFFICES ASSUME Typed, LocksOK, NEW th \in Threads,
                      held[th] # NoLock, ~dead[th], pc[th] # "unlock"
               PROVE  /\ pc[th] \in Reading \cup Writing
                      /\ Table(pc[th]) = held[th].table
                      /\ held[th].mode = "READ" => pc[th] \in Reading
                      /\ Compatible(th, pc[th])
    BY DEF HolderRuns
  <2>1. pc[th] \in Locked /\ held[th] = LockFor(pc[th])
    BY DEF LocksOK
  <2>2. pc[th] \in Reading \cup Writing
    BY <2>1 DEF Locked
  <2>3. /\ Table(pc[th]) = held[th].table
        /\ held[th].mode = "READ" => pc[th] = "is_allowed"
    BY <2>1 DEF LockFor, Lock
  <2>4. Compatible(th, pc[th])
    <3> SUFFICES ASSUME NEW u \in Threads \ {th},
                        held[u].table = Table(pc[th])
                 PROVE  Mode(pc[th]) = "READ" /\ held[u].mode = "READ"
      BY DEF Compatible
    <3>1. held[th].mode = "READ" /\ held[u].mode = "READ"
      BY <2>3 DEF LocksOK
    <3> QED BY <2>3, <3>1 DEF Mode, Reading
  <2> QED BY <2>2, <2>3, <2>4 DEF Reading
<1> QED
  BY <1>1, InitTyped, NextTyped, InitLocks, NextLocks, PTL DEF Spec

-----------------------------------------------------------------------------
(* Sequence numbers.                                                       *)

\* Going to next with locals l, a thread gets no number it does not have.
NoNewNumber(th, next, l) ==
  Carries(next, l) => Numbered(th) /\ l.val = loc[th].val

LEMMA NoLocalsCarries == \A p : ~Carries(p, NoLocals)
BY DEF Carries, NoLocals

LEMMA FailingNumber ==
  ASSUME ThreadsTyped, NEW th \in Threads, Failing(th)
  PROVE  NoNewNumber(th, pc'[th], loc'[th]) /\ pc'[th] # "seq_write"
<1>1. CASE Done(th)
  BY <1>1, NoLocalsCarries DEF Done, ThreadsTyped, NoNewNumber
<1>2. CASE pc[th] = "cleanup_ids" /\ Step(th, loc[th], "exists_id")
  BY <1>2 DEF Step, ThreadsTyped, NoNewNumber, Numbered, Carries, Place
<1>3. CASE pc[th] = "delete_chal" /\ Unlocking(th, loc[th], "insert_allowed")
  <2>1. [loc[th] EXCEPT !.ret = "insert_allowed"].ret = "insert_allowed"
    BY DEF ThreadsTyped, Locals
  <2> QED BY <1>3, <2>1 DEF Unlocking, Step, ThreadsTyped, NoNewNumber,
                            Carries, Place
<1>4. CASE Unlocking(th, NoLocals, "idle")
  <2>1. [NoLocals EXCEPT !.ret = "idle"] = NoLocals
    BY DEF NoLocals
  <2> QED BY <1>4, <2>1, NoLocalsCarries DEF Unlocking, Step, ThreadsTyped,
                                             NoNewNumber
<1> QED BY <1>1, <1>2, <1>3, <1>4 DEF Failing

LEMMA AnswerNumber ==
  ASSUME ThreadsTyped, NEW th \in Threads, NEW l, NEW next,
         Answer(th, l, next), NoNewNumber(th, next, l), next # "seq_write"
  PROVE  NoNewNumber(th, pc'[th], loc'[th]) /\ pc'[th] # "seq_write"
<1>1. CASE Step(th, l, next)
  BY <1>1 DEF Step, ThreadsTyped
<1> QED BY <1>1, FailingNumber DEF Answer

\* Only SeqWrite gives out a number.
LEMMA StepNumber ==
  ASSUME ThreadsTyped, NEW th \in Threads, ThreadStep(th), ~SeqRead(th),
         ~SeqWrite(th)
  PROVE  NoNewNumber(th, pc'[th], loc'[th]) /\ pc'[th] # "seq_write"
<1>0. loc[th] \in Locals /\ pc[th] \in Pcs /\ Knows(pc[th], req[th], loc[th])
  BY ThreadTyped
<1>1. \A ret \in Returns :
        [loc[th] EXCEPT !.ret = ret].ret = ret /\
        [loc[th] EXCEPT !.ret = ret].val = loc[th].val
  BY <1>0 DEF Locals
<1>2. \A id, port, at :
        /\ [loc[th] EXCEPT !.id = id].val = loc[th].val
        /\ [loc[th] EXCEPT !.port = port].val = loc[th].val
        /\ [loc[th] EXCEPT !.port = port, !.at = at].val = loc[th].val
  BY <1>0 DEF Locals
<1>3. \A ret \in Returns :
        [NoLocals EXCEPT !.ret = ret].ret = ret /\
        [NoLocals EXCEPT !.ret = ret].val = Never
  BY DEF NoLocals
<1>4. Returns = {"idle", "issued", "cache_allowed", "lock_allowed_r",
                 "lock_seq", "lock_ids", "exists", "insert_allowed"}
  BY DEF Returns
<1> HIDE DEF Returns
<1> USE DEF NoNewNumber, Numbered, Carries, Place, Runs, AnswerUnlock
<1>5. CASE LockTable(th)
  <2>1. /\ AfterLock(th) \in {"seq_read", "cleanup_ids", "read_port",
                         "cleanup_chal", "cleanup_allowed", "is_allowed"}
        /\ AfterLock(th) = "cleanup_ids" => pc[th] = "lock_ids"
        /\ AfterLock(th) = "cleanup_chal" => pc[th] = "lock_chal"
    BY <1>5 DEF LockTable, AfterLock, Locking
  <2> QED BY <1>5, <2>1, AnswerNumber DEF LockTable
<1>6. CASE UnlockTables(th)
  <2>1. CASE Done(th)
    BY <2>1, NoLocalsCarries DEF Done, ThreadsTyped
  <2>2. CASE Step(th, [loc[th] EXCEPT !.ret = "idle"], loc[th].ret)
    <3>1. loc[th].ret \in Returns
      BY <1>0 DEF Locals
    <3>2. [loc[th] EXCEPT !.ret = "idle"].val = loc[th].val
      BY <1>1, <1>4
    <3>3. pc'[th] = loc[th].ret /\ loc'[th].val = loc[th].val
          /\ pc[th] = "unlock"
      BY <1>6, <2>2, <3>2 DEF Step, ThreadsTyped, UnlockTables
    <3> QED BY <1>4, <3>1, <3>3
  <2> QED BY <1>6, <2>1, <2>2 DEF UnlockTables
<1>7. CASE Refuse(th)
  BY <1>7, FailingNumber DEF Refuse
<1>8. CASE \/ Reply(th) \/ CacheLookup(th) \/ CacheAllowed(th)
           \/ CacheCorrect(th)
  BY <1>8, NoLocalsCarries DEF Reply, CacheLookup, CacheAllowed, CacheCorrect,
       CacheInsert, Done, Step, ThreadsTyped
<1>9. CASE \/ CleanupAllowed(th) \/ IsAllowed(th) \/ CleanupIdToPorts(th)
           \/ InsertIdToPort(th) \/ \E r \in Rand : ExistsId(th, r)
  <2>1. CASE CleanupAllowed(th) \/ IsAllowed(th) \/ InsertIdToPort(th)
    BY <1>1, <1>3, <1>4, <2>1, AnswerNumber
       DEF CleanupAllowed, IsAllowed, InsertIdToPort
  <2>2. CASE CleanupIdToPorts(th)
    BY <2>2, AnswerNumber DEF CleanupIdToPorts
  <2>3. ASSUME NEW r, ExistsId(th, r)
        PROVE  NoNewNumber(th, pc'[th], loc'[th]) /\ pc'[th] # "seq_write"
    BY <1>2, <2>3, AnswerNumber DEF ExistsId
  <2> QED BY <1>9, <2>1, <2>2, <2>3
<1>10. CASE ReadPort(th) \/ DeleteId(th) \/ \E r \in Rand : Exists(th, r)
  <2>1. CASE ReadPort(th)
    BY <1>3, <1>4, <2>1, AnswerNumber DEF ReadPort
  <2>2. CASE DeleteId(th)
    BY <1>1, <1>4, <2>2, AnswerNumber DEF DeleteId
  <2>3. ASSUME NEW r, Exists(th, r)
        PROVE  NoNewNumber(th, pc'[th], loc'[th]) /\ pc'[th] # "seq_write"
    BY <1>2, <2>3, AnswerNumber DEF Exists
  <2> QED BY <1>10, <2>1, <2>2, <2>3
<1>11. CASE CleanupChallenges(th) \/ ReadChallenge(th) \/ DeleteChallenge(th)
            \/ InsertAllowed(th)
  <2>1. CASE CleanupChallenges(th)
    BY <2>1, AnswerNumber DEF CleanupChallenges
  <2>2. CASE ReadChallenge(th)
    <3>1. ASSUME NEW l, Answer(th, l, "delete_chal")
          PROVE  NoNewNumber(th, pc'[th], loc'[th]) /\ pc'[th] # "seq_write"
      BY <3>1, AnswerNumber
    <3>2. CASE AnswerUnlock(th, NoLocals, "idle")
      BY <1>3, <1>4, <3>2, AnswerNumber
    <3>3. CASE \E r \in CHALLENGE_FACTORS :
                 Answer(th, [loc[th] EXCEPT !.port = r.port, !.at = r.at],
                        "delete_chal")
      BY <3>1, <3>3
    <3>4. \/ \E r \in CHALLENGE_FACTORS :
               Answer(th, [loc[th] EXCEPT !.port = r.port, !.at = r.at],
                      "delete_chal")
          \/ AnswerUnlock(th, NoLocals, "idle")
      BY <2>2, Zenon DEF ReadChallenge
    <3> QED BY <3>2, <3>3, <3>4, Zenon
  <2>3. CASE DeleteChallenge(th) \/ InsertAllowed(th)
    BY <1>1, <1>4, <2>3, AnswerNumber DEF DeleteChallenge, InsertAllowed
  <2> QED BY <1>11, <2>1, <2>2, <2>3
<1>12. CASE InsertChallenge(th)
  <2>1. CASE AnswerUnlock(th, NoLocals, "issued")
    BY <1>3, <1>4, <2>1, AnswerNumber
  <2>2. CASE Unlocking(th, NoLocals, "idle")
    BY <1>3, <1>4, <2>2 DEF Unlocking, Step, ThreadsTyped
  <2> QED BY <1>12, <2>1, <2>2 DEF InsertChallenge
<1> QED BY <1>5, <1>6, <1>7, <1>8, <1>9, <1>10, <1>11, <1>12 DEF ThreadStep

LEMMA ShortSeq ==
  ASSUME NEW S, NEW s \in Seq(S), Len(s) <= 1
  PROVE  s = <<>> \/ (s # <<>> /\ Len(s) = 1 /\ s[1] \in S /\ DOMAIN s = {1})
<1>1. Len(s) \in Nat /\ DOMAIN s = 1..Len(s) /\ s \in [1..Len(s) -> S]
  BY LenProperties
<1>2. s # <<>> => Len(s) \in Nat \ {0}
  BY EmptySeq
<1>3. s # <<>> => Len(s) = 1
  BY <1>1, <1>2
<1>4. Len(s) = 1 => s[1] \in S /\ DOMAIN s = {1}
  <2>1. 1..1 = {1}
    OBVIOUS
  <2> QED BY <1>1, <2>1
<1> QED BY <1>3, <1>4

LEMMA OneRow ==
  ASSUME DataTyped, SeqOK
  PROVE  /\ SEQ_ID = <<>> \/ (SEQ_ID # <<>> /\ Len(SEQ_ID) = 1 /\
              SEQ_ID[1] \in 1..(SeqLimit - 1) /\ DOMAIN SEQ_ID = {1})
         /\ Top = IF SEQ_ID = <<>> THEN 0 ELSE SEQ_ID[Len(SEQ_ID)]
<1>1. SEQ_ID \in Seq(1..(SeqLimit - 1)) /\ Len(SEQ_ID) <= 1
  BY DEF DataTyped, SeqOK
<1>2. SEQ_ID = <<>> \/ (SEQ_ID # <<>> /\ Len(SEQ_ID) = 1 /\
         SEQ_ID[1] \in 1..(SeqLimit - 1) /\ DOMAIN SEQ_ID = {1})
  BY <1>1, ShortSeq, Zenon
<1> QED BY <1>2 DEF Top

\* The step of th leaves the table of the sequence number alone.
LEMMA FrameSeq ==
  ASSUME SeqOK, UNCHANGED <<SEQ_ID, wrapped>>,
         \A u \in Threads : /\ NoNewNumber(u, pc'[u], loc'[u])
                            /\ pc'[u] = "seq_write" /\ ~dead'[u]
                               => loc'[u].val = Top
  PROVE  SeqOK'
<1>1. Top' = Top
  BY DEF Top
<1>2. \A u \in Threads : Numbered(u)' => Numbered(u) /\ loc'[u].val = loc[u].val
  BY DEF NoNewNumber, Numbered
<1> HIDE DEF Numbered, Top
<1> QED BY <1>1, <1>2 DEF SeqOK

LEMMA OtherNumbers ==
  ASSUME SeqOK, NEW th \in Threads, OthersSame(th), NEW u \in Threads \ {th}
  PROVE  /\ NoNewNumber(u, pc'[u], loc'[u])
         /\ Numbered(u)' <=> Numbered(u)
         /\ pc'[u] = "seq_write" /\ ~dead'[u] => loc'[u].val = Top
BY DEF OthersSame, NoNewNumber, Numbered, SeqOK

LEMMA SeqWriteNumbers ==
  ASSUME DataTyped, ThreadsTyped, LocksOK, SeqOK, NEW th \in Threads,
         SeqWrite(th)
  PROVE  SeqOK'
<1> DEFINE v == loc[th].val
<1>0. /\ loc[th] \in Locals /\ pc[th] = "seq_write" /\ ~dead[th] /\ v # Never
      /\ req[th].kind \in {"page", "js", "api"} /\ v = Top
  BY ThreadTyped DEF SeqWrite, Runs, Knows, Place, SeqOK
<1>1. v \in 0..(SeqLimit - 1)
  BY <1>0, MsqlAssumption DEF Locals, Never
<1>2. /\ Len(SEQ_ID') <= 1 /\ SEQ_ID' # <<>>
      /\ ~wrapped' => ~wrapped /\ SEQ_ID'[1] = v + 1
  <2>0. SEQ_ID' \in Seq(1..(SeqLimit - 1))
    BY SeqTyped DEF DataTyped
  <2>1. CASE SEQ_ID = <<>>
    <3>1. SEQ_ID' = Append(<<>>, 1) /\ v = 0
      BY <1>0, <2>1 DEF SeqWrite, Top
    <3>2. SEQ_ID' = <<1>>
      BY <3>1
    <3>3. Len(SEQ_ID') = 1 /\ SEQ_ID'[1] = 1 /\ SEQ_ID' # <<>>
      BY <3>2
    <3>4. ~wrapped' => ~wrapped
      BY DEF SeqWrite
    <3> QED BY <3>1, <3>3, <3>4
  <2>2. CASE /\ SEQ_ID # <<>> /\ DOMAIN SEQ_ID = {1}
             /\ SEQ_ID[1] \in 1..(SeqLimit - 1)
    <3>1. v = SEQ_ID[1] /\ SEQ_ID # <<>> /\ v # 0
      BY <1>0, <2>2 DEF Top
    <3>2. SEQ_ID' = [i \in {1} |-> NextSeq(v)]
      BY <2>2, <3>1 DEF SeqWrite
    <3>3. DOMAIN SEQ_ID' = {1} /\ SEQ_ID'[1] = NextSeq(v)
      BY <3>2
    <3>4. DOMAIN SEQ_ID' = 1..Len(SEQ_ID') /\ Len(SEQ_ID') \in Nat
      BY <2>0, LenProperties
    <3>5. Len(SEQ_ID') = 1 /\ SEQ_ID' # <<>>
      BY <3>3, <3>4
    <3>6. ~wrapped' => ~wrapped /\ ~(v >= SeqLimit - 1)
      BY DEF SeqWrite
    <3> QED BY <1>1, <3>3, <3>5, <3>6 DEF NextSeq
  <2> QED BY <2>1, <2>2, OneRow
<1>3. OthersSame(th)
  BY ThreadStepOthers DEF ThreadStep
<1>4. \A u \in Threads \ {th} : ~(pc[u] = "seq_write" /\ ~dead[u])
  <2>1. "seq_write" \in Locked
    BY DEF Locked, Writing
  <2>2. LockFor("seq_write").table = "seq" /\ LockFor("seq_write").mode = "WRITE"
    BY DEF LockFor, Lock, Table
  <2>3. NoLock.table = "none"
    BY DEF NoLock
  <2> QED BY <1>0, <2>1, <2>2, <2>3 DEF LocksOK
<1>5. pc'[th] = "unlock" /\ (Numbered(th)' => loc'[th].val = v)
  <2> DEFINE ret == IF req[th].kind = "page" THEN "lock_ids" ELSE "exists"
             l == [loc[th] EXCEPT !.ret = ret]
  <2>1. l.val = v
    BY <1>0 DEF Locals
  <2> HIDE DEF l
  <2>2. CASE Step(th, l, "unlock")
    BY <2>1, <2>2 DEF Step, ThreadsTyped
  <2>3. CASE Failing(th)
    <3>1. Unlocking(th, NoLocals, "idle")
      BY <1>0, <2>3 DEF Failing, Locking
    <3>2. [NoLocals EXCEPT !.ret = "idle"] = NoLocals
      BY DEF NoLocals
    <3>3. loc'[th] = NoLocals /\ pc'[th] = "unlock"
      BY <3>1, <3>2 DEF Unlocking, Step, ThreadsTyped
    <3> QED BY <3>3, NoLocalsCarries DEF Numbered
  <2> QED BY <2>2, <2>3 DEF SeqWrite, AnswerUnlock, Answer, l
<1>6. ~wrapped' => Top' = v + 1
  BY <1>2 DEF Top
<1>7. \A u \in Threads \ {th} : /\ loc'[u] = loc[u] /\ pc'[u] = pc[u]
                                /\ dead'[u] = dead[u]
                                /\ Numbered(u)' <=> Numbered(u)
  BY <1>3 DEF OthersSame, Numbered
<1>8. \A u \in Threads : pc'[u] = "seq_write" /\ ~dead'[u] => FALSE
  BY <1>4, <1>5, <1>7
<1>9. \A u \in Threads : loc[u].val \in Int
  BY MsqlAssumption DEF ThreadsTyped, Locals, Never
<1> HIDE DEF v, Numbered, Top
<1>10. ASSUME ~wrapped'
       PROVE  \A u \in Threads : Numbered(u)' => loc'[u].val < Top'
  BY <1>0, <1>1, <1>2, <1>5, <1>6, <1>7, <1>9, <1>10 DEF SeqOK
<1>11. ASSUME ~wrapped', NEW t \in Threads, NEW u \in Threads, t # u,
              Numbered(t)', Numbered(u)'
       PROVE  loc'[t].val # loc'[u].val
  <2>1. \A w \in Threads \ {th} : Numbered(w)' => loc'[w].val < v
    BY <1>0, <1>2, <1>7, <1>11 DEF SeqOK
  <2>2. CASE t = th
    BY <1>1, <1>5, <1>7, <1>9, <1>11, <2>1, <2>2
  <2>3. CASE u = th
    BY <1>1, <1>5, <1>7, <1>9, <1>11, <2>1, <2>3
  <2>4. CASE t # th /\ u # th
    BY <1>2, <1>7, <1>11, <2>4 DEF SeqOK
  <2> QED BY <2>2, <2>3, <2>4
<1> QED BY <1>2, <1>8, <1>10, <1>11 DEF SeqOK

LEMMA NextSeqOK ==
  ASSUME Typed, LocksOK, SeqOK, [Next]_vars
  PROVE  SeqOK'
<1>0. DataTyped /\ ThreadsTyped
  BY TypedParts
<1>1. CASE \/ UNCHANGED vars \/ Tick \/ ClearCache
           \/ \E th \in Threads : Break(th) \/ Drop(th) \/ Reconnect(th)
  <2>1. UNCHANGED <<SEQ_ID, wrapped, pc, loc>>
    BY <1>1 DEF vars, Tick, ClearCache, Break, Drop, Reconnect, tables, thread,
                history
  <2>2. \A u \in Threads : NoNewNumber(u, pc'[u], loc'[u])
    BY <2>1 DEF NoNewNumber, Numbered
  <2>3. \A u \in Threads : ~dead'[u] => ~dead[u] \/ pc[u] = "idle"
    BY <1>0, <1>1 DEF vars, Tick, ClearCache, Break, Drop, Reconnect,
                      ThreadsTyped
  <2> QED BY <2>1, <2>2, <2>3, FrameSeq DEF SeqOK
<1>2. ASSUME NEW th \in Threads, NEW kind \in {"page", "js", "api"},
             NEW ip, NEW port, NEW id, Arrive(th, kind, ip, port, id)
      PROVE  SeqOK'
  <2>1. OthersSame(th) /\ UNCHANGED <<SEQ_ID, wrapped>>
    BY <1>0, <1>2 DEF Arrive, OthersSame, ThreadsTyped, tables, history
  <2>2. loc'[th] = NoLocals /\ pc'[th] # "seq_write"
    BY <1>0, <1>2 DEF Arrive, ThreadsTyped, ThreadOK, Knows, FirstStep
  <2>3. NoNewNumber(th, pc'[th], loc'[th])
    BY <2>2, NoLocalsCarries DEF NoNewNumber
  <2> QED BY <2>1, <2>2, <2>3, OtherNumbers, FrameSeq
<1>3. ASSUME NEW th \in Threads, ThreadStep(th), ~SeqRead(th), ~SeqWrite(th)
      PROVE  SeqOK'
  <2>1. UNCHANGED <<SEQ_ID, wrapped>>
    <3>1. CASE \/ LockTable(th) \/ UnlockTables(th) \/ Refuse(th)
               \/ Reply(th) \/ CacheLookup(th) \/ CleanupAllowed(th)
               \/ IsAllowed(th) \/ CacheAllowed(th) \/ CleanupIdToPorts(th)
      BY <3>1 DEF LockTable, UnlockTables, Refuse, Reply, CacheLookup,
           CleanupAllowed, IsAllowed, CacheAllowed, CacheInsert,
           CleanupIdToPorts, tables, history
    <3>2. CASE \/ InsertIdToPort(th) \/ ReadPort(th) \/ DeleteId(th)
               \/ \E r \in Rand : ExistsId(th, r) \/ Exists(th, r)
      BY <3>2 DEF InsertIdToPort, ExistsId, Exists, ReadPort, DeleteId, tables,
                  history
    <3>3. CASE \/ CleanupChallenges(th) \/ InsertChallenge(th)
               \/ ReadChallenge(th) \/ DeleteChallenge(th)
               \/ InsertAllowed(th) \/ CacheCorrect(th)
      <4>1. CASE InsertChallenge(th) \/ ReadChallenge(th)
        <5>1. CASE InsertChallenge(th)
          BY <5>1 DEF InsertChallenge
        <5>2. CASE ReadChallenge(th)
          BY <5>2, Zenon DEF ReadChallenge, tables, history
        <5> QED BY <4>1, <5>1, <5>2
      <4>2. CASE CleanupChallenges(th) \/ DeleteChallenge(th)
        BY <4>2 DEF CleanupChallenges, DeleteChallenge, history
      <4>3. CASE InsertAllowed(th) \/ CacheCorrect(th)
        BY <4>3 DEF InsertAllowed, CacheCorrect, CacheInsert, tables, history
      <4> QED BY <3>3, <4>1, <4>2, <4>3
    <3> QED BY <1>3, <3>1, <3>2, <3>3 DEF ThreadStep
  <2>2. OthersSame(th)
    BY <1>0, <1>3, ThreadStepOthers
  <2>3. NoNewNumber(th, pc'[th], loc'[th]) /\ pc'[th] # "seq_write"
    BY <1>0, <1>3, StepNumber
  <2> QED BY <2>1, <2>2, <2>3, OtherNumbers, FrameSeq
<1>4. ASSUME NEW th \in Threads, SeqRead(th)
      PROVE  SeqOK'
  <2> DEFINE l == [loc[th] EXCEPT !.val = IF SEQ_ID = <<>> THEN 0
                                          ELSE SEQ_ID[Len(SEQ_ID)]]
  <2>1. OthersSame(th) /\ UNCHANGED <<SEQ_ID, wrapped>>
    BY <1>0, <1>4, ThreadStepOthers DEF SeqRead, ThreadStep, tables, history
  <2>2. l.val = Top
    BY <1>0, OneRow DEF ThreadsTyped, Locals
  <2>3. /\ NoNewNumber(th, pc'[th], loc'[th])
        /\ pc'[th] = "seq_write" => loc'[th].val = Top
    <3> HIDE DEF l
    <3>1. CASE Step(th, l, "seq_write")
      BY <1>0, <2>2, <3>1 DEF Step, ThreadsTyped, NoNewNumber, Carries, Place
    <3>2. CASE Failing(th)
      BY <1>0, <3>2, FailingNumber
    <3> QED BY <1>4, <3>1, <3>2 DEF SeqRead, Answer, l
  <2> QED BY <2>1, <2>3, OtherNumbers, FrameSeq
<1>5. ASSUME NEW th \in Threads, ThreadStep(th)
      PROVE  SeqOK'
  BY <1>0, <1>3, <1>4, <1>5, SeqWriteNumbers
<1> QED BY <1>1, <1>2, <1>5 DEF Next

LEMMA InitSeq == Init => SeqOK
<1> SUFFICES ASSUME Init PROVE SeqOK
  OBVIOUS
<1>1. \A th \in Threads : pc[th] = "idle" /\ ~Numbered(th)
  BY NoLocalsCarries DEF Init, Numbered
<1> QED BY <1>1 DEF Init, SeqOK

\* The table of the sequence number has one row at most, and no two threads
\* hold the same number before the numbers start again (NumbersAreUnique).
THEOREM UniqueNumbers == Spec => []NumbersAreUnique
<1>1. SeqOK => NumbersAreUnique
  <2>1. \A th \in Threads : HasNumber(th) => Numbered(th)
    BY DEF HasNumber, Numbered, Carries, Place
  <2> QED BY <2>1 DEF SeqOK, NumbersAreUnique
<1> QED
  BY <1>1, InitTyped, NextTyped, InitLocks, NextLocks, InitSeq, NextSeqOK, PTL
     DEF Spec

-----------------------------------------------------------------------------
(* Answers to challenges.                                                  *)

\* A place where a thread counts on nothing about challenges.
Quiet(p, l) == Place(p, l) \notin {"read_chal", "delete_chal",
                                   "insert_allowed", "cache_correct", "correct"}

LEMMA QuietAnswering ==
  ASSUME NEW rows, NEW t, NEW d, NEW p, NEW q, NEW l, Quiet(p, l),
         p # "idle" => q.t0 <= t
  PROVE  Answering(rows, t, d, p, q, l)
BY DEF Quiet, Answering, Place

LEMMA FailingAnswering ==
  ASSUME ThreadsTyped, NEW th \in Threads, Failing(th), NEW rows, NEW rows2,
         NEW t, NEW d, NEW d2,
         Answering(rows, t, d, pc[th], req[th], loc[th])
  PROVE  Answering(rows2, t, d2, pc'[th], req'[th], loc'[th])
<1>0. pc[th] # "idle" => req[th].t0 <= t
  BY DEF Answering
<1>1. CASE Done(th)
  <2>1. pc'[th] = "idle"
    BY <1>1 DEF Done, ThreadsTyped
  <2>2. Quiet("idle", loc'[th])
    BY DEF Quiet, Place
  <2> QED BY <2>1, <2>2, QuietAnswering
<1>2. CASE pc[th] = "cleanup_ids" /\ Step(th, loc[th], "exists_id")
  <2>1. /\ pc'[th] = "exists_id" /\ req'[th] = req[th]
    BY <1>2 DEF Step, ThreadsTyped
  <2>2. Quiet("exists_id", loc'[th])
    BY DEF Quiet, Place
  <2> QED BY <1>0, <1>2, <2>1, <2>2, QuietAnswering
<1>3. CASE pc[th] = "delete_chal" /\ Unlocking(th, loc[th], "insert_allowed")
  <2>1. /\ loc'[th].at = loc[th].at /\ pc'[th] = "unlock"
        /\ req'[th] = req[th]
    BY <1>3 DEF Unlocking, Step, ThreadsTyped, Locals
  <2> QED BY <1>0, <1>3, <2>1 DEF Answering, Place
<1>4. CASE pc[th] \in Statements /\ Unlocking(th, NoLocals, "idle")
  <2>1. /\ loc'[th].ret = "idle" /\ pc'[th] = "unlock" /\ req'[th] = req[th]
    BY <1>4 DEF Unlocking, Step, ThreadsTyped, NoLocals
  <2>2. Quiet("unlock", loc'[th]) /\ pc[th] # "idle"
    BY <1>4, <2>1 DEF Quiet, Place, Statements, Locking, Reading, Writing
  <2> QED BY <1>0, <2>1, <2>2, QuietAnswering
<1> QED BY <1>1, <1>2, <1>3, <1>4 DEF Failing

LEMMA AnswerAnswering ==
  ASSUME ThreadsTyped, NEW th \in Threads, NEW l, NEW next, NEW rows,
         NEW rows2, NEW t, NEW d, Answer(th, l, next),
         Answering(rows, t, d, pc[th], req[th], loc[th]),
         Answering(rows2, t, FALSE, next, req[th], l)
  PROVE  Answering(rows2, t, dead'[th], pc'[th], req'[th], loc'[th])
<1>1. CASE Step(th, l, next)
  <2>1. pc'[th] = next /\ req'[th] = req[th] /\ loc'[th] = l
    BY <1>1 DEF Step, ThreadsTyped
  <2> QED BY <2>1 DEF Answering
<1>2. CASE Failing(th)
  BY <1>2, FailingAnswering
<1> QED BY <1>1, <1>2 DEF Answer

\* The statements of validate_client and set_challenge_factor under the lock
\* of the challenges.
ChalPlaces == {"cleanup_chal", "insert_chal", "read_chal", "delete_chal"}

\* While a session is among them no other one is.
LEMMA ChalExclusive ==
  ASSUME LocksOK, NEW th \in Threads, NEW u \in Threads, th # u,
         pc[th] \in ChalPlaces, pc[u] \in ChalPlaces, ~dead[th]
  PROVE  dead[u]
<1>1. \A s \in ChalPlaces : s \in Locked /\ LockFor(s) = Lock("chal", "WRITE")
  BY DEF ChalPlaces, Locked, Reading, Writing, LockFor, Table
<1>2. /\ Lock("chal", "WRITE").mode = "WRITE" /\ Lock("chal", "WRITE") # NoLock
  BY DEF Lock, NoLock
<1> QED BY <1>1, <1>2 DEF LocksOK

\* No session but that of th is between the SELECT and the DELETE.
LEMMA OthersAnswering ==
  ASSUME AnswersOK, NEW th \in Threads, OthersSame(th), NEW rows2,
         rows2 = CHALLENGE_FACTORS \/ (LocksOK /\ pc[th] \in ChalPlaces
                                       /\ ~dead[th])
  PROVE  \A u \in Threads \ {th} :
           Answering(rows2, now, dead'[u], pc'[u], req'[u], loc'[u])
<1> SUFFICES ASSUME NEW u \in Threads \ {th}
             PROVE  Answering(rows2, now, dead[u], pc[u], req[u], loc[u])
  BY DEF OthersSame
<1>1. Answering(CHALLENGE_FACTORS, now, dead[u], pc[u], req[u], loc[u])
  BY DEF AnswersOK
<1>2. CASE rows2 = CHALLENGE_FACTORS
  BY <1>1, <1>2
<1>3. CASE LocksOK /\ pc[th] \in ChalPlaces /\ ~dead[th]
  <2>1. pc[u] \in {"read_chal", "delete_chal"} => dead[u]
    BY <1>3, ChalExclusive DEF ChalPlaces
  <2> QED BY <1>1, <2>1 DEF Answering
<1> QED BY <1>2, <1>3

\* The actions that only change th, to a place where it counts on nothing.
LEMMA QuietSteps ==
  ASSUME ThreadsTyped, AnswersOK, NEW th \in Threads,
         \/ LockTable(th) \/ Reply(th) \/ CacheLookup(th)
         \/ CleanupAllowed(th) \/ IsAllowed(th) \/ CacheAllowed(th)
         \/ CleanupIdToPorts(th) \/ InsertIdToPort(th)
         \/ (\E r \in Rand : ExistsId(th, r) \/ Exists(th, r))
         \/ SeqRead(th) \/ SeqWrite(th) \/ ReadPort(th) \/ DeleteId(th)
  PROVE  /\ Answering(CHALLENGE_FACTORS, now, dead'[th], pc'[th], req'[th],
                      loc'[th])
         /\ UNCHANGED <<now, CHALLENGE_FACTORS, redeemed, kept>>
<1> DEFINE A(d, p, q, l) == Answering(CHALLENGE_FACTORS, now, d, p, q, l)
<1>0. /\ A(dead[th], pc[th], req[th], loc[th]) /\ loc[th] \in Locals
      /\ pc[th] # "idle" => req[th].t0 <= now
  BY ThreadTyped DEF AnswersOK, Answering
<1>1. \A ret \in Returns : [loc[th] EXCEPT !.ret = ret].ret = ret /\
                           [NoLocals EXCEPT !.ret = ret].ret = ret
  BY <1>0 DEF Locals, NoLocals
<1>2. /\ "lock_allowed_r" \in Returns /\ "cache_allowed" \in Returns
      /\ "lock_seq" \in Returns /\ "issued" \in Returns /\ "idle" \in Returns
      /\ "lock_ids" \in Returns /\ "exists" \in Returns
  BY DEF Returns
<1>3. ASSUME pc[th] # "idle", NEW l, NEW next, Quiet(next, l),
             Answer(th, l, next)
      PROVE  A(dead'[th], pc'[th], req'[th], loc'[th])
  <2>1. A(FALSE, next, req[th], l)
    BY <1>0, <1>3, QuietAnswering
  <2> QED BY <1>0, <1>3, <2>1, AnswerAnswering
<1>4. ASSUME pc[th] # "idle", NEW l, NEW next, Quiet(next, l),
             Step(th, l, next) \/ Done(th)
      PROVE  A(dead'[th], pc'[th], req'[th], loc'[th])
  <2>1. Quiet("idle", NoLocals)
    BY DEF Quiet, Place
  <2>2. \/ pc'[th] = next /\ req'[th] = req[th] /\ loc'[th] = l
        \/ pc'[th] = "idle" /\ loc'[th] = NoLocals
    BY <1>4 DEF Step, Done, ThreadsTyped
  <2> QED BY <1>0, <1>4, <2>1, <2>2, QuietAnswering
<1> HIDE DEF A
<1> USE DEF Runs, AnswerUnlock
<1>5. CASE LockTable(th)
  <2>1. Quiet(AfterLock(th), loc[th]) /\ pc[th] # "idle"
    BY <1>5 DEF LockTable, AfterLock, Locking, Quiet, Place
  <2> QED BY <1>3, <1>5, <2>1 DEF LockTable, tables, history, A
<1>6. CASE Reply(th) \/ CacheLookup(th) \/ CacheAllowed(th)
  <2>1. Quiet("forward", loc[th]) /\ Quiet("lock_allowed", loc[th])
    BY DEF Quiet, Place
  <2> QED BY <1>4, <1>6, <2>1 DEF Reply, CacheLookup, CacheAllowed,
             CacheInsert, tables, history, A
<1>7. CASE CleanupAllowed(th) \/ IsAllowed(th) \/ InsertIdToPort(th)
           \/ DeleteId(th) \/ SeqWrite(th)
  <2>1. ASSUME NEW ret \in Returns \ {"insert_allowed"}
        PROVE  /\ Quiet("unlock", [loc[th] EXCEPT !.ret = ret])
               /\ Quiet("unlock", [NoLocals EXCEPT !.ret = ret])
    BY <1>1, <2>1 DEF Quiet, Place, Returns
  <2> QED BY <1>2, <1>3, <1>7, <2>1 DEF CleanupAllowed, IsAllowed,
             InsertIdToPort, DeleteId, SeqWrite, tables, history, A
<1>8. CASE \/ CleanupIdToPorts(th) \/ SeqRead(th)
           \/ \E r \in Rand : ExistsId(th, r) \/ Exists(th, r)
  <2>1. \A l : /\ Quiet("exists_id", l) /\ Quiet("seq_write", l)
               /\ Quiet("insert_id", l) /\ Quiet("lock_seq", l)
               /\ Quiet("lock_chal", l)
    BY DEF Quiet, Place
  <2>2. CASE CleanupIdToPorts(th) \/ SeqRead(th)
    BY <1>3, <2>1, <2>2 DEF CleanupIdToPorts, SeqRead, tables, history, A
  <2>3. ASSUME NEW r \in Rand, ExistsId(th, r) \/ Exists(th, r)
        PROVE  /\ A(dead'[th], pc'[th], req'[th], loc'[th])
               /\ UNCHANGED <<now, CHALLENGE_FACTORS, redeemed, kept>>
    BY <1>3, <2>1, <2>3 DEF ExistsId, Exists, tables, history
  <2> QED BY <1>8, <2>2, <2>3 DEF A
<1>9. CASE ReadPort(th)
  <2>1. \A l : Quiet("delete_id", l)
    BY DEF Quiet, Place
  <2>2. Quiet("unlock", [NoLocals EXCEPT !.ret = "idle"])
    BY <1>1, <1>2 DEF Quiet, Place
  <2>3. A(dead'[th], pc'[th], req'[th], loc'[th])
    BY <1>3, <1>9, <2>1, <2>2 DEF ReadPort
  <2> QED BY <1>9, <2>3 DEF ReadPort, tables, history, A
<1> QED BY <1>5, <1>6, <1>7, <1>8, <1>9

LEMMA FrameAnswers ==
  ASSUME AnswersOK, NEW th \in Threads, OthersSame(th), UNCHANGED now,
         UNCHANGED CHALLENGE_FACTORS \/ (LocksOK /\ pc[th] \in ChalPlaces
                                         /\ ~dead[th]),
         Answering(CHALLENGE_FACTORS', now, dead'[th], pc'[th], req'[th],
                   loc'[th]),
         \A r \in CHALLENGE_FACTORS' : r.id \in redeemed' => r.id \in kept'
  PROVE  AnswersOK'
<1>1. \A u \in Threads \ {th} : Answering(CHALLENGE_FACTORS', now, dead'[u],
                                          pc'[u], req'[u], loc'[u])
  BY OthersAnswering
<1> QED BY <1>1 DEF AnswersOK

LEMMA AnswerSteps ==
  ASSUME DataTyped, ThreadsTyped, LocksOK, AnswersOK, NEW th \in Threads,
         \/ UnlockTables(th) \/ Refuse(th) \/ CleanupChallenges(th)
         \/ InsertChallenge(th) \/ ReadChallenge(th) \/ DeleteChallenge(th)
         \/ InsertAllowed(th) \/ CacheCorrect(th)
  PROVE  AnswersOK'
<1>0. /\ Answering(CHALLENGE_FACTORS, now, dead[th], pc[th], req[th], loc[th])
      /\ loc[th] \in Locals /\ OthersSame(th)
      /\ pc[th] # "idle" => req[th].t0 <= now /\ req[th].t0 \in Times
      /\ \A r \in CHALLENGE_FACTORS : r.id \in redeemed => r.id \in kept
      /\ \A r \in CHALLENGE_FACTORS : r.at \in Times
  <2>1. OthersSame(th)
    BY ThreadStepOthers DEF ThreadStep
  <2>2. \A r \in CHALLENGE_FACTORS : r.at \in Times
    BY DEF DataTyped
  <2> QED BY <2>1, <2>2, ThreadTyped DEF AnswersOK, Answering
<1>1. CASE UnlockTables(th)
  <2>1. CASE Done(th)
    <3>1. pc'[th] = "idle" /\ Quiet("idle", loc'[th])
      BY <2>1 DEF Done, ThreadsTyped, Quiet, Place
    <3> QED BY <1>0, <1>1, <3>1, QuietAnswering, FrameAnswers
               DEF UnlockTables, tables, history
  <2>2. CASE Step(th, [loc[th] EXCEPT !.ret = "idle"], loc[th].ret)
    <3>1. /\ loc[th].ret \in Returns /\ loc'[th].at = loc[th].at
          /\ pc'[th] = loc[th].ret /\ req'[th] = req[th]
          /\ pc[th] = "unlock"
      BY <1>0, <1>1, <2>2 DEF Locals, Step, ThreadsTyped, UnlockTables
    <3>2. loc[th].ret \notin {"unlock", "read_chal", "delete_chal"}
      BY <3>1 DEF Returns
    <3>3. Answering(CHALLENGE_FACTORS, now, dead'[th], pc'[th], req'[th],
                    loc'[th])
      BY <1>0, <3>1, <3>2 DEF Answering, Place
    <3> QED BY <1>0, <1>1, <3>3, FrameAnswers DEF UnlockTables, tables, history
  <2> QED BY <1>1, <2>1, <2>2 DEF UnlockTables
<1>2. CASE Refuse(th)
  <2>1. Answering(CHALLENGE_FACTORS, now, dead'[th], pc'[th], req'[th],
                  loc'[th])
    BY <1>0, <1>2, FailingAnswering DEF Refuse
  <2> QED BY <1>0, <1>2, <2>1, FrameAnswers DEF Refuse, tables
<1>3. CASE CleanupChallenges(th)
  <2> DEFINE rows == Live(CHALLENGE_FACTORS, ChallengeTimeout)
             next == IF req[th].kind = "js" THEN "insert_chal" ELSE "read_chal"
  <2>1. /\ CHALLENGE_FACTORS' = rows /\ pc[th] = "cleanup_chal" /\ ~dead[th]
        /\ Answer(th, loc[th], next)
        /\ UNCHANGED <<now, redeemed, kept>>
    BY <1>3 DEF CleanupChallenges, Runs, history
  <2>2. \A r \in rows : req[th].t0 < r.at + ChallengeTimeout
    BY <1>0, <2>1, MsqlAssumption DEF Live, Times, DataTyped
  <2>3. rows \subseteq CHALLENGE_FACTORS
    BY DEF Live
  <2> HIDE DEF rows
  <2>4. Answering(rows, now, FALSE, next, req[th], loc[th])
    BY <1>0, <2>1, <2>2 DEF Answering, Place
  <2> HIDE DEF next
  <2>5. Answering(rows, now, dead'[th], pc'[th], req'[th], loc'[th])
    BY <1>0, <2>1, <2>4, AnswerAnswering
  <2>6. pc[th] \in ChalPlaces
    BY <2>1 DEF ChalPlaces
  <2> QED BY <1>0, <2>1, <2>3, <2>5, <2>6, FrameAnswers
<1>4. CASE InsertChallenge(th)
  <2>0. pc[th] = "insert_chal" /\ ~dead[th] /\ pc[th] \in ChalPlaces
        /\ UNCHANGED now
    BY <1>4 DEF InsertChallenge, Runs, ChalPlaces
  <2>1. [NoLocals EXCEPT !.ret = "issued"].ret = "issued"
        /\ [NoLocals EXCEPT !.ret = "idle"].ret = "idle"
    BY DEF NoLocals
  <2>2. CASE AnswerUnlock(th, NoLocals, "issued")
             /\ redeemed' = redeemed \ {loc[th].id}
             /\ kept' = kept \ {loc[th].id}
             /\ CHALLENGE_FACTORS' = CHALLENGE_FACTORS \cup
                  {[id |-> loc[th].id, ip |-> req[th].ip,
                    port |-> loc[th].port, at |-> now]}
    <3> DEFINE l == [NoLocals EXCEPT !.ret = "issued"]
    <3>1. Quiet("unlock", l)
      BY <2>1 DEF Quiet, Place
    <3> HIDE DEF l
    <3>2. Answering(CHALLENGE_FACTORS', now, FALSE, "unlock", req[th], l)
      BY <1>0, <2>0, <3>1, QuietAnswering
    <3>3. Answer(th, l, "unlock")
      BY <2>2 DEF AnswerUnlock, l
    <3>4. Answering(CHALLENGE_FACTORS', now, dead'[th], pc'[th], req'[th],
                    loc'[th])
      BY <1>0, <3>2, <3>3, AnswerAnswering
    <3>5. \A r \in CHALLENGE_FACTORS' : r.id \in redeemed' => r.id \in kept'
      BY <1>0, <2>2
    <3> QED BY <1>0, <2>0, <3>4, <3>5, FrameAnswers
  <2>3. CASE Unlocking(th, NoLocals, "idle")
             /\ UNCHANGED <<CHALLENGE_FACTORS, redeemed, kept>>
    <3>1. /\ pc'[th] = "unlock" /\ req'[th] = req[th]
          /\ loc'[th].ret = "idle"
      BY <2>1, <2>3 DEF Unlocking, Step, ThreadsTyped
    <3>2. Quiet("unlock", loc'[th])
      BY <3>1 DEF Quiet, Place
    <3>3. Answering(CHALLENGE_FACTORS, now, dead'[th], pc'[th], req'[th],
                    loc'[th])
      BY <1>0, <2>0, <3>1, <3>2, QuietAnswering
    <3> QED BY <1>0, <2>0, <2>3, <3>3, FrameAnswers
  <2> QED BY <1>4, <2>2, <2>3 DEF InsertChallenge
<1>5. CASE ReadChallenge(th)
  <2>0. pc[th] = "read_chal" /\ ~dead[th]
        /\ UNCHANGED <<now, CHALLENGE_FACTORS, redeemed, kept>>
    BY <1>5, Zenon DEF ReadChallenge, Runs, tables, history
  <2>1. ASSUME NEW r \in CHALLENGE_FACTORS, r.id = req[th].id,
               Answer(th, [loc[th] EXCEPT !.port = r.port, !.at = r.at],
                      "delete_chal")
        PROVE  AnswersOK'
    <3> DEFINE l == [loc[th] EXCEPT !.port = r.port, !.at = r.at]
    <3>1. l.at = r.at
      BY <1>0 DEF Locals
    <3>2. req[th].t0 < r.at + ChallengeTimeout
      BY <1>0, <2>0 DEF Answering
    <3> HIDE DEF l
    <3>3. Answering(CHALLENGE_FACTORS, now, FALSE, "delete_chal", req[th], l)
      BY <1>0, <2>0, <2>1, <3>1, <3>2 DEF Answering
    <3>4. Answering(CHALLENGE_FACTORS, now, dead'[th], pc'[th], req'[th],
                    loc'[th])
      BY <1>0, <2>1, <3>3, AnswerAnswering DEF l
    <3> QED BY <1>0, <2>0, <3>4, FrameAnswers
  <2>2. CASE AnswerUnlock(th, NoLocals, "idle")
    <3> DEFINE l == [NoLocals EXCEPT !.ret = "idle"]
    <3>1. Quiet("unlock", l)
      BY DEF Quiet, Place, NoLocals
    <3> HIDE DEF l
    <3>2. Answering(CHALLENGE_FACTORS, now, FALSE, "unlock", req[th], l)
      BY <1>0, <2>0, <3>1, QuietAnswering
    <3>3. Answering(CHALLENGE_FACTORS, now, dead'[th], pc'[th], req'[th],
                    loc'[th])
      BY <1>0, <2>2, <3>2, AnswerAnswering DEF l, AnswerUnlock
    <3> QED BY <1>0, <2>0, <3>3, FrameAnswers
  <2>3. CASE \E r \in CHALLENGE_FACTORS :
               /\ r.id = req[th].id /\ r.ip = req[th].ip
               /\ Answer(th, [loc[th] EXCEPT !.port = r.port, !.at = r.at],
                         "delete_chal")
    BY <2>1, <2>3, Zenon
  <2> QED BY <1>5, <2>2, <2>3, Zenon DEF ReadChallenge
<1>6. CASE DeleteChallenge(th)
  <2> DEFINE l == [loc[th] EXCEPT !.ret = "insert_allowed"]
  <2>0. /\ pc[th] = "delete_chal" /\ ~dead[th] /\ UNCHANGED <<now, kept>>
        /\ CHALLENGE_FACTORS' = {r \in CHALLENGE_FACTORS : r.id # req[th].id}
        /\ redeemed' = redeemed \cup {req[th].id}
        /\ Answer(th, l, "unlock")
    BY <1>6 DEF DeleteChallenge, Runs, AnswerUnlock
  <2>1. l.at = loc[th].at /\ l.ret = "insert_allowed"
    BY <1>0 DEF Locals
  <2> HIDE DEF l
  <2>2. Answering(CHALLENGE_FACTORS', now, FALSE, "unlock", req[th], l)
    BY <1>0, <2>0, <2>1 DEF Answering, Place
  <2>3. Answering(CHALLENGE_FACTORS', now, dead'[th], pc'[th], req'[th],
                  loc'[th])
    BY <1>0, <2>0, <2>2, AnswerAnswering
  <2>4. \A r \in CHALLENGE_FACTORS' : r.id \in redeemed' => r.id \in kept'
    BY <1>0, <2>0
  <2>5. pc[th] \in ChalPlaces
    BY <2>0 DEF ChalPlaces
  <2> QED BY <1>0, <2>0, <2>3, <2>4, <2>5, FrameAnswers
<1>7. CASE InsertAllowed(th)
  <2>1. Answering(CHALLENGE_FACTORS, now, FALSE, "cache_correct", req[th],
                  loc[th])
    BY <1>0, <1>7 DEF InsertAllowed, Runs, Answering, Place
  <2>2. Answering(CHALLENGE_FACTORS, now, dead'[th], pc'[th], req'[th],
                  loc'[th])
    BY <1>0, <1>7, <2>1, AnswerAnswering DEF InsertAllowed
  <2> QED BY <1>0, <1>7, <2>2, FrameAnswers DEF InsertAllowed
<1>8. CASE CacheCorrect(th)
  <2>1. /\ pc[th] = "cache_correct" /\ pc'[th] = "correct"
        /\ req'[th] = req[th] /\ loc'[th] = loc[th]
        /\ UNCHANGED <<now, CHALLENGE_FACTORS, redeemed, kept>>
    BY <1>8 DEF CacheCorrect, CacheInsert, Step, ThreadsTyped, tables, history
  <2>2. Answering(CHALLENGE_FACTORS, now, dead'[th], pc'[th], req'[th],
                  loc'[th])
    BY <1>0, <2>1 DEF Answering, Place
  <2> QED BY <1>0, <2>1, <2>2, FrameAnswers
<1> QED BY <1>1, <1>2, <1>3, <1>4, <1>5, <1>6, <1>7, <1>8

LEMMA NextAnswers ==
  ASSUME Typed, LocksOK, AnswersOK, [Next]_vars
  PROVE  AnswersOK'
<1>0. DataTyped /\ ThreadsTyped
  BY TypedParts
<1>1. CASE \/ UNCHANGED vars \/ Tick \/ ClearCache
           \/ \E th \in Threads : Break(th) \/ Drop(th) \/ Reconnect(th)
  <2>1. UNCHANGED <<CHALLENGE_FACTORS, redeemed, kept, pc, req, loc>>
    BY <1>1 DEF vars, Tick, ClearCache, Break, Drop, Reconnect, tables, thread,
                history
  <2>2. \A u \in Threads : ~dead'[u] => ~dead[u] \/ pc[u] = "idle"
    BY <1>0, <1>1 DEF vars, Tick, ClearCache, Break, Drop, Reconnect,
                      ThreadsTyped
  <2>3. now' \in Int /\ now \in Int /\ now <= now'
    BY <1>0, <1>1 DEF vars, Tick, ClearCache, Break, Drop, Reconnect,
                      DataTyped, Times
  <2>4. ASSUME NEW u \in Threads
        PROVE  Answering(CHALLENGE_FACTORS, now', dead'[u], pc[u], req[u],
                         loc[u])
    <3>1. pc[u] # "idle" => req[u].t0 \in Times
      BY <1>0, ThreadTyped
    <3>2. Answering(CHALLENGE_FACTORS, now, dead[u], pc[u], req[u], loc[u])
      BY DEF AnswersOK
    <3> QED BY <2>2, <2>3, <3>1, <3>2 DEF Answering, Times
  <2> QED BY <2>1, <2>4 DEF AnswersOK
<1>2. ASSUME NEW th \in Threads, NEW kind \in {"page", "js", "api"},
             NEW ip, NEW port, NEW id, Arrive(th, kind, ip, port, id)
      PROVE  AnswersOK'
  <2>1. /\ OthersSame(th) /\ UNCHANGED <<now, CHALLENGE_FACTORS, redeemed, kept>>
        /\ req'[th].t0 = now /\ pc'[th] = FirstStep(kind)
    BY <1>0, <1>2 DEF Arrive, OthersSame, ThreadsTyped, tables, history
  <2>2. Quiet(FirstStep(kind), loc'[th])
    BY DEF FirstStep, Quiet, Place
  <2>3. now <= now
    BY <1>0 DEF DataTyped, Times
  <2>4. Answering(CHALLENGE_FACTORS, now, dead'[th], pc'[th], req'[th],
                  loc'[th])
    BY <2>1, <2>2, <2>3, QuietAnswering
  <2> QED BY <2>1, <2>4, FrameAnswers DEF AnswersOK
<1>3. ASSUME NEW th \in Threads, ThreadStep(th)
      PROVE  AnswersOK'
  <2>1. CASE \/ LockTable(th) \/ Reply(th) \/ CacheLookup(th)
             \/ CleanupAllowed(th) \/ IsAllowed(th) \/ CacheAllowed(th)
             \/ CleanupIdToPorts(th) \/ InsertIdToPort(th)
             \/ (\E r \in Rand : ExistsId(th, r) \/ Exists(th, r))
             \/ SeqRead(th) \/ SeqWrite(th) \/ ReadPort(th) \/ DeleteId(th)
    <3>1. OthersSame(th)
      BY <1>0, <1>3, ThreadStepOthers
    <3> QED BY <1>0, <2>1, <3>1, QuietSteps, FrameAnswers DEF AnswersOK
  <2> QED BY <1>0, <1>3, <2>1, AnswerSteps DEF ThreadStep
<1> QED BY <1>1, <1>2, <1>3 DEF Next

LEMMA InitAnswers == Init => AnswersOK
BY DEF Init, AnswersOK, Answering, Place

\* What the answers rest on.
LEMMA AnswersInvariant == Spec => [](Typed /\ LocksOK /\ AnswersOK)
BY InitTyped, NextTyped, InitLocks, NextLocks, InitAnswers, NextAnswers, PTL
   DEF Spec

\* An answer that is accepted came in time (AnswerInTime).
THEOREM AnswersInTime == Spec => []AnswerInTime
<1>1. AnswersOK => AnswerInTime
  BY DEF AnswersOK, AnswerInTime, Answering, Place
<1> QED BY <1>1, AnswersInvariant, PTL

\* Of the answers to one challenge only one counts (RedeemOnce).
THEOREM RedeemedOnce == Spec => RedeemOnce
<1>1. ASSUME Typed, AnswersOK, [Next]_vars
      PROVE  [\A th \in Threads :
                pc[th] = "delete_chal" /\ pc'[th] = "unlock" /\ ~dead'[th] =>
                  req[th].id \notin redeemed \/ req[th].id \in kept]_vars
  <2> SUFFICES ASSUME NEW th \in Threads, pc[th] = "delete_chal", ~dead'[th]
               PROVE  req[th].id \notin redeemed \/ req[th].id \in kept
    OBVIOUS
  <2>0. ThreadsTyped
    BY <1>1, TypedParts
  <2>1. ~dead[th]
    <3>1. ASSUME NEW u \in Threads, ThreadStep(u)
          PROVE  dead'[u] \in {dead[u], TRUE}
      <4> USE <2>0 DEF ThreadsTyped, Answer, AnswerUnlock
      <4>1. CASE \/ LockTable(u) \/ UnlockTables(u) \/ Refuse(u) \/ Reply(u)
                 \/ CacheLookup(u) \/ CacheAllowed(u) \/ CacheCorrect(u)
        BY <4>1 DEF LockTable, UnlockTables, Refuse, Reply, CacheLookup,
                    CacheAllowed, CacheCorrect, CacheInsert
      <4>2. CASE \/ CleanupAllowed(u) \/ IsAllowed(u) \/ CleanupIdToPorts(u)
                 \/ InsertIdToPort(u) \/ \E r \in Rand : ExistsId(u, r)
        BY <4>2 DEF CleanupAllowed, IsAllowed, CleanupIdToPorts,
                    InsertIdToPort, ExistsId
      <4>3. CASE \/ SeqRead(u) \/ SeqWrite(u) \/ ReadPort(u) \/ DeleteId(u)
                 \/ \E r \in Rand : Exists(u, r)
        BY <4>3 DEF SeqRead, SeqWrite, ReadPort, DeleteId, Exists
      <4>4. CASE InsertChallenge(u) \/ ReadChallenge(u)
        <5>1. CASE \E l, next : Answer(u, l, next)
          BY <5>1
        <5>2. CASE UNCHANGED dead
          BY <5>2
        <5> QED BY <4>4, <5>1, <5>2, Zenon DEF InsertChallenge, ReadChallenge
      <4>5. CASE CleanupChallenges(u) \/ DeleteChallenge(u) \/ InsertAllowed(u)
        BY <4>5 DEF CleanupChallenges, DeleteChallenge, InsertAllowed
      <4> QED BY <3>1, <4>1, <4>2, <4>3, <4>4, <4>5 DEF ThreadStep
    <3>2. ASSUME NEW u \in Threads, ThreadStep(u)
          PROVE  ~dead[th]
      <4>1. CASE u = th
        BY <3>1, <3>2, <4>1
      <4>2. CASE u # th
        BY <2>0, <3>2, <4>2, ThreadStepOthers DEF OthersSame
      <4> QED BY <4>1, <4>2
    <3>3. CASE \/ UNCHANGED vars \/ Tick \/ ClearCache
               \/ \E u \in Threads : Break(u) \/ Drop(u) \/ Reconnect(u)
      BY <2>0, <3>3 DEF vars, Tick, ClearCache, Break, Drop, Reconnect,
                        ThreadsTyped
    <3>4. CASE \E u \in Threads, kind \in {"page", "js", "api"}, ip \in IPs,
                 port \in Ports, id \in Ids \cup {NoId} :
                 Arrive(u, kind, ip, port, id)
      BY <3>4 DEF Arrive
    <3> QED BY <1>1, <3>2, <3>3, <3>4 DEF Next
  <2>2. PICK r \in CHALLENGE_FACTORS : r.id = req[th].id
    BY <1>1, <2>1 DEF AnswersOK, Answering
  <2> QED BY <1>1, <2>2 DEF AnswersOK
<1> QED BY <1>1, AnswersInvariant, PTL DEF Spec, RedeemOnce

-----------------------------------------------------------------------------
(* Grants.                                                                 *)

\* A place where a thread counts on nothing about grants.
Bare(p, l) == Place(p, l) \notin {"lock_allowed_r", "is_allowed",
                                  "cache_allowed", "cache_correct",
                                  "delete_chal", "insert_allowed"}

LEMMA BareEntitled ==
  ASSUME NEW rows, NEW g, NEW ch, NEW p, NEW q, NEW l, Bare(p, l)
  PROVE  Entitled(rows, g, ch, p, q, l)
BY DEF Bare, Entitled

LEMMA FailingEntitled ==
  ASSUME ThreadsTyped, NEW th \in Threads, Failing(th), NEW rows, NEW g,
         NEW ch, NEW rows2, NEW g2, NEW ch2, ch \subseteq ch2,
         Entitled(rows, g, ch, pc[th], req[th], loc[th])
  PROVE  Entitled(rows2, g2, ch2, pc'[th], req'[th], loc'[th])
<1>1. CASE Done(th)
  <2>1. pc'[th] = "idle"
    BY <1>1 DEF Done, ThreadsTyped
  <2> QED BY <2>1, BareEntitled DEF Bare, Place
<1>2. CASE Step(th, loc[th], "exists_id")
  <2>1. pc'[th] = "exists_id"
    BY <1>2 DEF Step, ThreadsTyped
  <2> QED BY <2>1, BareEntitled DEF Bare, Place
<1>3. CASE pc[th] = "delete_chal" /\ Unlocking(th, loc[th], "insert_allowed")
  <2>1. /\ loc'[th].port = loc[th].port /\ pc'[th] = "unlock"
        /\ loc'[th].ret = "insert_allowed" /\ req'[th] = req[th]
    BY <1>3 DEF Unlocking, Step, ThreadsTyped, Locals
  <2> QED BY <1>3, <2>1 DEF Entitled, Place
<1>4. CASE Unlocking(th, NoLocals, "idle")
  <2>1. loc'[th].ret = "idle" /\ pc'[th] = "unlock"
    BY <1>4 DEF Unlocking, Step, ThreadsTyped, NoLocals
  <2> QED BY <2>1, BareEntitled DEF Bare, Place
<1> QED BY <1>1, <1>2, <1>3, <1>4 DEF Failing

LEMMA AnswerEntitled ==
  ASSUME ThreadsTyped, NEW th \in Threads, NEW l, NEW next, NEW rows, NEW g,
         NEW ch, NEW rows2, NEW g2, NEW ch2, ch \subseteq ch2,
         Answer(th, l, next),
         Entitled(rows, g, ch, pc[th], req[th], loc[th]),
         Entitled(rows2, g2, ch2, next, req[th], l)
  PROVE  Entitled(rows2, g2, ch2, pc'[th], req'[th], loc'[th])
<1>1. CASE Step(th, l, next)
  <2>1. pc'[th] = next /\ req'[th] = req[th] /\ loc'[th] = l
    BY <1>1 DEF Step, ThreadsTyped
  <2> QED BY <2>1
<1>2. CASE Failing(th)
  BY <1>2, FailingEntitled
<1> QED BY <1>1, <1>2 DEF Answer

\* A step that takes nothing away that a thread counts on.
Mild ==
  /\ now' = now
  /\ challenged \subseteq challenged'
  /\ \A r \in ALLOWED_IPS' : r \in ALLOWED_IPS \/ r.at = now
  /\ \A k \in Clients :
       granted[k] # Never => granted'[k] # Never /\ granted[k] <= granted'[k]

LEMMA CoveredGrows ==
  ASSUME DataTyped, DataTyped', Mild, NEW ip \in IPs, NEW t \in Times,
         CoveredBy(granted, ip, t)
  PROVE  CoveredBy(granted', ip, t)
<1>1. PICK port \in Ports : /\ granted[<<ip, port>>] # Never
                            /\ t <= granted[<<ip, port>>] + AllowedTimeout
  BY DEF CoveredBy
<1> DEFINE k == <<ip, port>>
<1>2. k \in Clients
  BY DEF Clients
<1>3. granted'[k] # Never /\ granted[k] <= granted'[k]
  BY <1>1, <1>2 DEF Mild
<1>4. granted[k] \in Int /\ granted'[k] \in Int
  BY <1>2, MsqlAssumption DEF DataTyped, Times, Never
<1>5. t <= granted'[k] + AllowedTimeout
  BY <1>1, <1>3, <1>4, MsqlAssumption DEF Times
<1> QED BY <1>3, <1>5 DEF CoveredBy

LEMMA MildEntitled ==
  ASSUME DataTyped, DataTyped', Mild, NEW p, NEW q, NEW l,
         p # "idle" => q \in Requests /\ q.t0 <= now,
         Entitled(ALLOWED_IPS, granted, challenged, p, q, l)
  PROVE  Entitled(ALLOWED_IPS', granted', challenged', p, q, l)
<1>0. p # "idle" => q.ip \in IPs /\ q.t0 \in Times
  BY DEF Requests
<1>1. Place(p, l) \in {"lock_allowed_r", "is_allowed"} =>
        \A r \in ALLOWED_IPS' : q.t0 <= r.at + AllowedTimeout
  <2> SUFFICES ASSUME Place(p, l) \in {"lock_allowed_r", "is_allowed"},
                      NEW r \in ALLOWED_IPS'
               PROVE  q.t0 <= r.at + AllowedTimeout
    OBVIOUS
  <2>1. CASE r \in ALLOWED_IPS
    BY <2>1 DEF Entitled
  <2>2. CASE r.at = now
    <3>1. p # "idle"
      BY DEF Place
    <3> QED BY <1>0, <2>2, <3>1, MsqlAssumption DEF DataTyped, Times
  <2> QED BY <2>1, <2>2 DEF Mild
<1>2. Place(p, l) \in {"cache_allowed", "cache_correct"} =>
        CoveredBy(granted', q.ip, q.t0)
  BY <1>0, CoveredGrows DEF Entitled, Place
<1>3. Place(p, l) \in {"delete_chal", "insert_allowed"} =>
        <<q.ip, l.port>> \in challenged'
  BY DEF Entitled, Mild
<1> QED BY <1>1, <1>2, <1>3 DEF Entitled

LEMMA Waiting ==
  ASSUME ThreadsTyped, AnswersOK, NEW u \in Threads
  PROVE  pc[u] # "idle" => req[u] \in Requests /\ req[u].t0 <= now
BY ThreadTyped DEF AnswersOK, Answering

LEMMA FrameGrants ==
  ASSUME DataTyped, DataTyped', ThreadsTyped, AnswersOK, GrantsOK, Mild,
         SharedOK', NEW th \in Threads, OthersSame(th),
         Entitled(ALLOWED_IPS', granted', challenged', pc'[th], req'[th],
                  loc'[th])
  PROVE  GrantsOK'
<1>1. ASSUME NEW u \in Threads \ {th}
      PROVE  Entitled(ALLOWED_IPS', granted', challenged', pc'[u], req'[u],
                      loc'[u])
  <2>1. Entitled(ALLOWED_IPS, granted, challenged, pc[u], req[u], loc[u])
    BY DEF GrantsOK
  <2>2. Entitled(ALLOWED_IPS', granted', challenged', pc[u], req[u], loc[u])
    BY <2>1, Waiting, MildEntitled
  <2> QED BY <2>2 DEF OthersSame
<1> QED BY <1>1 DEF GrantsOK

\* What keeps SharedOK, whatever happens to the requests.
LEMMA SharedKeep ==
  ASSUME DataTyped, SharedOK, UNCHANGED <<now, granted>>,
         challenged \subseteq challenged',
         ALLOWED_IPS' \subseteq ALLOWED_IPS,
         \A r \in CHALLENGE_FACTORS' :
            r \in CHALLENGE_FACTORS \/ <<r.ip, r.port>> \in challenged',
         \A k \in Clients : \/ cached_allowed'[k] \in {cached_allowed[k], Never}
                            \/ CoveredBy(granted, k[1], cached_allowed'[k])
  PROVE  SharedOK' /\ Mild
<1>1. Mild
  BY MsqlAssumption DEF Mild, DataTyped, Times, Never
<1> QED BY <1>1 DEF SharedOK

\* What the steps below have in common.
LEMMA ThreadFacts ==
  ASSUME DataTyped, ThreadsTyped, AnswersOK, GrantsOK, NEW th \in Threads
  PROVE  /\ Entitled(ALLOWED_IPS, granted, challenged, pc[th], req[th],
                     loc[th])
         /\ loc[th] \in Locals
         /\ pc[th] # "idle" => /\ req[th].ip \in IPs /\ req[th].t0 \in Times
                               /\ req[th].t0 <= now /\ Client(th) \in Clients
         /\ \A ret \in Returns :
              /\ [loc[th] EXCEPT !.ret = ret].ret = ret
              /\ [loc[th] EXCEPT !.ret = ret].port = loc[th].port
              /\ [NoLocals EXCEPT !.ret = ret].ret = ret
<1>1. loc[th] \in Locals
  BY ThreadTyped
<1>2. \A ret \in Returns :
        /\ [loc[th] EXCEPT !.ret = ret].ret = ret
        /\ [loc[th] EXCEPT !.ret = ret].port = loc[th].port
        /\ [NoLocals EXCEPT !.ret = ret].ret = ret
  BY <1>1 DEF Locals, NoLocals
<1> QED BY <1>1, <1>2, ThreadTyped, Waiting DEF GrantsOK

\* The steps that leave the grants, the cache and ALLOWED_IPS alone.
LEMMA EntitledSteps ==
  ASSUME DataTyped, ThreadsTyped, AnswersOK, GrantsOK, NEW th \in Threads,
         \/ LockTable(th) \/ UnlockTables(th) \/ Refuse(th) \/ Reply(th)
         \/ IsAllowed(th) \/ CleanupIdToPorts(th) \/ InsertIdToPort(th)
         \/ (\E r \in Rand : ExistsId(th, r) \/ Exists(th, r))
         \/ SeqRead(th) \/ SeqWrite(th) \/ ReadPort(th) \/ DeleteId(th)
         \/ CleanupChallenges(th) \/ ReadChallenge(th) \/ DeleteChallenge(th)
  PROVE  /\ Entitled(ALLOWED_IPS, granted, challenged, pc'[th], req'[th],
                     loc'[th])
         /\ UNCHANGED <<now, ALLOWED_IPS, granted, challenged, cached_allowed>>
         /\ CHALLENGE_FACTORS' \subseteq CHALLENGE_FACTORS
<1> DEFINE E(p, q, l) == Entitled(ALLOWED_IPS, granted, challenged, p, q, l)
           Goal == /\ E(pc'[th], req'[th], loc'[th])
                   /\ UNCHANGED <<now, ALLOWED_IPS, granted, challenged,
                                  cached_allowed>>
                   /\ CHALLENGE_FACTORS' \subseteq CHALLENGE_FACTORS
<1> SUFFICES Goal
  OBVIOUS
<1>0. /\ E(pc[th], req[th], loc[th]) /\ loc[th] \in Locals
      /\ pc[th] # "idle" => /\ req[th].ip \in IPs /\ req[th].t0 \in Times
                            /\ Client(th) \in Clients
      /\ \A ret \in Returns :
           /\ [loc[th] EXCEPT !.ret = ret].ret = ret
           /\ [loc[th] EXCEPT !.ret = ret].port = loc[th].port
           /\ [NoLocals EXCEPT !.ret = ret].ret = ret
  BY ThreadFacts
<1>1. /\ "lock_seq" \in Returns /\ "issued" \in Returns /\ "idle" \in Returns
      /\ "lock_ids" \in Returns /\ "exists" \in Returns
      /\ "cache_allowed" \in Returns /\ "insert_allowed" \in Returns
  BY DEF Returns
<1>2. ASSUME NEW l, NEW next, E(next, req[th], l), Answer(th, l, next)
      PROVE  E(pc'[th], req'[th], loc'[th])
  BY <1>0, <1>2, AnswerEntitled
<1>3. ASSUME NEW l, NEW next, Bare(next, l), Answer(th, l, next)
      PROVE  E(pc'[th], req'[th], loc'[th])
  <2>1. E(next, req[th], l)
    BY <1>3, BareEntitled
  <2> QED BY <1>2, <1>3, <2>1
<1>4. CASE LockTable(th)
  <2>1. E(AfterLock(th), req[th], loc[th])
    <3>1. CASE pc[th] = "lock_allowed_r"
      BY <1>0, <3>1 DEF Entitled, AfterLock, Place
    <3>2. CASE pc[th] # "lock_allowed_r"
      BY <1>4, <3>2, BareEntitled DEF LockTable, Locking, AfterLock, Bare, Place
    <3> QED BY <3>1, <3>2
  <2> HIDE DEF E
  <2> QED BY <1>2, <1>4, <2>1 DEF LockTable, tables, history
<1>5. CASE UnlockTables(th)
  <2>1. CASE Done(th)
    <3>1. pc'[th] = "idle"
      BY <2>1 DEF Done, ThreadsTyped
    <3>2. E(pc'[th], req'[th], loc'[th])
      BY <3>1, BareEntitled DEF Bare, Place
    <3> HIDE DEF E
    <3> QED BY <1>5, <3>2 DEF UnlockTables, tables, history
  <2>2. CASE Step(th, [loc[th] EXCEPT !.ret = "idle"], loc[th].ret)
    <3>1. /\ loc[th].ret \in Returns /\ loc'[th].port = loc[th].port
          /\ pc'[th] = loc[th].ret /\ req'[th] = req[th]
          /\ pc[th] = "unlock"
      BY <1>0, <1>5, <2>2 DEF Locals, Step, ThreadsTyped, UnlockTables
    <3>2. loc[th].ret # "unlock"
      BY <3>1 DEF Returns
    <3>3. E(pc'[th], req'[th], loc'[th])
      BY <1>0, <3>1, <3>2 DEF Entitled, Place
    <3> HIDE DEF E
    <3> QED BY <1>5, <3>3 DEF UnlockTables, tables, history
  <2> QED BY <1>5, <2>1, <2>2 DEF UnlockTables
<1>6. CASE Refuse(th)
  <2>1. E(pc'[th], req'[th], loc'[th])
    BY <1>0, <1>6, FailingEntitled DEF Refuse
  <2> HIDE DEF E
  <2> QED BY <1>6, <2>1 DEF Refuse, tables
<1>7. CASE Reply(th)
  <2>1. pc'[th] = "idle"
    BY <1>7 DEF Reply, Done, ThreadsTyped
  <2>2. E(pc'[th], req'[th], loc'[th])
    BY <2>1, BareEntitled DEF Bare, Place
  <2> HIDE DEF E
  <2> QED BY <1>7, <2>2 DEF Reply, tables, history
<1>8. CASE IsAllowed(th)
  <2> DEFINE found == \E r \in ALLOWED_IPS : <<r.ip, r.port>> = Client(th)
             l(ret) == [loc[th] EXCEPT !.ret = ret]
  <2>0. pc[th] = "is_allowed"
    BY <1>8 DEF IsAllowed, Runs
  <2>1. CASE found
    <3>1. PICK r \in ALLOWED_IPS : <<r.ip, r.port>> = <<req[th].ip, req[th].port>>
      BY <2>1 DEF Client
    <3>2. /\ r.ip = req[th].ip /\ r.port \in Ports /\ r.at \in Times
          /\ <<r.ip, r.port>> \in Clients
      BY <3>1 DEF DataTyped, Clients
    <3>3. /\ granted[<<r.ip, r.port>>] # Never
          /\ r.at <= granted[<<r.ip, r.port>>]
          /\ granted[<<r.ip, r.port>>] \in Times \cup {Never}
      BY <3>2 DEF GrantsOK, SharedOK, DataTyped
    <3>4. req[th].t0 <= r.at + AllowedTimeout
      BY <1>0, <2>0 DEF Entitled, Place
    <3>5. req[th].t0 <= granted[<<r.ip, r.port>>] + AllowedTimeout
      BY <1>0, <2>0, <3>2, <3>3, <3>4, MsqlAssumption DEF Times, Never
    <3>6. CoveredBy(granted, req[th].ip, req[th].t0)
      BY <3>2, <3>3, <3>5 DEF CoveredBy
    <3>7. l("cache_allowed").ret = "cache_allowed"
      BY <1>0, <1>1
    <3>8. E("unlock", req[th], l("cache_allowed"))
      BY <3>6, <3>7 DEF Entitled, Place
    <3>9. Answer(th, l("cache_allowed"), "unlock")
      BY <1>8, <2>1 DEF IsAllowed, AnswerUnlock
    <3> HIDE DEF E, l
    <3> QED BY <1>2, <1>8, <3>8, <3>9 DEF IsAllowed, tables, history
  <2>2. CASE ~found
    <3>1. l("lock_seq").ret = "lock_seq"
      BY <1>0, <1>1
    <3>2. Bare("unlock", l("lock_seq"))
      BY <3>1 DEF Bare, Place
    <3>3. Answer(th, l("lock_seq"), "unlock")
      BY <1>8, <2>2 DEF IsAllowed, AnswerUnlock
    <3> HIDE DEF E, l
    <3> QED BY <1>3, <1>8, <3>2, <3>3 DEF IsAllowed, tables, history
  <2> QED BY <2>1, <2>2
<1>9. CASE InsertIdToPort(th) \/ DeleteId(th) \/ SeqWrite(th)
  <2>1. /\ Bare("unlock", [NoLocals EXCEPT !.ret = "issued"])
        /\ \A ret \in {"lock_seq", "lock_ids", "exists"} :
             Bare("unlock", [loc[th] EXCEPT !.ret = ret])
    BY <1>0, <1>1 DEF Bare, Place
  <2> HIDE DEF E
  <2>2. E(pc'[th], req'[th], loc'[th])
    BY <1>3, <1>9, <2>1 DEF InsertIdToPort, DeleteId, SeqWrite, AnswerUnlock
  <2> QED BY <1>9, <2>2 DEF InsertIdToPort, DeleteId, SeqWrite, history
<1>10. CASE \/ CleanupIdToPorts(th) \/ SeqRead(th) \/ CleanupChallenges(th)
            \/ \E r \in Rand : ExistsId(th, r) \/ Exists(th, r)
  <2>1. \A l : /\ Bare("exists_id", l) /\ Bare("seq_write", l)
               /\ Bare("insert_id", l) /\ Bare("lock_seq", l)
               /\ Bare("lock_chal", l) /\ Bare("insert_chal", l)
               /\ Bare("read_chal", l)
    BY DEF Bare, Place
  <2> HIDE DEF E
  <2>2. CASE CleanupIdToPorts(th) \/ SeqRead(th)
    BY <1>3, <2>1, <2>2 DEF CleanupIdToPorts, SeqRead, tables, history
  <2>3. CASE CleanupChallenges(th)
    BY <1>3, <2>1, <2>3 DEF CleanupChallenges, Live, history
  <2>4. ASSUME NEW r \in Rand, ExistsId(th, r) \/ Exists(th, r)
        PROVE  Goal
    BY <1>3, <2>1, <2>4 DEF ExistsId, Exists, tables, history
  <2> QED BY <1>10, <2>2, <2>3, <2>4
<1>11. CASE ReadPort(th)
  <2>1. \A l : Bare("delete_id", l)
    BY DEF Bare, Place
  <2>2. Bare("unlock", [NoLocals EXCEPT !.ret = "idle"])
    BY <1>0, <1>1 DEF Bare, Place
  <2> HIDE DEF E
  <2>3. E(pc'[th], req'[th], loc'[th])
    BY <1>3, <1>11, <2>1, <2>2 DEF ReadPort, AnswerUnlock
  <2> QED BY <1>11, <2>3 DEF ReadPort, tables, history
<1>12. CASE ReadChallenge(th)
  <2>0. UNCHANGED <<now, ALLOWED_IPS, granted, challenged, cached_allowed,
                    CHALLENGE_FACTORS>>
    BY <1>12, Zenon DEF ReadChallenge, tables, history
  <2>1. ASSUME NEW r \in CHALLENGE_FACTORS, r.ip = req[th].ip,
               Answer(th, [loc[th] EXCEPT !.port = r.port, !.at = r.at],
                      "delete_chal")
        PROVE  E(pc'[th], req'[th], loc'[th])
    <3> DEFINE l == [loc[th] EXCEPT !.port = r.port, !.at = r.at]
    <3>1. l.port = r.port
      BY <1>0 DEF Locals
    <3>2. <<r.ip, r.port>> \in challenged
      BY DEF GrantsOK, SharedOK
    <3> HIDE DEF l
    <3>3. E("delete_chal", req[th], l)
      BY <2>1, <3>1, <3>2 DEF Entitled, Place
    <3>4. Answer(th, l, "delete_chal")
      BY <2>1 DEF l
    <3> HIDE DEF E
    <3> QED BY <1>2, <3>3, <3>4
  <2>2. CASE AnswerUnlock(th, NoLocals, "idle")
    <3> DEFINE l == [NoLocals EXCEPT !.ret = "idle"]
    <3>1. Bare("unlock", l)
      BY <1>0, <1>1 DEF Bare, Place
    <3>2. Answer(th, l, "unlock")
      BY <2>2 DEF AnswerUnlock
    <3> HIDE DEF E, l
    <3> QED BY <1>3, <2>0, <3>1, <3>2
  <2> HIDE DEF E
  <2>3. ASSUME NEW r \in CHALLENGE_FACTORS,
               /\ r.id = req[th].id /\ r.ip = req[th].ip
               /\ Answer(th, [loc[th] EXCEPT !.port = r.port, !.at = r.at],
                         "delete_chal")
        PROVE  E(pc'[th], req'[th], loc'[th])
    <3>1. r.ip = req[th].ip
      BY <2>3, Zenon
    <3> QED BY <2>1, <2>3, <3>1, Zenon
  <2>4. E(pc'[th], req'[th], loc'[th])
    BY <1>12, <2>2, <2>3, Zenon DEF ReadChallenge
  <2> QED BY <2>0, <2>4
<1>13. CASE DeleteChallenge(th)
  <2> DEFINE l == [loc[th] EXCEPT !.ret = "insert_allowed"]
  <2>1. l.port = loc[th].port /\ l.ret = "insert_allowed"
    BY <1>0, <1>1
  <2>2. pc[th] = "delete_chal" /\ Answer(th, l, "unlock")
    BY <1>13 DEF DeleteChallenge, Runs, AnswerUnlock
  <2> HIDE DEF l
  <2>3. E("unlock", req[th], l)
    BY <1>0, <2>1, <2>2 DEF Entitled, Place
  <2> HIDE DEF E
  <2> QED BY <1>2, <1>13, <2>2, <2>3 DEF DeleteChallenge
<1> HIDE DEF Goal
<1> QED BY <1>4, <1>5, <1>6, <1>7, <1>8, <1>9, <1>10, <1>11, <1>12, <1>13

\* The steps that change the cache, the grants or ALLOWED_IPS.
LEMMA CacheGrants ==
  ASSUME DataTyped, DataTyped', ThreadsTyped, AnswersOK, GrantsOK,
         NEW th \in Threads,
         CacheLookup(th) \/ CacheAllowed(th) \/ CacheCorrect(th)
  PROVE  GrantsOK'
<1>0. /\ Client(th) \in Clients /\ Client(th)[1] = req[th].ip
      /\ OthersSame(th)
      /\ UNCHANGED <<now, ALLOWED_IPS, granted, challenged, CHALLENGE_FACTORS>>
  <2>1. OthersSame(th)
    BY ThreadStepOthers DEF ThreadStep
  <2>2. pc[th] # "idle"
    BY DEF CacheLookup, CacheAllowed, CacheCorrect
  <2> QED BY <2>1, <2>2, ThreadFacts DEF Client, CacheLookup, CacheAllowed,
             CacheCorrect, CacheInsert, tables, history
<1>1. cached_allowed \in [Clients -> Times \cup {Never}]
  BY DEF DataTyped
<1>2. \A k \in Clients : \/ cached_allowed'[k] \in {cached_allowed[k], Never}
                         \/ CoveredBy(granted, k[1], cached_allowed'[k])
  <2>1. CASE CacheLookup(th)
    <3>1. \A k \in Clients : cached_allowed'[k] \in {cached_allowed[k], Never}
      BY <1>0, <1>1, <2>1 DEF CacheLookup
    <3> QED BY <3>1
  <2>2. CASE CacheAllowed(th) \/ CacheCorrect(th)
    <3>1. CoveredBy(granted, req[th].ip, req[th].t0)
      BY <2>2, ThreadFacts DEF CacheAllowed, CacheCorrect, Entitled, Place
    <3>2. \A k \in Clients : \/ cached_allowed'[k] = cached_allowed[k]
                             \/ k = Client(th) /\ cached_allowed'[k] = req[th].t0
      BY <1>0, <1>1, <2>2 DEF CacheAllowed, CacheCorrect, CacheInsert
    <3> QED BY <1>0, <3>1, <3>2
  <2> QED BY <2>1, <2>2
<1>3. SharedOK' /\ Mild
  BY <1>0, <1>2, SharedKeep DEF GrantsOK
<1>4. pc'[th] \in {"forward", "lock_allowed", "correct"}
  BY DEF CacheLookup, CacheAllowed, CacheCorrect, CacheInsert, Step,
         ThreadsTyped
<1>5. Bare(pc'[th], loc'[th])
  BY <1>4 DEF Bare, Place
<1> QED BY <1>0, <1>3, <1>5, BareEntitled, FrameGrants

LEMMA CleanupGrants ==
  ASSUME DataTyped, DataTyped', ThreadsTyped, AnswersOK, GrantsOK,
         NEW th \in Threads, CleanupAllowed(th)
  PROVE  GrantsOK'
<1> DEFINE rows == Live(ALLOWED_IPS, AllowedTimeout)
           l == [loc[th] EXCEPT !.ret = "lock_allowed_r"]
<1>0. /\ ALLOWED_IPS' = rows /\ pc[th] = "cleanup_allowed"
      /\ Answer(th, l, "unlock")
      /\ UNCHANGED <<now, granted, challenged, CHALLENGE_FACTORS,
                     cached_allowed>>
  BY DEF CleanupAllowed, Runs, AnswerUnlock, history
<1>1. OthersSame(th)
  BY ThreadStepOthers DEF ThreadStep
<1>2. rows \subseteq ALLOWED_IPS
  BY DEF Live
<1>3. \A r \in rows : req[th].t0 <= r.at + AllowedTimeout
  <2>1. req[th].t0 \in Times /\ req[th].t0 <= now
    BY <1>0, ThreadFacts
  <2>2. \A r \in rows : r.at \in Times /\ now - r.at < AllowedTimeout
    BY DEF Live, DataTyped
  <2>3. now \in Times
    BY DEF DataTyped
  <2> HIDE DEF rows
  <2> QED BY <2>1, <2>2, <2>3, MsqlAssumption DEF Times
<1>4. l.ret = "lock_allowed_r"
  BY ThreadFacts DEF Returns
<1> HIDE DEF l, rows
<1>5. Entitled(rows, granted, challenged, "unlock", req[th], l)
  BY <1>3, <1>4 DEF Entitled, Place
<1>6. Entitled(rows, granted, challenged, pc'[th], req'[th], loc'[th])
  BY <1>0, <1>5, ThreadFacts, AnswerEntitled
<1>7. SharedOK' /\ Mild
  BY <1>0, <1>2, SharedKeep DEF GrantsOK
<1> QED BY <1>0, <1>1, <1>6, <1>7, FrameGrants

LEMMA InsertChallengeGrants ==
  ASSUME DataTyped, DataTyped', ThreadsTyped, AnswersOK, GrantsOK,
         NEW th \in Threads, InsertChallenge(th)
  PROVE  GrantsOK'
<1>0. /\ UNCHANGED <<now, granted, ALLOWED_IPS, cached_allowed>>
      /\ challenged \subseteq challenged'
      /\ \A r \in CHALLENGE_FACTORS' :
            r \in CHALLENGE_FACTORS \/ <<r.ip, r.port>> \in challenged'
  BY DEF InsertChallenge
<1>1. OthersSame(th)
  BY ThreadStepOthers DEF ThreadStep
<1>2. SharedOK' /\ Mild
  BY <1>0, SharedKeep DEF GrantsOK
<1>3. \A ret \in {"issued", "idle"} :
        [NoLocals EXCEPT !.ret = ret].ret = ret
  BY DEF NoLocals
<1>4. ASSUME NEW ret \in {"issued", "idle"}
      PROVE  Bare("unlock", [NoLocals EXCEPT !.ret = ret])
  BY <1>3 DEF Bare, Place
<1>5. Entitled(ALLOWED_IPS', granted', challenged', pc'[th], req'[th],
               loc'[th])
  <2> DEFINE l(ret) == [NoLocals EXCEPT !.ret = ret]
  <2>1. CASE Answer(th, l("issued"), "unlock")
    <3>1. Bare("unlock", l("issued"))
      BY <1>4
    <3> HIDE DEF l
    <3>2. Entitled(ALLOWED_IPS', granted', challenged', "unlock", req[th],
                   l("issued"))
      BY <3>1, BareEntitled
    <3> QED BY <1>0, <2>1, <3>2, ThreadFacts, AnswerEntitled
  <2>2. CASE Step(th, l("idle"), "unlock")
    <3>1. Bare("unlock", l("idle"))
      BY <1>4
    <3> HIDE DEF l
    <3>2. pc'[th] = "unlock" /\ loc'[th] = l("idle")
      BY <2>2 DEF Step, ThreadsTyped
    <3> QED BY <3>1, <3>2, BareEntitled
  <2> QED BY <2>1, <2>2 DEF InsertChallenge, AnswerUnlock, Unlocking
<1> QED BY <1>0, <1>1, <1>2, <1>5, FrameGrants

LEMMA InsertAllowedGrants ==
  ASSUME DataTyped, DataTyped', ThreadsTyped, AnswersOK, GrantsOK,
         NEW th \in Threads, InsertAllowed(th)
  PROVE  GrantsOK'
<1> DEFINE ip == req[th].ip
           port == loc[th].port
           row == [ip |-> ip, port |-> port, at |-> now]
<1>0. /\ pc[th] = "insert_allowed" /\ ~dead[th]
      /\ ALLOWED_IPS' = ALLOWED_IPS \cup {row}
      /\ granted' = [granted EXCEPT ![<<ip, port>>] = now]
      /\ Answer(th, loc[th], "cache_correct")
      /\ UNCHANGED <<now, challenged, CHALLENGE_FACTORS, cached_allowed>>
  BY DEF InsertAllowed, Runs
<1>1. OthersSame(th)
  BY ThreadStepOthers DEF ThreadStep
<1>2. /\ ip \in IPs /\ port \in Ports /\ req[th].t0 \in Times
      /\ req[th].t0 <= now
      /\ Entitled(ALLOWED_IPS, granted, challenged, pc[th], req[th], loc[th])
  <2>1. port \in Ports
    BY <1>0, ThreadTyped DEF Knows, Place
  <2> QED BY <1>0, <2>1, ThreadFacts
<1>3. /\ <<ip, port>> \in Clients /\ now \in Times /\ now \in Int
      /\ now # Never
      /\ granted \in [Clients -> Times \cup {Never}]
  BY <1>2, MsqlAssumption DEF Clients, DataTyped, Times, Never
<1>4. /\ granted'[<<ip, port>>] = now
      /\ \A k \in Clients : k # <<ip, port>> => granted'[k] = granted[k]
  BY <1>0, <1>3
<1>5. row.ip = ip /\ row.port = port /\ row.at = now
  OBVIOUS
<1> HIDE DEF ip, port, row
<1>6. \A k \in Clients : granted[k] <= now /\ granted[k] \in Int
  BY <1>3, MsqlAssumption DEF GrantsOK, SharedOK, Times, Never
<1>7. Mild
  BY <1>0, <1>3, <1>4, <1>5, <1>6 DEF Mild
<1>8. SharedOK'
  <2>1. \A k \in Clients : granted'[k] <= now
    BY <1>3, <1>4, <1>6
  <2>2. ASSUME NEW r \in ALLOWED_IPS'
        PROVE  /\ granted'[<<r.ip, r.port>>] # Never
               /\ r.at <= granted'[<<r.ip, r.port>>]
    <3>1. CASE r = row
      BY <1>3, <1>4, <1>5, <3>1
    <3>2. CASE r \in ALLOWED_IPS
      <4>1. <<r.ip, r.port>> \in Clients /\ r.at \in Times
        BY <3>2 DEF DataTyped, Clients
      <4>2. /\ granted[<<r.ip, r.port>>] # Never
            /\ r.at <= granted[<<r.ip, r.port>>]
        BY <3>2 DEF GrantsOK, SharedOK
      <4>3. /\ granted'[<<r.ip, r.port>>] # Never
            /\ granted[<<r.ip, r.port>>] <= granted'[<<r.ip, r.port>>]
        BY <1>7, <4>1, <4>2 DEF Mild
      <4>4. granted'[<<r.ip, r.port>>] \in Int
            /\ granted[<<r.ip, r.port>>] \in Int
        BY <1>3, <1>4, <1>6, <4>1
      <4> QED BY <4>1, <4>2, <4>3, <4>4 DEF Times
    <3> QED BY <1>0, <2>2, <3>1, <3>2
  <2>3. ASSUME NEW k \in Clients, cached_allowed[k] # Never
        PROVE  CoveredBy(granted', k[1], cached_allowed[k])
    <3>1. CoveredBy(granted, k[1], cached_allowed[k])
      BY <2>3 DEF GrantsOK, SharedOK
    <3>2. k[1] \in IPs /\ cached_allowed[k] \in Times
      BY <2>3 DEF Clients, DataTyped
    <3> QED BY <1>7, <3>1, <3>2, CoveredGrows
  <2> QED BY <1>0, <2>1, <2>2, <2>3 DEF GrantsOK, SharedOK
<1>9. CoveredBy(granted', ip, req[th].t0)
  <2>1. req[th].t0 <= granted'[<<ip, port>>] + AllowedTimeout
    BY <1>2, <1>3, <1>4, MsqlAssumption DEF Times
  <2> QED BY <1>2, <1>3, <1>4, <2>1 DEF CoveredBy
<1>10. Entitled(ALLOWED_IPS', granted', challenged', "cache_correct", req[th],
                loc[th])
  BY <1>9 DEF Entitled, Place, ip
<1>11. Entitled(ALLOWED_IPS', granted', challenged', pc'[th], req'[th],
                loc'[th])
  BY <1>0, <1>2, <1>10, AnswerEntitled
<1> QED BY <1>1, <1>7, <1>8, <1>11, FrameGrants

LEMMA NextGrants ==
  ASSUME Typed, AnswersOK, GrantsOK, [Next]_vars
  PROVE  GrantsOK'
<1>0. DataTyped /\ ThreadsTyped /\ DataTyped'
  BY NextTyped, TypedParts, TypedPartsNext
<1>1. CASE \/ UNCHANGED vars
           \/ \E th \in Threads : Break(th) \/ Drop(th) \/ Reconnect(th)
  BY <1>1 DEF vars, Break, Drop, Reconnect, tables, thread, history, GrantsOK,
              SharedOK
<1>2. CASE ClearCache
  <2>1. SharedOK'
    BY <1>2 DEF ClearCache, tables, history, GrantsOK, SharedOK
  <2> QED BY <1>2, <2>1 DEF ClearCache, tables, thread, history, GrantsOK
<1>3. CASE Tick
  <2>1. SharedOK'
    <3>1. \A k \in Clients : granted[k] <= now /\ granted[k] \in Int
      BY <1>0, MsqlAssumption DEF GrantsOK, SharedOK, DataTyped, Times, Never
    <3>2. \A k \in Clients : granted[k] <= now'
      BY <1>0, <1>3, <3>1 DEF Tick, DataTyped, Times
    <3> QED BY <1>3, <3>2 DEF Tick, tables, history, GrantsOK, SharedOK
  <2> QED BY <1>3, <2>1 DEF Tick, tables, thread, history, GrantsOK
<1>4. ASSUME NEW th \in Threads, NEW kind \in {"page", "js", "api"},
             NEW ip, NEW port, NEW id, Arrive(th, kind, ip, port, id)
      PROVE  GrantsOK'
  <2>1. /\ OthersSame(th) /\ pc'[th] = FirstStep(kind)
        /\ UNCHANGED <<now, ALLOWED_IPS, granted, challenged, cached_allowed,
                       CHALLENGE_FACTORS>>
    BY <1>0, <1>4 DEF Arrive, OthersSame, ThreadsTyped, tables, history
  <2>2. Bare(FirstStep(kind), loc'[th])
    BY DEF FirstStep, Bare, Place
  <2>3. SharedOK' /\ Mild
    BY <1>0, <2>1, SharedKeep DEF GrantsOK
  <2> QED BY <1>0, <2>1, <2>2, <2>3, BareEntitled, FrameGrants
<1>5. ASSUME NEW th \in Threads,
             \/ LockTable(th) \/ UnlockTables(th) \/ Refuse(th) \/ Reply(th)
             \/ IsAllowed(th) \/ CleanupIdToPorts(th) \/ InsertIdToPort(th)
             \/ (\E r \in Rand : ExistsId(th, r) \/ Exists(th, r))
             \/ SeqRead(th) \/ SeqWrite(th) \/ ReadPort(th) \/ DeleteId(th)
             \/ CleanupChallenges(th) \/ ReadChallenge(th)
             \/ DeleteChallenge(th)
      PROVE  GrantsOK'
  <2>1. /\ Entitled(ALLOWED_IPS, granted, challenged, pc'[th], req'[th],
                    loc'[th])
        /\ UNCHANGED <<now, ALLOWED_IPS, granted, challenged, cached_allowed>>
        /\ CHALLENGE_FACTORS' \subseteq CHALLENGE_FACTORS
    BY <1>0, <1>5, EntitledSteps
  <2>2. OthersSame(th)
    BY <1>0, <1>5, ThreadStepOthers DEF ThreadStep
  <2>3. SharedOK' /\ Mild
    BY <1>0, <2>1, SharedKeep DEF GrantsOK
  <2> QED BY <1>0, <2>1, <2>2, <2>3, FrameGrants
<1>6. ASSUME NEW th \in Threads, ThreadStep(th)
      PROVE  GrantsOK'
  BY <1>0, <1>5, <1>6, CacheGrants, CleanupGrants, InsertChallengeGrants,
     InsertAllowedGrants DEF ThreadStep
<1> QED BY <1>1, <1>2, <1>3, <1>4, <1>6 DEF Next

LEMMA InitGrants == Init => GrantsOK
<1> SUFFICES ASSUME Init PROVE GrantsOK
  OBVIOUS
<1>1. \A k \in Clients : granted[k] <= now
  BY DEF Init, Never
<1> QED BY <1>1 DEF Init, GrantsOK, SharedOK, Entitled, Place

-----------------------------------------------------------------------------
(* Every step is a step of AccessGate or a stutter.                        *)

\* Threads that neither start nor stop to forward.
LEMMA SameForwarding ==
  ASSUME \A u \in Threads :
           \/ pc[u] # "forward" /\ pc'[u] # "forward"
           \/ pc'[u] = pc[u] /\ req'[u] = req[u]
  PROVE  UNCHANGED Forwarding
BY DEF Forwarding, Nothing, Never

LEMMA AnswerNoForward ==
  ASSUME ThreadsTyped, NEW th \in Threads, NEW l, NEW next,
         Answer(th, l, next) \/ Failing(th), next # "forward"
  PROVE  pc'[th] # "forward"
<1>1. Failing(th) => pc'[th] # "forward"
  BY DEF Failing, Unlocking, Step, Done, ThreadsTyped
<1>2. Step(th, l, next) => pc'[th] # "forward"
  BY DEF Step, ThreadsTyped
<1> QED BY <1>1, <1>2 DEF Answer

\* The steps that have nothing to do with forwarding.
LEMMA NoForward ==
  ASSUME ThreadsTyped, NEW th \in Threads, ThreadStep(th),
         ~CacheLookup(th), ~CacheAllowed(th), ~Reply(th)
  PROVE  UNCHANGED Forwarding
<1>0. OthersSame(th)
  BY ThreadStepOthers
<1>1. pc[th] # "forward" /\ pc'[th] # "forward"
  <2> USE AnswerNoForward DEF Runs, AnswerUnlock
  <2>1. CASE LockTable(th)
    <3>1. AfterLock(th) # "forward" /\ pc[th] # "forward"
      BY <2>1 DEF LockTable, AfterLock, Locking
    <3> QED BY <2>1, <3>1 DEF LockTable
  <2>2. CASE UnlockTables(th)
    <3>1. loc[th].ret # "forward"
      BY ThreadTyped DEF Locals, Returns
    <3> QED BY <2>2, <3>1 DEF UnlockTables, Done, Step, ThreadsTyped
  <2>3. CASE Refuse(th)
    <3>1. \A s \in Statements : s # "forward"
      BY DEF Statements, Locking, Reading, Writing
    <3> QED BY <2>3, <3>1 DEF Refuse
  <2>4. CASE CacheCorrect(th)
    BY <2>4 DEF CacheCorrect, CacheInsert, Step, ThreadsTyped
  <2>5. CASE \/ CleanupAllowed(th) \/ IsAllowed(th) \/ CleanupIdToPorts(th)
             \/ InsertIdToPort(th) \/ \E r \in Rand : ExistsId(th, r)
    BY <2>5 DEF CleanupAllowed, IsAllowed, CleanupIdToPorts, InsertIdToPort,
                ExistsId
  <2>6. CASE \/ SeqRead(th) \/ SeqWrite(th) \/ ReadPort(th) \/ DeleteId(th)
             \/ \E r \in Rand : Exists(th, r)
    BY <2>6 DEF SeqRead, SeqWrite, ReadPort, DeleteId, Exists
  <2>7. CASE CleanupChallenges(th) \/ DeleteChallenge(th) \/ InsertAllowed(th)
    BY <2>7 DEF CleanupChallenges, DeleteChallenge, InsertAllowed
  <2>8. CASE InsertChallenge(th)
    BY <2>8 DEF InsertChallenge, Unlocking, Step, ThreadsTyped
  <2>9. CASE ReadChallenge(th)
    <3>1. pc[th] = "read_chal"
      BY <2>9, Zenon DEF ReadChallenge
    <3>2. \/ \E l : Answer(th, l, "delete_chal")
          \/ \E l : Answer(th, l, "unlock")
      BY <2>9, Zenon DEF ReadChallenge
    <3> QED BY <3>1, <3>2
  <2> QED BY <2>1, <2>2, <2>3, <2>4, <2>5, <2>6, <2>7, <2>8, <2>9
             DEF ThreadStep
<1> QED BY <1>0, <1>1, SameForwarding DEF OthersSame

\* A thread starts to forward.
LEMMA ForwardStep ==
  ASSUME DataTyped, ThreadsTyped, AnswersOK, NEW th \in Threads,
         pc[th] \in {"cache", "cache_allowed"}, Step(th, loc[th], "forward"),
         UNCHANGED <<now, challenged, granted>>,
         Gate!MayForward(req[th].ip, req[th].t0)
  PROVE  Gate!Next
<1> DEFINE ip == req[th].ip
           port == req[th].port
           t == req[th].t0
<1>1. ip \in IPs /\ port \in Ports /\ t \in 0..now
  <2>1. ip \in IPs /\ port \in Ports /\ t \in Times
    BY ThreadTyped
  <2>2. t <= now
    BY Waiting
  <2> QED BY <2>1, <2>2, MsqlAssumption DEF DataTyped, Times
<1>2. Forwarding[th] = Nothing
  BY DEF Forwarding
<1>3. Forwarding' = [Forwarding EXCEPT ![th] = [ip |-> ip, port |-> port,
                                                at |-> t]]
  BY DEF Forwarding, Nothing, Never, Step, ThreadsTyped
<1>4. Gate!Forward(th, ip, port, t)
  BY <1>2, <1>3 DEF Gate!Forward
<1> QED BY <1>1, <1>4 DEF Gate!Next

LEMMA CacheGate ==
  ASSUME DataTyped, ThreadsTyped, AnswersOK, GrantsOK, NEW th \in Threads,
         CacheLookup(th) \/ CacheAllowed(th)
  PROVE  [Gate!Next]_(Gate!vars)
<1>0. /\ UNCHANGED <<now, challenged, granted>>
      /\ pc[th] \in {"cache", "cache_allowed"}
  BY DEF CacheLookup, CacheAllowed, CacheInsert, history
<1>1. /\ Client(th) \in Clients /\ Client(th)[1] = req[th].ip
      /\ req[th].t0 \in Times
  BY <1>0, ThreadFacts DEF Client
<1>2. CASE CacheLookup(th)
  <2> DEFINE t == cached_allowed[Client(th)]
             fresh == t # Never /\ req[th].t0 - t <= CachedTimeout
  <2>1. CASE fresh
    <3>1. Step(th, loc[th], "forward")
      BY <1>2, <2>1 DEF CacheLookup
    <3>2. t \in Times
      BY <1>1, <2>1 DEF DataTyped
    <3>3. CoveredBy(granted, req[th].ip, t)
      BY <1>1, <2>1 DEF GrantsOK, SharedOK
    <3>4. PICK port \in Ports :
            /\ granted[<<req[th].ip, port>>] # Never
            /\ t <= granted[<<req[th].ip, port>>] + AllowedTimeout
      BY <3>3 DEF CoveredBy
    <3>5. granted[<<req[th].ip, port>>] \in Int
      <4>1. <<req[th].ip, port>> \in Clients
        BY <1>0, ThreadTyped DEF Clients
      <4> QED BY <4>1, MsqlAssumption DEF DataTyped, Times, Never
    <3>6. req[th].t0 <= granted[<<req[th].ip, port>>] + AllowedTimeout
                          + CachedTimeout
      BY <1>1, <2>1, <3>2, <3>4, <3>5, MsqlAssumption DEF Times
    <3>7. Gate!MayForward(req[th].ip, req[th].t0)
      BY <3>4, <3>6 DEF Gate!MayForward
    <3> QED BY <1>0, <3>1, <3>7, ForwardStep
  <2>2. CASE ~fresh
    <3>1. Step(th, loc[th], "lock_allowed")
      BY <1>2, <2>2 DEF CacheLookup
    <3>2. UNCHANGED Forwarding
      BY <1>0, <3>1, SameForwarding DEF Step, ThreadsTyped
    <3> QED BY <1>0, <3>2 DEF Gate!vars
  <2> QED BY <2>1, <2>2
<1>3. CASE CacheAllowed(th)
  <2>1. CoveredBy(granted, req[th].ip, req[th].t0)
    BY <1>3, ThreadFacts DEF CacheAllowed, Entitled, Place
  <2>2. PICK port \in Ports :
          /\ granted[<<req[th].ip, port>>] # Never
          /\ req[th].t0 <= granted[<<req[th].ip, port>>] + AllowedTimeout
    BY <2>1 DEF CoveredBy
  <2>3. granted[<<req[th].ip, port>>] \in Int
    <3>1. <<req[th].ip, port>> \in Clients
      BY <1>0, ThreadTyped DEF Clients
    <3> QED BY <3>1, MsqlAssumption DEF DataTyped, Times, Never
  <2>4. req[th].t0 <= granted[<<req[th].ip, port>>] + AllowedTimeout
                        + CachedTimeout
    BY <1>1, <2>2, <2>3, MsqlAssumption DEF Times
  <2>5. Gate!MayForward(req[th].ip, req[th].t0)
    BY <2>2, <2>4 DEF Gate!MayForward
  <2> QED BY <1>0, <1>3, <2>5, ForwardStep DEF CacheAllowed, CacheInsert
<1> QED BY <1>2, <1>3

LEMMA ThreadGate ==
  ASSUME DataTyped, ThreadsTyped, AnswersOK, GrantsOK, NEW th \in Threads,
         ThreadStep(th)
  PROVE  [Gate!Next]_(Gate!vars)
<1>1. CASE Reply(th)
  <2>1. Forwarding' = [Forwarding EXCEPT ![th] = Nothing]
    BY <1>1 DEF Reply, Done, Forwarding, Nothing, Never, ThreadsTyped
  <2>2. Gate!Finish(th)
    BY <1>1, <2>1 DEF Reply, Gate!Finish, history
  <2> QED BY <2>2 DEF Gate!Next
<1>2. CASE InsertChallenge(th)
  <2>0. UNCHANGED Forwarding
    BY <1>2, NoForward DEF InsertChallenge, CacheLookup, CacheAllowed, Reply,
                           Runs
  <2>1. req[th].ip \in IPs /\ loc[th].port \in Ports
    BY <1>2, ThreadTyped DEF InsertChallenge, Runs, Knows, Place
  <2>2. CASE challenged' = challenged \cup {<<req[th].ip, loc[th].port>>}
    <3>1. Gate!Challenge(req[th].ip, loc[th].port)
      BY <1>2, <2>0, <2>2 DEF InsertChallenge, Gate!Challenge
    <3> QED BY <2>1, <3>1 DEF Gate!Next
  <2>3. CASE UNCHANGED challenged
    BY <1>2, <2>0, <2>3 DEF InsertChallenge, Gate!vars
  <2> QED BY <1>2, <2>2, <2>3 DEF InsertChallenge
<1>3. CASE InsertAllowed(th)
  <2>0. UNCHANGED Forwarding
    BY <1>3, NoForward DEF InsertAllowed, CacheLookup, CacheAllowed, Reply,
                           Runs
  <2>1. req[th].ip \in IPs /\ loc[th].port \in Ports
    BY <1>3, ThreadTyped DEF InsertAllowed, Runs, Knows, Place
  <2>2. <<req[th].ip, loc[th].port>> \in challenged
    BY <1>3, ThreadFacts DEF InsertAllowed, Runs, Entitled, Place
  <2>3. Gate!Grant(req[th].ip, loc[th].port)
    BY <1>3, <2>0, <2>2 DEF InsertAllowed, Gate!Grant
  <2> QED BY <2>1, <2>3 DEF Gate!Next
<1>4. CASE /\ ~Reply(th) /\ ~InsertChallenge(th) /\ ~InsertAllowed(th)
           /\ ~CacheLookup(th) /\ ~CacheAllowed(th)
  <2>1. UNCHANGED Forwarding
    BY <1>4, NoForward
  <2>2. UNCHANGED <<now, challenged, granted>>
    <3>1. CASE CleanupAllowed(th) \/ CacheCorrect(th)
      BY <3>1 DEF CleanupAllowed, CacheCorrect, CacheInsert, history
    <3> QED BY <1>4, <3>1, EntitledSteps DEF ThreadStep
  <2> QED BY <2>1, <2>2 DEF Gate!vars
<1> QED BY <1>1, <1>2, <1>3, <1>4, CacheGate

LEMMA NextGate ==
  Typed /\ AnswersOK /\ GrantsOK /\ [Next]_vars => [Gate!Next]_(Gate!vars)
<1> SUFFICES ASSUME Typed, AnswersOK, GrantsOK, [Next]_vars
             PROVE  [Gate!Next]_(Gate!vars)
  OBVIOUS
<1>0. DataTyped /\ ThreadsTyped
  BY TypedParts
<1>1. CASE \/ UNCHANGED vars \/ ClearCache
           \/ \E th \in Threads : Break(th) \/ Drop(th) \/ Reconnect(th)
  <2>1. UNCHANGED <<now, challenged, granted, pc, req>>
    BY <1>1 DEF vars, ClearCache, Break, Drop, Reconnect, thread, history
  <2>2. UNCHANGED Forwarding
    BY <2>1, SameForwarding
  <2> QED BY <2>1, <2>2 DEF Gate!vars
<1>2. ASSUME NEW th \in Threads, NEW kind \in {"page", "js", "api"},
             NEW ip, NEW port, NEW id, Arrive(th, kind, ip, port, id)
      PROVE  [Gate!Next]_(Gate!vars)
  <2>1. FirstStep(kind) # "forward"
    BY DEF FirstStep
  <2>2. UNCHANGED Forwarding
    BY <1>0, <1>2, <2>1, SameForwarding DEF Arrive, ThreadsTyped
  <2> QED BY <1>2, <2>2 DEF Arrive, history, Gate!vars
<1>3. CASE Tick
  <2>1. UNCHANGED Forwarding
    BY <1>3, SameForwarding DEF Tick, thread
  <2>2. Gate!Tick
    BY <1>3, <2>1 DEF Tick, history, Gate!Tick
  <2> QED BY <2>2 DEF Gate!Next
<1> QED BY <1>0, <1>1, <1>2, <1>3, ThreadGate DEF Next

\* The inductive invariant of the gate.
LEMMA InvariantHolds == Spec => []IInv
BY InitTyped, NextTyped, InitLocks, NextLocks, InitSeq, NextSeqOK, InitAnswers,
   NextAnswers, InitGrants, NextGrants, PTL DEF Spec, IInv

\* The gate with MySQL implements AccessGate, whatever statements are refused
\* and whatever sessions are lost: only challenged clients are granted access,
\* and a request is forwarded only if it arrived no later than AllowedTimeout +
\* CachedTimeout after a grant to its address.
THEOREM ImplementsAccessGate == Spec => GateSpec
<1>1. Init => Gate!Init
  BY DEF Init, Gate!Init, Forwarding, Clients
<1>2. IInv => Typed /\ AnswersOK /\ GrantsOK
  BY DEF IInv
<1> QED
  BY <1>1, <1>2, InvariantHolds, NextGate, PTL DEF Spec, GateSpec, Gate!Spec
=============================================================================
