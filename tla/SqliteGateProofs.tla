-------------------------- MODULE SqliteGateProofs --------------------------
(***************************************************************************)
(* Proofs about SqliteGate for any number of threads, clients, ports and   *)
(* ids and for any timeouts.                                               *)
(***************************************************************************)
EXTENDS SqliteGate, TLAPS

\* What a thread knows at each point of its request.
ThreadOK ==
  \A th \in Threads :
    /\ pc[th] # "idle" => req[th] \in Requests
    /\ pc[th] \in {"cache", "cleanup_allowed", "is_allowed", "cache_allowed",
                   "cleanup_ids"} => req[th].kind = "page"
    /\ pc[th] = "exists" => loc[th].val # 0
    /\ pc[th] \in {"insert_id", "insert_challenge"} => loc[th].id \in Ids
    /\ pc[th] \in {"delete_id", "insert_challenge", "delete_challenge",
                   "insert_allowed", "cache_correct"} => loc[th].port \in Ports
    /\ pc[th] \in {"seq_read", "seq_write", "exists"}
         /\ req[th].kind # "page" => loc[th].port \in Ports

Typed == TypeOK /\ ThreadOK

-----------------------------------------------------------------------------
LEMMA InitTyped == Init => Typed
<1> SUFFICES ASSUME Init PROVE Typed
  OBVIOUS
<1> USE TimeoutAssumption, SeqAssumption
<1>1. TypeOK
  BY DEF Init, TypeOK, Times, Pc, Locals, NoLocals, Never
<1>2. ThreadOK
  BY DEF Init, ThreadOK
<1> QED BY <1>1, <1>2 DEF Typed

\* A failed statement, and the end of a request, leave a thread idle.
LEMMA DoneTyped ==
  ASSUME Typed, NEW th \in Threads, Done(th)
  PROVE  /\ pc' \in [Threads -> Pc]
         /\ req' \in [Threads -> Requests \cup {NoRequest}]
         /\ loc' \in [Threads -> Locals]
         /\ ThreadOK'
<1> USE TimeoutAssumption, SeqAssumption DEF Typed, TypeOK, Done
<1>1. NoLocals \in Locals
  BY DEF NoLocals, Locals, Times
<1>2. /\ pc' \in [Threads -> Pc]
      /\ req' \in [Threads -> Requests \cup {NoRequest}]
      /\ loc' \in [Threads -> Locals]
  BY <1>1 DEF Pc
<1>3. ThreadOK'
  BY DEF ThreadOK
<1> QED BY <1>2, <1>3

LEMMA ArriveTyped ==
  ASSUME Typed, NEW th \in Threads, NEW kind \in {"page", "js", "api"},
         NEW ip \in IPs, NEW port \in Ports, NEW id \in Ids \cup {NoId},
         Arrive(th, kind, ip, port, id)
  PROVE  Typed'
<1> USE DEF Typed, TypeOK, Arrive, tables, cache, history
<1> DEFINE r == [kind |-> kind, ip |-> ip, port |-> port, id |-> id,
                 t0 |-> now]
<1>1. r \in Requests
  BY DEF Requests
<1>2. FirstStep(kind) \in {"cache", "cleanup_challenges", "read_challenge"}
      /\ (FirstStep(kind) = "cache" => kind = "page")
  BY DEF FirstStep
<1>3. TypeOK'
  BY <1>1, <1>2 DEF Pc
<1>4. ThreadOK'
  BY <1>1, <1>2 DEF ThreadOK
<1> QED BY <1>3, <1>4

LEMMA PageTyped ==
  ASSUME Typed, NEW th \in Threads, PageStep(th)
  PROVE  Typed'
<1> USE TimeoutAssumption DEF Typed, TypeOK, Goto, tables, cache, history
<1>0. pc[th] # "idle" => /\ req[th] \in Requests /\ req[th].ip \in IPs
                         /\ req[th].port \in Ports /\ req[th].t0 \in Times
                         /\ Client(th) \in Clients
  BY DEF ThreadOK, Requests, Client, Clients
<1>1. CASE CacheLookup(th)
  <2>1. TypeOK'
    BY <1>0, <1>1 DEF CacheLookup, Pc
  <2>2. ThreadOK'
    BY <1>1 DEF CacheLookup, ThreadOK
  <2> QED BY <2>1, <2>2
<1>2. CASE CleanupAllowed(th)
  <2>1. TypeOK'
    BY <1>2 DEF CleanupAllowed, Pc
  <2>2. ThreadOK'
    BY <1>2 DEF CleanupAllowed, ThreadOK
  <2> QED BY <2>1, <2>2
<1>3. CASE IsAllowed(th)
  <2>1. TypeOK'
    BY <1>3 DEF IsAllowed, Pc
  <2>2. ThreadOK'
    BY <1>3 DEF IsAllowed, ThreadOK
  <2> QED BY <2>1, <2>2
<1>4. CASE CacheAllowed(th)
  <2>1. TypeOK'
    BY <1>0, <1>4 DEF CacheAllowed, CacheInsert, Pc
  <2>2. ThreadOK'
    BY <1>4 DEF CacheAllowed, ThreadOK
  <2> QED BY <2>1, <2>2
<1>5. CASE CleanupIdToPorts(th)
  <2>1. TypeOK'
    BY <1>5 DEF CleanupIdToPorts, Pc
  <2>2. ThreadOK'
    BY <1>5 DEF CleanupIdToPorts, ThreadOK
  <2> QED BY <2>1, <2>2
<1>6. CASE InsertIdToPort(th)
  <2>1. CASE /\ ID_TO_PORT' = ID_TO_PORT \cup {[id |-> loc[th].id,
                                 port |-> req[th].port, at |-> now]}
             /\ pc' = [pc EXCEPT ![th] = "issued"]
             /\ UNCHANGED <<req, loc>>
    <3>1. ID_TO_PORT' \subseteq [id : Ids, port : Ports, at : Times]
      BY <1>0, <1>6, <2>1 DEF InsertIdToPort, ThreadOK
    <3>2. TypeOK'
      BY <1>6, <2>1, <3>1 DEF InsertIdToPort, Pc
    <3>3. ThreadOK'
      BY <1>6, <2>1 DEF InsertIdToPort, ThreadOK
    <3> QED BY <3>2, <3>3
  <2>2. CASE Done(th) /\ UNCHANGED ID_TO_PORT
    BY <1>6, <2>2, DoneTyped DEF InsertIdToPort
  <2> QED BY <1>6, <2>1, <2>2 DEF InsertIdToPort
<1> QED
  BY <1>1, <1>2, <1>3, <1>4, <1>5, <1>6 DEF PageStep

LEMMA IdTyped ==
  ASSUME Typed, NEW th \in Threads, IdStep(th)
  PROVE  Typed'
<1> USE SeqAssumption DEF Typed, TypeOK, Goto, tables, cache, history
<1>1. CASE SeqRead(th)
  <2>1. CASE Fails(th, "seq_read")
    BY <1>1, <2>1, DoneTyped DEF SeqRead, Fails
  <2>2. CASE /\ \/ loc' = [loc EXCEPT ![th].val = 0]
                \/ \E v \in SEQ_ID : loc' = [loc EXCEPT ![th].val = v]
             /\ pc' = [pc EXCEPT ![th] = "seq_write"]
             /\ UNCHANGED <<tables, req>>
    <3>1. \E v \in 0..SeqLimit : loc' = [loc EXCEPT ![th].val = v]
      BY <2>2
    <3>2. loc' \in [Threads -> Locals]
      BY <3>1 DEF Locals
    <3>3. /\ \A u \in Threads : loc'[u].port = loc[u].port
                              /\ loc'[u].id = loc[u].id
          /\ \A u \in Threads \ {th} : loc'[u] = loc[u]
      BY <3>1 DEF Locals
    <3>4. TypeOK'
      BY <1>1, <2>2, <3>2 DEF SeqRead, Pc
    <3>5. ThreadOK'
      BY <1>1, <2>2, <3>3 DEF SeqRead, ThreadOK
    <3> QED BY <3>4, <3>5
  <2> QED BY <1>1, <2>1, <2>2 DEF SeqRead
<1>2. CASE SeqWrite(th)
  <2>1. CASE Done(th) /\ UNCHANGED tables
    BY <1>2, <2>1, DoneTyped DEF SeqWrite
  <2>2. CASE /\ loc[th].val = 0
             /\ SEQ_ID' = SEQ_ID \cup {1}
             /\ loc' = [loc EXCEPT ![th].val = 1]
             /\ pc' = [pc EXCEPT ![th] = "exists"] /\ UNCHANGED req
    <3>1. loc' \in [Threads -> Locals]
      BY <2>2 DEF Locals
    <3>2. /\ \A u \in Threads : loc'[u].port = loc[u].port
                              /\ loc'[u].id = loc[u].id
          /\ \A u \in Threads \ {th} : loc'[u] = loc[u]
          /\ loc'[th].val = 1
      BY <2>2 DEF Locals
    <3>3. TypeOK'
      BY <1>2, <2>2, <3>1 DEF SeqWrite, Pc
    <3>4. ThreadOK'
      BY <1>2, <2>2, <3>2 DEF SeqWrite, ThreadOK
    <3> QED BY <3>3, <3>4
  <2>3. CASE /\ loc[th].val # 0
             /\ SEQ_ID' = {NextSeq(loc[th].val) : v \in SEQ_ID}
             /\ pc' = [pc EXCEPT ![th] = "exists"] /\ UNCHANGED <<req, loc>>
    <3>1. loc[th].val \in 0..SeqLimit
      BY DEF Locals
    <3>2. NextSeq(loc[th].val) \in 1..(SeqLimit - 1)
      BY <3>1 DEF NextSeq
    <3>3. TypeOK'
      BY <1>2, <2>3, <3>2 DEF SeqWrite, Pc
    <3>4. ThreadOK'
      BY <1>2, <2>3 DEF SeqWrite, ThreadOK
    <3> QED BY <3>3, <3>4
  <2> QED BY <1>2, <2>1, <2>2, <2>3 DEF SeqWrite, Fails
<1>3. CASE Exists(th)
  <2>1. CASE Fails(th, "exists")
    BY <1>3, <2>1, DoneTyped DEF Exists, Fails
  <2>2. ASSUME NEW r \in Rand,
               pc' = [pc EXCEPT ![th] = "seq_read"],
               UNCHANGED <<req, loc>>
        PROVE  Typed'
    <3>1. TypeOK'
      BY <1>3, <2>2 DEF Exists, Pc
    <3>2. ThreadOK'
      BY <1>3, <2>2 DEF Exists, ThreadOK
    <3> QED BY <3>1, <3>2
  <2>3. ASSUME NEW r \in Rand,
               loc' = [loc EXCEPT ![th].id = <<loc[th].val, r>>],
               pc' = [pc EXCEPT ![th] = IF req[th].kind = "page"
                                        THEN "insert_id"
                                        ELSE "insert_challenge"],
               UNCHANGED req
        PROVE  Typed'
    <3>1. loc[th].val \in 1..SeqLimit
      BY <1>3 DEF Exists, ThreadOK, Locals
    <3>2. <<loc[th].val, r>> \in Ids
      BY <3>1 DEF Ids
    <3>3. loc' \in [Threads -> Locals]
      BY <2>3, <3>2 DEF Locals
    <3>4. /\ \A u \in Threads : loc'[u].port = loc[u].port
                              /\ loc'[u].val = loc[u].val
          /\ \A u \in Threads \ {th} : loc'[u] = loc[u]
          /\ loc'[th].id \in Ids
      BY <2>3, <3>2 DEF Locals
    <3>5. TypeOK'
      BY <1>3, <2>3, <3>3 DEF Exists, Pc
    <3>6. ThreadOK'
      BY <1>3, <2>3, <3>4 DEF Exists, ThreadOK
    <3> QED BY <3>5, <3>6
  <2> QED BY <1>3, <2>1, <2>2, <2>3 DEF Exists
<1> QED BY <1>1, <1>2, <1>3 DEF IdStep

LEMMA JsTyped ==
  ASSUME Typed, NEW th \in Threads, JsStep(th)
  PROVE  Typed'
<1> USE TimeoutAssumption DEF Typed, TypeOK, Goto, tables, cache, history
<1>0. pc[th] # "idle" => req[th].ip \in IPs /\ req[th].port \in Ports
  BY DEF ThreadOK, Requests
<1>1. CASE CleanupChallenges(th)
  <2>1. TypeOK'
    BY <1>1 DEF CleanupChallenges, Pc
  <2>2. ThreadOK'
    BY <1>1 DEF CleanupChallenges, ThreadOK
  <2> QED BY <2>1, <2>2
<1>2. CASE ReadPort(th)
  <2>1. CASE Done(th)
    BY <1>2, <2>1, DoneTyped DEF ReadPort, Fails
  <2>2. ASSUME NEW r \in ID_TO_PORT,
               loc' = [loc EXCEPT ![th].port = r.port],
               pc' = [pc EXCEPT ![th] = "delete_id"],
               UNCHANGED req
        PROVE  Typed'
    <3>1. r.port \in Ports
      OBVIOUS
    <3>2. loc' \in [Threads -> Locals]
      BY <2>2, <3>1 DEF Locals
    <3>3. /\ \A u \in Threads \ {th} : loc'[u] = loc[u]
          /\ loc'[th].port \in Ports
      BY <2>2, <3>1 DEF Locals
    <3>4. TypeOK'
      BY <1>2, <2>2, <3>2 DEF ReadPort, Pc
    <3>5. ThreadOK'
      BY <1>2, <2>2, <3>3 DEF ReadPort, ThreadOK
    <3> QED BY <3>4, <3>5
  <2> QED BY <1>2, <2>1, <2>2 DEF ReadPort, Fails
<1>3. CASE DeleteId(th)
  <2>1. TypeOK'
    BY <1>3 DEF DeleteId, Pc
  <2>2. ThreadOK'
    BY <1>3 DEF DeleteId, ThreadOK
  <2> QED BY <2>1, <2>2
<1>4. CASE InsertChallenge(th)
  <2>1. CASE Done(th) /\ UNCHANGED <<CHALLENGE_FACTOR, challenged>>
    BY <1>4, <2>1, DoneTyped DEF InsertChallenge
  <2>2. CASE /\ CHALLENGE_FACTOR' = CHALLENGE_FACTOR \cup
                  {[id |-> loc[th].id, ip |-> req[th].ip,
                    port |-> loc[th].port, at |-> now]}
             /\ challenged' = challenged \cup {<<req[th].ip, loc[th].port>>}
             /\ pc' = [pc EXCEPT ![th] = "issued"]
             /\ UNCHANGED <<req, loc>>
    <3>1. loc[th].id \in Ids /\ loc[th].port \in Ports
      BY <1>4 DEF InsertChallenge, ThreadOK
    <3>2. /\ CHALLENGE_FACTOR' \subseteq [id : Ids, ip : IPs, port : Ports,
                                          at : Times]
          /\ challenged' \subseteq Clients
      BY <1>0, <1>4, <2>2, <3>1 DEF InsertChallenge, Clients
    <3>3. TypeOK'
      BY <1>4, <2>2, <3>2 DEF InsertChallenge, Pc
    <3>4. ThreadOK'
      BY <1>4, <2>2 DEF InsertChallenge, ThreadOK
    <3> QED BY <3>3, <3>4
  <2> QED BY <1>4, <2>1, <2>2 DEF InsertChallenge
<1> QED BY <1>1, <1>2, <1>3, <1>4 DEF JsStep

LEMMA ApiTyped ==
  ASSUME Typed, NEW th \in Threads, ApiStep(th)
  PROVE  Typed'
<1> USE TimeoutAssumption DEF Typed, TypeOK, Goto, tables, cache, history
<1>0. pc[th] # "idle" => /\ req[th].ip \in IPs /\ req[th].port \in Ports
                         /\ req[th].t0 \in Times /\ Client(th) \in Clients
  BY DEF ThreadOK, Requests, Client, Clients
<1>1. CASE ReadChallenge(th)
  <2>1. CASE Done(th)
    BY <1>1, <2>1, DoneTyped DEF ReadChallenge, Fails
  <2>2. ASSUME NEW r \in CHALLENGE_FACTOR,
               loc' = [loc EXCEPT ![th].port = r.port, ![th].at = r.at],
               pc' = [pc EXCEPT ![th] = "delete_challenge"],
               UNCHANGED req
        PROVE  Typed'
    <3>1. r.port \in Ports /\ r.at \in Times
      OBVIOUS
    <3>2. loc' \in [Threads -> Locals]
      BY <2>2, <3>1 DEF Locals
    <3>3. /\ \A u \in Threads \ {th} : loc'[u] = loc[u]
          /\ loc'[th].port \in Ports
      BY <2>2, <3>1 DEF Locals
    <3>4. TypeOK'
      BY <1>1, <2>2, <3>2 DEF ReadChallenge, Pc
    <3>5. ThreadOK'
      BY <1>1, <2>2, <3>3 DEF ReadChallenge, ThreadOK
    <3> QED BY <3>4, <3>5
  <2> QED BY <1>1, <2>1, <2>2 DEF ReadChallenge, Fails
<1>2. CASE DeleteChallenge(th)
  <2>1. CASE Fails(th, "delete_challenge")
    BY <1>2, <2>1, DoneTyped DEF DeleteChallenge, Fails
  <2>2. CASE ~Fails(th, "delete_challenge")
    <3>1. TypeOK'
      BY <1>2, <2>2 DEF DeleteChallenge, Pc
    <3>2. ThreadOK'
      BY <1>2, <2>2 DEF DeleteChallenge, ThreadOK
    <3> QED BY <3>1, <3>2
  <2> QED BY <2>1, <2>2
<1>3. CASE InsertAllowed(th)
  <2>1. CASE Done(th) /\ UNCHANGED <<tables, granted>>
    BY <1>3, <2>1, DoneTyped DEF InsertAllowed
  <2>2. CASE /\ ALLOWED_IP' = ALLOWED_IP \cup
                  {[ip |-> req[th].ip, port |-> loc[th].port, at |-> now]}
             /\ granted' = [granted EXCEPT ![<<req[th].ip, loc[th].port>>]
                                             = now]
             /\ pc' = [pc EXCEPT ![th] = "cache_correct"]
             /\ UNCHANGED <<SEQ_ID, ID_TO_PORT, CHALLENGE_FACTOR, req, loc>>
    <3>1. loc[th].port \in Ports
      BY <1>3 DEF InsertAllowed, ThreadOK
    <3>2. ALLOWED_IP' \subseteq [ip : IPs, port : Ports, at : Times]
      BY <1>0, <1>3, <2>2, <3>1 DEF InsertAllowed
    <3>3. granted' \in [Clients -> Times \cup {Never}]
      BY <2>2
    <3>4. TypeOK'
      BY <1>3, <2>2, <3>2, <3>3 DEF InsertAllowed, Pc
    <3>5. ThreadOK'
      BY <1>3, <2>2 DEF InsertAllowed, ThreadOK
    <3> QED BY <3>4, <3>5
  <2> QED BY <1>3, <2>1, <2>2 DEF InsertAllowed, Fails
<1>4. CASE CacheCorrect(th)
  <2>1. TypeOK'
    BY <1>0, <1>4 DEF CacheCorrect, CacheInsert, Pc
  <2>2. ThreadOK'
    BY <1>4 DEF CacheCorrect, ThreadOK
  <2> QED BY <2>1, <2>2
<1> QED BY <1>1, <1>2, <1>3, <1>4 DEF ApiStep

LEMMA NextTyped == Typed /\ [Next]_vars => Typed'
<1> SUFFICES ASSUME Typed, [Next]_vars PROVE Typed'
  OBVIOUS
<1> USE TimeoutAssumption DEF tables, cache, history
<1>1. ASSUME NEW th \in Threads, ThreadStep(th) PROVE Typed'
  <2>1. CASE Reply(th)
    BY <2>1, DoneTyped DEF Reply, Typed, TypeOK
  <2> QED
    BY <1>1, <2>1, PageTyped, IdTyped, JsTyped, ApiTyped DEF ThreadStep
<1>2. CASE ClearCache
  BY <1>2 DEF ClearCache, Typed, TypeOK, ThreadOK
<1>3. CASE Tick
  BY <1>3 DEF Tick, Typed, TypeOK, ThreadOK, Times
<1>4. CASE Crash
  <2>1. TypeOK'
    BY <1>4, SeqAssumption
    DEF Crash, Typed, TypeOK, Pc, NoLocals, Locals, Times
  <2>2. ThreadOK'
    BY <1>4 DEF Crash, ThreadOK
  <2> QED BY <2>1, <2>2 DEF Typed
<1>5. CASE UNCHANGED vars
  BY <1>5 DEF vars, Typed, TypeOK, ThreadOK
<1> QED BY <1>1, <1>2, <1>3, <1>4, <1>5, ArriveTyped DEF Next

\* Every state of the gate has the right types.  For SEQ_ID that means that
\* the sequence number stays below 2^63 - 1 although it is read and written
\* in two statements by any number of threads (internal_increment_seq_id).
THEOREM TypeCorrect == Spec => []TypeOK
<1>1. Typed => TypeOK
  BY DEF Typed
<1> QED BY InitTyped, NextTyped, <1>1, PTL DEF Spec

-----------------------------------------------------------------------------
(* Grants survive.                                                         *)

\* Only two statements of a request touch ALLOWED_IP.
LEMMA AllowedFrame ==
  ASSUME NEW th \in Threads, ThreadStep(th),
         ~CleanupAllowed(th), ~InsertAllowed(th)
  PROVE  UNCHANGED <<now, ALLOWED_IP, granted>>
<1> USE DEF tables, history, Fails
<1>1. ASSUME PageStep(th) PROVE UNCHANGED <<now, ALLOWED_IP, granted>>
  BY <1>1 DEF PageStep, CacheLookup, IsAllowed, CacheAllowed,
              CleanupIdToPorts, InsertIdToPort
<1>2. ASSUME IdStep(th) PROVE UNCHANGED <<now, ALLOWED_IP, granted>>
  BY <1>2 DEF IdStep, SeqRead, SeqWrite, Exists
<1>3. ASSUME JsStep(th) PROVE UNCHANGED <<now, ALLOWED_IP, granted>>
  BY <1>3 DEF JsStep, CleanupChallenges, ReadPort, DeleteId, InsertChallenge
<1>4. ASSUME ApiStep(th) PROVE UNCHANGED <<now, ALLOWED_IP, granted>>
  BY <1>4 DEF ApiStep, ReadChallenge, DeleteChallenge, CacheCorrect
<1>5. ASSUME Reply(th) PROVE UNCHANGED <<now, ALLOWED_IP, granted>>
  BY <1>5 DEF Reply
<1> QED BY <1>1, <1>2, <1>3, <1>4, <1>5 DEF ThreadStep

LEMMA NextGrantSurvives ==
  Typed /\ GrantSurvives /\ [Next]_vars => GrantSurvives'
<1> SUFFICES ASSUME Typed, GrantSurvives, [Next]_vars
             PROVE  GrantSurvives'
  OBVIOUS
<1> USE TimeoutAssumption DEF tables, cache, history
<1>0. ASSUME UNCHANGED <<now, ALLOWED_IP, granted>> PROVE GrantSurvives'
  BY <1>0 DEF GrantSurvives
<1>1. ASSUME NEW th \in Threads, CleanupAllowed(th) PROVE GrantSurvives'
  BY <1>1 DEF CleanupAllowed, GrantSurvives
<1>2. ASSUME NEW th \in Threads, InsertAllowed(th) PROVE GrantSurvives'
  <2>1. CASE UNCHANGED <<ALLOWED_IP, granted>>
    BY <1>0, <1>2, <2>1 DEF InsertAllowed
  <2>2. CASE /\ ALLOWED_IP' = ALLOWED_IP \cup
                  {[ip |-> req[th].ip, port |-> loc[th].port, at |-> now]}
             /\ granted' = [granted EXCEPT ![<<req[th].ip, loc[th].port>>]
                                             = now]
    <3> SUFFICES ASSUME NEW k \in Clients,
                        granted'[k] # Never,
                        now <= granted'[k] + AllowedTimeout
                 PROVE  [ip |-> k[1], port |-> k[2], at |-> granted'[k]]
                          \in ALLOWED_IP'
      BY <1>2 DEF InsertAllowed, GrantSurvives
    <3>1. CASE k = <<req[th].ip, loc[th].port>>
      BY <2>2, <3>1 DEF Typed, TypeOK
    <3>2. CASE k # <<req[th].ip, loc[th].port>>
      BY <2>2, <3>2 DEF Typed, TypeOK, GrantSurvives
    <3> QED BY <3>1, <3>2
  <2> QED BY <1>2, <2>1, <2>2 DEF InsertAllowed, Fails
<1>3. ASSUME NEW th \in Threads, ThreadStep(th) PROVE GrantSurvives'
  BY <1>0, <1>1, <1>2, <1>3, AllowedFrame
<1>4. CASE Tick
  <2>1. ASSUME NEW k \in Clients, granted[k] # Never,
               now + 1 <= granted[k] + AllowedTimeout
        PROVE  now <= granted[k] + AllowedTimeout
    BY <2>1 DEF Typed, TypeOK, Times, Never
  <2> QED BY <1>4, <2>1 DEF Tick, GrantSurvives
<1>5. CASE ClearCache \/ Crash \/ UNCHANGED vars
  BY <1>0, <1>5 DEF ClearCache, Crash, vars
<1>6. ASSUME NEW th \in Threads, NEW kind \in {"page", "js", "api"},
             NEW ip \in IPs, NEW port \in Ports, NEW id \in Ids \cup {NoId},
             Arrive(th, kind, ip, port, id)
      PROVE  GrantSurvives'
  BY <1>0, <1>6 DEF Arrive
<1> QED BY <1>3, <1>4, <1>5, <1>6 DEF Next

\* A client that solved its challenge keeps its row in ALLOWED_IP for the
\* whole of --allowed-timeout, whichever requests run cleanup_stale_entries
\* meanwhile, whichever statements fail and however often the server is
\* started again.
THEOREM GrantsSurvive == Spec => []GrantSurvives
<1>1. Init => GrantSurvives
  BY DEF Init, GrantSurvives, Never
<1> QED BY InitTyped, NextTyped, NextGrantSurvives, <1>1, PTL DEF Spec

-----------------------------------------------------------------------------
(* Which port a client gets through on.                                    *)

\* A client may get through on a port at time t.
Entitled(k, t) ==
  \/ granted[k] # Never
  \/ answered[k] # Never /\ t <= answered[k]

AnswersPast == \A k \in Clients : answered[k] <= now

RowsNamed == \A r \in ALLOWED_IP : granted[<<r.ip, r.port>>] # Never

CacheNamed ==
  \A k \in Clients :
    cached_allowed[k] # Never => Entitled(k, cached_allowed[k])

PortThread(th) ==
  /\ pc[th] # "idle" => req[th].t0 <= now
  /\ pc[th] = "cache_allowed" => granted[Client(th)] # Never
  /\ pc[th] = "forward" =>
       \E t \in Times : Entitled(Client(th), t) /\ req[th].t0 <= t + CachedTimeout

PortInv ==
  /\ Typed /\ AnswersPast /\ RowsNamed /\ CacheNamed
  /\ \A th \in Threads : PortThread(th)

\* What the histories do in any step: a grant and an answer stay, and may
\* become younger.
Later ==
  /\ now <= now'
  /\ \A k \in Clients :
       /\ granted[k] # Never => granted'[k] # Never
       /\ answered[k] # Never => answered'[k] # Never
       /\ answered[k] <= answered'[k]

LEMMA EntitledStays ==
  ASSUME Typed, Typed', Later, NEW k \in Clients, NEW t \in Times,
         Entitled(k, t)
  PROVE  Entitled(k, t)'
<1>1. t \in Int /\ answered[k] \in Int /\ answered'[k] \in Int
  BY TimeoutAssumption DEF Typed, TypeOK, Times, Never
<1> QED BY <1>1 DEF Entitled, Later

\* What is known of the request of a thread that has one.
LEMMA RequestKnown ==
  ASSUME Typed, NEW u \in Threads, pc[u] # "idle"
  PROVE  /\ Client(u) \in Clients
         /\ req[u].t0 \in Times /\ req[u].t0 \in Int
  BY TimeoutAssumption DEF Typed, ThreadOK, Requests, Client, Clients, Times

\* Threads that do not move keep their part.
LEMMA OthersPort ==
  ASSUME Typed, Typed', Later,
         NEW u \in Threads, PortThread(u), pc'[u] = pc[u], req'[u] = req[u]
  PROVE  PortThread(u)'
<1>0. Client(u)' = Client(u)
  BY DEF Client
<1>1. now \in Int /\ now' \in Int
  BY TimeoutAssumption DEF Typed, TypeOK, Times
<1>2. pc'[u] # "idle" => req'[u].t0 <= now'
  BY <1>1, RequestKnown DEF PortThread, Later
<1>3. pc'[u] = "cache_allowed" => granted'[Client(u)'] # Never
  BY <1>0, RequestKnown DEF PortThread, Later
<1>4. ASSUME pc'[u] = "forward"
      PROVE  \E t \in Times : /\ Entitled(Client(u), t)'
                              /\ req'[u].t0 <= t + CachedTimeout
  <2>1. PICK t \in Times : /\ Entitled(Client(u), t)
                           /\ req[u].t0 <= t + CachedTimeout
    BY <1>4 DEF PortThread
  <2>2. Client(u) \in Clients
    BY <1>4, RequestKnown
  <2> DEFINE k == Client(u)
  <2>3. Entitled(k, t)'
    <3>1. k' = k
      BY <1>0
    <3> HIDE DEF k
    <3>2. granted[k] # Never \/ (answered[k] # Never /\ t <= answered[k])
      BY <2>1 DEF Entitled, k
    <3>3. t \in Int /\ answered[k] \in Int /\ answered'[k] \in Int
      BY <2>2, TimeoutAssumption DEF Typed, TypeOK, Times, Never, k
    <3>4. \/ granted'[k] # Never
          \/ answered'[k] # Never /\ t <= answered'[k]
      BY <2>2, <3>2, <3>3 DEF Later, k
    <3> QED BY <3>1, <3>4 DEF Entitled
  <2> QED BY <2>1, <2>3
<1> QED BY <1>2, <1>3, <1>4 DEF PortThread

\* A step that leaves the table, the cache and the histories alone, and puts
\* its thread nowhere near a cache entry.
LEMMA PlainPort ==
  ASSUME PortInv, Typed', UNCHANGED <<now, cached_allowed, granted, answered>>,
         ALLOWED_IP' \subseteq ALLOWED_IP,
         NEW th \in Threads,
         pc'[th] \notin {"cache_allowed", "forward"},
         pc'[th] # "idle" => req'[th].t0 <= now,
         \A u \in Threads : u # th => pc'[u] = pc[u] /\ req'[u] = req[u]
  PROVE  PortInv'
<1>1. \A k \in Clients : answered[k] \in Int
  BY TimeoutAssumption DEF PortInv, Typed, TypeOK, Times, Never
<1>2. now \in Int
  BY TimeoutAssumption DEF PortInv, Typed, TypeOK, Times
<1>3. Later
  BY <1>1, <1>2 DEF Later
<1>4. AnswersPast' /\ RowsNamed' /\ CacheNamed'
  BY DEF PortInv, AnswersPast, RowsNamed, CacheNamed, Entitled
<1>5. ASSUME NEW u \in Threads PROVE PortThread(u)'
  <2>1. CASE u = th
    BY <2>1 DEF PortThread
  <2>2. CASE u # th
    BY <1>3, <2>2, OthersPort DEF PortInv
  <2> QED BY <2>1, <2>2
<1> QED BY <1>4, <1>5 DEF PortInv

\* A thread moves, and the others keep their part: what is left to show.
LEMMA MovePort ==
  ASSUME PortInv, Typed', Later, NEW th \in Threads,
         \A u \in Threads : u # th => pc'[u] = pc[u] /\ req'[u] = req[u],
         AnswersPast', RowsNamed', CacheNamed', PortThread(th)'
  PROVE  PortInv'
<1>1. ASSUME NEW u \in Threads PROVE PortThread(u)'
  <2>1. CASE u = th
    BY <2>1
  <2>2. CASE u # th
    BY <2>2, OthersPort DEF PortInv
  <2> QED BY <2>1, <2>2
<1> QED BY <1>1 DEF PortInv

\* The frame of a step of th, and of a step that ends its request.
LEMMA FramePort ==
  ASSUME Typed, NEW th \in Threads, NEW label,
         Goto(th, label) \/ Done(th)
  PROVE  \A u \in Threads : u # th => pc'[u] = pc[u] /\ req'[u] = req[u]
  BY DEF Goto, Done, Typed, TypeOK

LEMMA PagePort ==
  ASSUME PortInv, Typed', NEW th \in Threads, PageStep(th)
  PROVE  PortInv'
<1> USE DEF tables, cache, history
<1> DEFINE k == Client(th)
<1>t. /\ Typed /\ PortThread(th) /\ now \in Int
      /\ \A c \in Clients : answered[c] \in Int
  BY TimeoutAssumption DEF PortInv, Typed, TypeOK, Times, Never
<1>i. pc \in [Threads -> Pc]
  BY DEF PortInv, Typed, TypeOK
<1>1. CASE CacheLookup(th)
  <2>0. /\ pc[th] = "cache" /\ k \in Clients /\ req[th].t0 \in Int
        /\ req[th].t0 <= now /\ req' = req /\ k' = k
        /\ UNCHANGED <<now, ALLOWED_IP, granted, answered>>
    BY <1>1, <1>t, RequestKnown DEF CacheLookup, Goto, Client, PortThread
  <2>1. CASE Goto(th, "cleanup_allowed")
    <3>1. pc'[th] = "cleanup_allowed"
      BY <2>1, <1>i DEF Goto
    <3>2. PortThread(th)'
      BY <2>0, <3>1 DEF PortThread
    <3>3. \A c \in Clients :
            cached_allowed'[c] # Never => cached_allowed'[c] = cached_allowed[c]
      BY <1>1, <2>0, <1>t DEF CacheLookup, Typed, TypeOK
    <3>4. CacheNamed'
      BY <2>0, <3>3 DEF PortInv, CacheNamed, Entitled
    <3>5. AnswersPast' /\ RowsNamed' /\ Later
      BY <2>0, <1>t DEF PortInv, AnswersPast, RowsNamed, Later
    <3> QED BY <1>t, <2>1, <3>2, <3>4, <3>5, FramePort, MovePort
  <2>2. CASE /\ Goto(th, "forward") /\ UNCHANGED cached_allowed
             /\ cached_allowed[Client(th)] # Never
             /\ req[th].t0 - cached_allowed[Client(th)] <= CachedTimeout
    <3>1. pc'[th] = "forward"
      BY <2>2, <1>i DEF Goto
    <3>2. cached_allowed[k] \in Times
      BY <2>0, <2>2, <1>t DEF Typed, TypeOK
    <3>3. req[th].t0 <= cached_allowed[k] + CachedTimeout
      BY <2>0, <2>2, <3>2, TimeoutAssumption DEF Times
    <3>4. Entitled(k, cached_allowed[k])
      BY <2>0, <2>2 DEF PortInv, CacheNamed
    <3>5. Entitled(Client(th), cached_allowed[k])'
      BY <2>0, <2>2, <3>4 DEF Entitled
    <3>6. PortThread(th)'
      BY <2>0, <2>2, <3>1, <3>2, <3>3, <3>5 DEF PortThread
    <3>7. AnswersPast' /\ RowsNamed' /\ CacheNamed' /\ Later
      BY <2>0, <2>2, <1>t
      DEF PortInv, AnswersPast, RowsNamed, CacheNamed, Entitled, Later
    <3> QED BY <1>t, <2>2, <3>6, <3>7, FramePort, MovePort
  <2> QED BY <1>1, <2>1, <2>2 DEF CacheLookup
<1>2. CASE CleanupAllowed(th)
  <2>1. /\ pc'[th] = "is_allowed" /\ req' = req /\ pc[th] # "idle"
        /\ UNCHANGED <<now, cached_allowed, granted, answered>>
        /\ ALLOWED_IP' \subseteq ALLOWED_IP
        /\ Goto(th, "is_allowed")
    BY <1>2, <1>i DEF CleanupAllowed, Goto
  <2> QED BY <1>t, <2>1, FramePort, PlainPort DEF PortThread
<1>3. CASE IsAllowed(th)
  <2>0. /\ pc[th] = "is_allowed" /\ req[th].t0 <= now /\ k \in Clients
        /\ UNCHANGED <<now, ALLOWED_IP, cached_allowed, granted, answered>>
    BY <1>3, <1>t, RequestKnown DEF IsAllowed, PortThread
  <2>1. CASE Goto(th, "cleanup_ids")
    <3>1. pc'[th] = "cleanup_ids" /\ req' = req
      BY <2>1, <1>i DEF Goto
    <3> QED BY <1>t, <2>0, <2>1, <3>1, FramePort, PlainPort
  <2>2. CASE /\ Goto(th, "cache_allowed")
             /\ \E r \in ALLOWED_IP : <<r.ip, r.port>> = Client(th)
    <3>1. pc'[th] = "cache_allowed" /\ req' = req /\ k' = k
      BY <2>2, <1>i DEF Goto, Client
    <3>2. granted[k] # Never
      BY <2>2 DEF PortInv, RowsNamed
    <3>3. PortThread(th)'
      BY <2>0, <3>1, <3>2 DEF PortThread
    <3>4. AnswersPast' /\ RowsNamed' /\ CacheNamed' /\ Later
      BY <2>0, <1>t
      DEF PortInv, AnswersPast, RowsNamed, CacheNamed, Entitled, Later
    <3> QED BY <1>t, <2>2, <3>3, <3>4, FramePort, MovePort
  <2> QED BY <1>3, <2>1, <2>2 DEF IsAllowed
<1>4. CASE CacheAllowed(th)
  <2>0. /\ pc[th] = "cache_allowed" /\ req[th].t0 <= now /\ k \in Clients
        /\ req[th].t0 \in Times /\ req[th].t0 \in Int
        /\ req' = req /\ k' = k /\ granted[k] # Never
        /\ UNCHANGED <<now, ALLOWED_IP, granted, answered>>
        /\ pc'[th] = "forward" /\ Goto(th, "forward")
    BY <1>4, <1>i, <1>t, RequestKnown DEF CacheAllowed, PortThread, Goto, Client
  <2>1. \A c \in Clients : c # k => cached_allowed'[c] = cached_allowed[c]
    BY <1>4, <1>t DEF CacheAllowed, CacheInsert, Typed, TypeOK
  <2>2. CacheNamed'
    BY <2>0, <2>1 DEF PortInv, CacheNamed, Entitled
  <2>3. PortThread(th)'
    BY <2>0, TimeoutAssumption DEF PortThread, Entitled
  <2>4. AnswersPast' /\ RowsNamed' /\ Later
    BY <2>0, <1>t DEF PortInv, AnswersPast, RowsNamed, Later
  <2> QED BY <1>t, <2>0, <2>2, <2>3, <2>4, FramePort, MovePort
<1>5. CASE CleanupIdToPorts(th)
  <2>1. /\ pc'[th] = "seq_read" /\ req' = req /\ pc[th] # "idle"
        /\ UNCHANGED <<now, ALLOWED_IP, cached_allowed, granted, answered>>
        /\ Goto(th, "seq_read")
    BY <1>5, <1>i DEF CleanupIdToPorts, Goto
  <2> QED BY <1>t, <2>1, FramePort, PlainPort DEF PortThread
<1>6. CASE InsertIdToPort(th)
  <2>1. /\ pc'[th] \in {"issued", "idle"} /\ pc[th] # "idle"
        /\ pc'[th] # "idle" => req' = req
        /\ UNCHANGED <<now, ALLOWED_IP, cached_allowed, granted, answered>>
        /\ Goto(th, "issued") \/ Done(th)
    BY <1>6, <1>i DEF InsertIdToPort, Goto, Done
  <2> QED BY <1>t, <2>1, FramePort, PlainPort DEF PortThread
<1> QED BY <1>1, <1>2, <1>3, <1>4, <1>5, <1>6 DEF PageStep

LEMMA IdJsPort ==
  ASSUME PortInv, Typed', NEW th \in Threads, IdStep(th) \/ JsStep(th)
  PROVE  PortInv'
<1> USE DEF tables, cache, history, Fails
<1>t. Typed /\ PortThread(th) /\ pc \in [Threads -> Pc]
  BY DEF PortInv, Typed, TypeOK
<1> DEFINE Same ==
      /\ UNCHANGED <<now, ALLOWED_IP, cached_allowed, granted, answered>>
      /\ pc[th] # "idle"
    Moves ==
      \/ Done(th)
      \/ \E label \in Pc \ {"idle", "cache_allowed", "forward"} : Goto(th, label)
<1>1. ASSUME IdStep(th) PROVE Same /\ Moves
  BY <1>1 DEF IdStep, SeqRead, SeqWrite, Exists, Pc
<1>2. ASSUME JsStep(th) PROVE Same /\ Moves
  BY <1>2 DEF JsStep, CleanupChallenges, ReadPort, DeleteId,
              InsertChallenge, Pc
<1>3. Same /\ Moves
  BY <1>1, <1>2
<1>4. CASE Done(th)
  <2>1. pc'[th] = "idle"
    BY <1>4, <1>t DEF Done
  <2> QED BY <1>t, <1>3, <1>4, <2>1, FramePort, PlainPort
<1>5. ASSUME NEW label \in Pc \ {"idle", "cache_allowed", "forward"},
             Goto(th, label)
      PROVE  PortInv'
  <2>1. pc'[th] = label /\ req' = req
    BY <1>5, <1>t DEF Goto
  <2> QED BY <1>t, <1>3, <1>5, <2>1, FramePort, PlainPort DEF PortThread
<1> QED BY <1>3, <1>4, <1>5

LEMMA ApiPort ==
  ASSUME PortInv, Typed', NEW th \in Threads, ApiStep(th)
  PROVE  PortInv'
<1> USE DEF tables, cache, history, Fails
<1> DEFINE k == Client(th)
<1>t. /\ Typed /\ PortThread(th) /\ now \in Int /\ now # Never
      /\ \A c \in Clients : answered[c] \in Int
      /\ pc \in [Threads -> Pc]
  BY TimeoutAssumption DEF PortInv, Typed, TypeOK, Times, Never
<1>1. CASE ReadChallenge(th) \/ DeleteChallenge(th)
  <2>1. /\ UNCHANGED <<now, ALLOWED_IP, cached_allowed, granted, answered>>
        /\ pc[th] # "idle"
        /\ \/ Done(th) \/ Goto(th, "delete_challenge")
           \/ Goto(th, "insert_allowed")
    BY <1>1 DEF ReadChallenge, DeleteChallenge
  <2>2. /\ pc'[th] \in {"idle", "delete_challenge", "insert_allowed"}
        /\ pc'[th] # "idle" => req' = req
    BY <1>t, <2>1 DEF Done, Goto
  <2> QED BY <1>t, <2>1, <2>2, FramePort, PlainPort DEF PortThread
<1>2. CASE InsertAllowed(th)
  <2>1. CASE Fails(th, "insert_allowed") /\ UNCHANGED granted
    <3>1. /\ UNCHANGED <<now, ALLOWED_IP, cached_allowed, granted, answered>>
          /\ Done(th) /\ pc'[th] = "idle"
      BY <1>2, <1>t, <2>1 DEF InsertAllowed, Done
    <3> QED BY <1>t, <3>1, FramePort, PlainPort
  <2>2. CASE ~(Fails(th, "insert_allowed") /\ UNCHANGED granted)
    <3> DEFINE new == [ip |-> req[th].ip, port |-> loc[th].port, at |-> now]
               g == <<req[th].ip, loc[th].port>>
    <3>1. /\ ALLOWED_IP' = ALLOWED_IP \cup {new}
          /\ granted' = [granted EXCEPT ![g] = now]
          /\ Goto(th, "cache_correct")
          /\ UNCHANGED <<now, cached_allowed, answered>>
          /\ pc[th] = "insert_allowed"
      BY <1>2, <2>2 DEF InsertAllowed
    <3>2. pc'[th] = "cache_correct" /\ req' = req
      BY <1>t, <3>1 DEF Goto
    <3>3. g \in Clients /\ <<new.ip, new.port>> = g
      BY <1>t, <3>1 DEF Typed, ThreadOK, Requests, Clients
    <3>4. granted \in [Clients -> Times \cup {Never}]
      BY <1>t DEF Typed, TypeOK
    <3> HIDE DEF new, g
    <3>5. /\ granted'[g] # Never
          /\ \A c \in Clients : granted[c] # Never => granted'[c] # Never
      BY <1>t, <3>1, <3>3, <3>4
    <3>6. RowsNamed'
      <4> SUFFICES ASSUME NEW r \in ALLOWED_IP'
                   PROVE  granted'[<<r.ip, r.port>>] # Never
        BY DEF RowsNamed
      <4>1. CASE r = new
        BY <3>3, <3>5, <4>1
      <4>2. CASE r \in ALLOWED_IP
        <5>1. <<r.ip, r.port>> \in Clients
          BY <1>t, <4>2 DEF Typed, TypeOK, Clients
        <5> QED BY <3>5, <4>2, <5>1 DEF PortInv, RowsNamed
      <4> QED BY <3>1, <4>1, <4>2
    <3>7. Later
      BY <1>t, <3>1, <3>5 DEF Later
    <3>8. AnswersPast' /\ CacheNamed'
      BY <3>1, <3>5 DEF PortInv, AnswersPast, CacheNamed, Entitled
    <3>9. PortThread(th)'
      BY <1>t, <3>1, <3>2 DEF PortThread
    <3> QED BY <1>t, <3>1, <3>6, <3>7, <3>8, <3>9, FramePort, MovePort
  <2> QED BY <2>1, <2>2
<1>3. CASE CacheCorrect(th)
  <2>0. /\ pc[th] = "cache_correct" /\ req[th].t0 <= now /\ k \in Clients
        /\ req[th].t0 \in Int /\ req' = req
        /\ UNCHANGED <<now, ALLOWED_IP, granted>>
        /\ answered' = [answered EXCEPT ![k] = now]
        /\ pc'[th] = "correct" /\ Goto(th, "correct")
    BY <1>3, <1>t, RequestKnown DEF CacheCorrect, PortThread, Goto
  <2>1. /\ answered'[k] = now
        /\ \A c \in Clients : c # k => answered'[c] = answered[c]
    BY <2>0, <1>t DEF Typed, TypeOK
  <2>2. \A c \in Clients : answered[c] <= now
    BY DEF PortInv, AnswersPast
  <2>3. Later /\ AnswersPast'
    BY <1>t, <2>0, <2>1, <2>2 DEF Later, AnswersPast
  <2>4. /\ \A c \in Clients : c # k => cached_allowed'[c] = cached_allowed[c]
        /\ cached_allowed'[k] \in {cached_allowed[k], req[th].t0}
    BY <1>3, <1>t, <2>0 DEF CacheCorrect, CacheInsert, Typed, TypeOK
  <2>5. ASSUME NEW c \in Clients, cached_allowed'[c] # Never
        PROVE  Entitled(c, cached_allowed[c])'
    <3>1. CASE cached_allowed'[c] = cached_allowed[c]
      <4>1. cached_allowed[c] \in Times
        BY <1>t, <2>5, <3>1 DEF Typed, TypeOK
      <4>2. Entitled(c, cached_allowed[c])
        BY <2>5, <3>1 DEF PortInv, CacheNamed
      <4>3. \/ granted'[c] # Never
            \/ answered'[c] # Never /\ cached_allowed[c] <= answered'[c]
        <5>1. /\ answered[c] \in Int /\ answered'[c] \in Int
              /\ cached_allowed[c] \in Int
          BY <1>t, <2>0, <2>1, <4>1, TimeoutAssumption DEF Times
        <5> QED BY <2>0, <2>3, <4>2, <5>1 DEF Entitled, Later
      <4> QED BY <3>1, <4>3 DEF Entitled
    <3>2. CASE c = k /\ cached_allowed'[c] = req[th].t0
      BY <1>t, <2>0, <2>1, <3>2 DEF Entitled
    <3> QED BY <2>4, <3>1, <3>2
  <2>6. CacheNamed' /\ RowsNamed'
    BY <2>0, <2>5 DEF CacheNamed, PortInv, RowsNamed
  <2>7. PortThread(th)'
    BY <2>0 DEF PortThread
  <2> QED BY <1>t, <2>0, <2>3, <2>6, <2>7, FramePort, MovePort
<1> QED BY <1>1, <1>2, <1>3 DEF ApiStep

LEMMA NextPort == PortInv /\ [Next]_vars => PortInv'
<1> SUFFICES ASSUME PortInv, [Next]_vars PROVE PortInv'
  OBVIOUS
<1> USE DEF tables, cache, history
<1>t. /\ Typed' /\ Typed /\ now \in Int
      /\ \A c \in Clients : answered[c] \in Int
  BY NextTyped, TimeoutAssumption DEF PortInv, Typed, TypeOK, Times, Never
<1> DEFINE Idle == \A u \in Threads : pc'[u] = "idle"
           Stay == UNCHANGED <<pc, req>>
           Keeps == /\ UNCHANGED <<ALLOWED_IP, granted, answered>>
                    /\ now <= now'
                    /\ \A c \in Clients : cached_allowed'[c] # Never =>
                         cached_allowed'[c] = cached_allowed[c]
<1>0. ASSUME Keeps, Idle \/ Stay PROVE PortInv'
  <2>1. Later
    BY <1>0, <1>t DEF Later
  <2>2. RowsNamed' /\ CacheNamed'
    BY <1>0 DEF PortInv, RowsNamed, CacheNamed, Entitled
  <2>3. AnswersPast'
    <3>1. now' \in Int
      BY <1>t, TimeoutAssumption DEF Typed, TypeOK, Times
    <3> QED BY <1>0, <1>t, <3>1 DEF PortInv, AnswersPast
  <2>4. ASSUME NEW u \in Threads PROVE PortThread(u)'
    <3>1. CASE Idle
      BY <3>1 DEF PortThread
    <3>2. CASE Stay
      BY <1>t, <2>1, <3>2, OthersPort DEF PortInv
    <3> QED BY <1>0, <3>1, <3>2
  <2> QED BY <1>t, <2>2, <2>3, <2>4 DEF PortInv
<1>1. ASSUME NEW th \in Threads, ThreadStep(th) PROVE PortInv'
  <2>1. CASE PageStep(th)
    BY <1>t, <2>1, PagePort
  <2>2. CASE IdStep(th) \/ JsStep(th)
    BY <1>t, <2>2, IdJsPort
  <2>3. CASE ApiStep(th)
    BY <1>t, <2>3, ApiPort
  <2>4. CASE Reply(th)
    <3>1. /\ UNCHANGED <<now, ALLOWED_IP, cached_allowed, granted, answered>>
          /\ Done(th) /\ pc'[th] = "idle"
      BY <1>t, <2>4 DEF Reply, Done, Typed, TypeOK
    <3> QED BY <1>t, <3>1, FramePort, PlainPort
  <2> QED BY <1>1, <2>1, <2>2, <2>3, <2>4 DEF ThreadStep
<1>2. ASSUME NEW th \in Threads, NEW kind \in {"page", "js", "api"},
             NEW ip \in IPs, NEW port \in Ports, NEW id \in Ids \cup {NoId},
             Arrive(th, kind, ip, port, id)
      PROVE  PortInv'
  <2>1. /\ UNCHANGED <<now, ALLOWED_IP, cached_allowed, granted, answered>>
        /\ pc' = [pc EXCEPT ![th] = FirstStep(kind)]
        /\ req' = [req EXCEPT ![th] = [kind |-> kind, ip |-> ip,
                                       port |-> port, id |-> id, t0 |-> now]]
    BY <1>2 DEF Arrive
  <2>2. FirstStep(kind) \in {"cache", "cleanup_challenges", "read_challenge"}
    BY DEF FirstStep
  <2>3. /\ pc'[th] \notin {"cache_allowed", "forward"}
        /\ req'[th].t0 = now
        /\ \A u \in Threads : u # th => pc'[u] = pc[u] /\ req'[u] = req[u]
    BY <1>t, <2>1, <2>2 DEF Typed, TypeOK
  <2> QED BY <1>t, <2>1, <2>3, PlainPort
<1>3. ASSUME ClearCache PROVE PortInv'
  <2>1. Keeps /\ Stay
    BY <1>3, <1>t DEF ClearCache
  <2> QED BY <1>0, <2>1
<1>4. ASSUME Tick PROVE PortInv'
  <2>1. Keeps /\ Stay
    BY <1>4, <1>t DEF Tick
  <2> QED BY <1>0, <2>1
<1>5. ASSUME Crash PROVE PortInv'
  <2>1. Keeps /\ Idle
    BY <1>5, <1>t DEF Crash
  <2> QED BY <1>0, <2>1
<1>6. ASSUME UNCHANGED vars PROVE PortInv'
  <2>1. Keeps /\ Stay
    BY <1>6, <1>t DEF vars
  <2> QED BY <1>0, <2>1
<1> QED BY <1>1, <1>2, <1>3, <1>4, <1>5, <1>6 DEF Next

\* For any number of threads, clients and ports, any timeouts, failing
\* statements (the cleanup of ALLOWED_IP among them) and restarts, a client is
\* forwarded on a port that it was granted, or on one where it posted a good
\* answer no longer than CachedTimeout ago.
THEOREM PortsAreOwn == Spec => []OwnPort
<1>1. Init => PortInv
  <2> SUFFICES ASSUME Init PROVE PortInv
    OBVIOUS
  <2>1. Typed
    BY InitTyped
  <2>2. AnswersPast
    BY DEF Init, AnswersPast, Never
  <2>3. RowsNamed /\ CacheNamed /\ \A th \in Threads : PortThread(th)
    BY DEF Init, RowsNamed, CacheNamed, PortThread
  <2> QED BY <2>1, <2>2, <2>3 DEF PortInv
<1>2. PortInv => OwnPort
  <2> SUFFICES ASSUME PortInv, NEW th \in Threads, pc[th] = "forward",
                      granted[Client(th)] = Never
               PROVE  /\ answered[Client(th)] # Never
                      /\ req[th].t0 <= answered[Client(th)] + CachedTimeout
    BY DEF OwnPort
  <2>1. PICK t \in Times : /\ Entitled(Client(th), t)
                           /\ req[th].t0 <= t + CachedTimeout
    BY DEF PortInv, PortThread
  <2>2. Client(th) \in Clients /\ req[th].t0 \in Int
    BY RequestKnown DEF PortInv
  <2>3. answered[Client(th)] \in Int /\ t \in Int
    BY <2>2, TimeoutAssumption DEF PortInv, Typed, TypeOK, Times, Never
  <2>4. answered[Client(th)] # Never /\ t <= answered[Client(th)]
    BY <2>1 DEF Entitled
  <2> QED BY <2>1, <2>2, <2>3, <2>4, TimeoutAssumption
<1> QED BY <1>1, <1>2, NextPort, PTL DEF Spec

-----------------------------------------------------------------------------
(* The invariant behind the refinement of AccessGate.                      *)

\* A request of ip that arrived at time t arrived no later than
\* AllowedTimeout after a grant.
Covered(ip, t) ==
  \E port \in Ports :
    /\ granted[<<ip, port>>] # Never
    /\ t <= granted[<<ip, port>>] + AllowedTimeout

\* What holds of the tables and of the cache.
GrantsPast == \A k \in Clients : granted[k] <= now

RowsGranted ==
  \A r \in ALLOWED_IP :
    /\ granted[<<r.ip, r.port>>] # Never
    /\ r.at <= granted[<<r.ip, r.port>>]

CacheCovered ==
  \A k \in Clients :
    cached_allowed[k] # Never => Covered(k[1], cached_allowed[k])

RowsChallenged ==
  \A r \in CHALLENGE_FACTOR : <<r.ip, r.port>> \in challenged

SharedInv == GrantsPast /\ RowsGranted /\ CacheCovered /\ RowsChallenged

\* What holds of the request of a thread.
ThreadInv(th) ==
  /\ pc[th] # "idle" => req[th].t0 <= now
  /\ pc[th] = "is_allowed" =>
       \A r \in ALLOWED_IP : req[th].t0 <= r.at + AllowedTimeout
  /\ pc[th] \in {"cache_allowed", "cache_correct"} =>
       Covered(req[th].ip, req[th].t0)
  /\ pc[th] \in {"delete_challenge", "insert_allowed"} =>
       <<req[th].ip, loc[th].port>> \in challenged

IInv == Typed /\ SharedInv /\ \A th \in Threads : ThreadInv(th)

\* Steps of other threads that a thread does not mind.
Mild ==
  /\ now' = now
  /\ challenged \subseteq challenged'
  /\ \A r \in ALLOWED_IP' : r \in ALLOWED_IP \/ r.at = now
  /\ \A k \in Clients :
       granted[k] # Never => granted'[k] # Never /\ granted[k] <= granted'[k]

LEMMA CoveredGrows ==
  ASSUME Typed, Typed', Mild, NEW ip \in IPs, NEW t \in Times, Covered(ip, t)
  PROVE  Covered(ip, t)'
<1>1. PICK port \in Ports : /\ granted[<<ip, port>>] # Never
                            /\ t <= granted[<<ip, port>>] + AllowedTimeout
  BY DEF Covered
<1> DEFINE k == <<ip, port>>
<1>2. k \in Clients
  BY DEF Clients
<1>3. granted'[k] # Never /\ granted[k] <= granted'[k]
  BY <1>1, <1>2 DEF Mild
<1>4. granted[k] \in Int /\ granted'[k] \in Int
  BY <1>2, TimeoutAssumption DEF Typed, TypeOK, Times, Never
<1>5. t <= granted'[k] + AllowedTimeout
  BY <1>1, <1>3, <1>4, TimeoutAssumption DEF Times
<1> QED BY <1>3, <1>5 DEF Covered

LEMMA OthersKeep ==
  ASSUME IInv, Typed', Mild, NEW u \in Threads,
         pc'[u] = pc[u], req'[u] = req[u], loc'[u] = loc[u]
  PROVE  ThreadInv(u)'
<1> USE DEF IInv
<1>0. pc[u] # "idle" => req[u].ip \in IPs /\ req[u].t0 \in Times
  BY DEF Typed, ThreadOK, Requests
<1>1. pc[u] # "idle" => req'[u].t0 <= now'
  BY DEF ThreadInv, Mild
<1>2. pc[u] = "is_allowed" =>
        \A r \in ALLOWED_IP' : req'[u].t0 <= r.at + AllowedTimeout
  <2> SUFFICES ASSUME pc[u] = "is_allowed", NEW r \in ALLOWED_IP'
               PROVE  req[u].t0 <= r.at + AllowedTimeout
    OBVIOUS
  <2>1. CASE r \in ALLOWED_IP
    BY <2>1 DEF ThreadInv
  <2>2. CASE r.at = now
    <3>1. req[u].t0 <= now
      BY DEF ThreadInv
    <3>2. req[u].t0 \in Int /\ now \in Int /\ AllowedTimeout \in Nat
      BY <1>0, TimeoutAssumption DEF Typed, TypeOK, Times
    <3> QED BY <2>2, <3>1, <3>2
  <2> QED BY <2>1, <2>2 DEF Mild
<1>3. pc[u] \in {"cache_allowed", "cache_correct"} =>
        Covered(req[u].ip, req[u].t0)'
  <2> SUFFICES ASSUME pc[u] \in {"cache_allowed", "cache_correct"}
               PROVE  Covered(req[u].ip, req[u].t0)'
    OBVIOUS
  <2>1. Covered(req[u].ip, req[u].t0)
    BY DEF ThreadInv
  <2>2. req[u].ip \in IPs /\ req[u].t0 \in Times
    BY <1>0
  <2>3. PICK i \in IPs, tt \in Times : i = req[u].ip /\ tt = req[u].t0
    BY <2>2
  <2>4. Covered(i, tt)'
    BY <2>1, <2>3, CoveredGrows
  <2> QED BY <2>3, <2>4 DEF Covered
<1>4. pc[u] \in {"delete_challenge", "insert_allowed"} =>
        <<req'[u].ip, loc'[u].port>> \in challenged'
  BY DEF ThreadInv, Mild
<1> QED BY <1>1, <1>2, <1>3, <1>4 DEF ThreadInv

\* What keeps SharedInv, whatever happens to the requests.
LEMMA SharedKeep ==
  ASSUME IInv, Typed', now' = now, UNCHANGED granted,
         challenged \subseteq challenged',
         ALLOWED_IP' \subseteq ALLOWED_IP,
         \A r \in CHALLENGE_FACTOR' :
            r \in CHALLENGE_FACTOR \/ <<r.ip, r.port>> \in challenged',
         \A k \in Clients : \/ cached_allowed'[k] \in {cached_allowed[k], Never}
                            \/ Covered(k[1], cached_allowed'[k])
  PROVE  SharedInv' /\ Mild
<1> USE DEF IInv, SharedInv
<1>1. GrantsPast' /\ RowsGranted' /\ RowsChallenged'
  BY DEF GrantsPast, RowsGranted, RowsChallenged
<1>2. CacheCovered'
  BY DEF CacheCovered, Covered
<1>3. Mild
  BY TimeoutAssumption DEF Mild, Typed, TypeOK, Times, Never
<1> QED BY <1>1, <1>2, <1>3

\* A step of thread th after which it is at none of the points ThreadInv
\* speaks of.
LEMMA PlainStep ==
  ASSUME IInv, Typed', Mild, NEW th \in Threads,
         pc'[th] \notin {"is_allowed", "cache_allowed", "cache_correct",
                         "delete_challenge", "insert_allowed"},
         pc'[th] = "idle" \/ req'[th].t0 <= now,
         \A u \in Threads \ {th} : /\ pc'[u] = pc[u] /\ req'[u] = req[u]
                                   /\ loc'[u] = loc[u]
  PROVE  \A u \in Threads : ThreadInv(u)'
<1>1. ThreadInv(th)'
  BY DEF ThreadInv, Mild
<1>2. ASSUME NEW u \in Threads \ {th} PROVE ThreadInv(u)'
  BY <1>2, OthersKeep
<1> QED BY <1>1, <1>2

LEMMA DoneInv ==
  ASSUME IInv, Typed', NEW th \in Threads, Done(th),
         UNCHANGED <<now, tables, cache, history>>
  PROVE  IInv'
<1>1. SharedInv' /\ Mild
  BY SharedKeep DEF tables, cache, history
<1>2. \A u \in Threads : ThreadInv(u)'
  BY <1>1, PlainStep DEF Done, IInv, Typed, TypeOK
<1> QED BY <1>1, <1>2 DEF IInv

LEMMA PageInv ==
  ASSUME "cleanup_allowed" \notin MayFail,
         IInv, Typed', NEW th \in Threads, PageStep(th)
  PROVE  IInv'
<1> USE DEF Goto, tables, cache, history
<1>0. /\ pc[th] # "idle" /\ req[th] \in Requests /\ req[th].t0 <= now
      /\ Client(th) \in Clients /\ Client(th)[1] = req[th].ip
      /\ pc \in [Threads -> Pc]
      /\ req \in [Threads -> Requests \cup {NoRequest}]
      /\ cached_allowed \in [Clients -> Times \cup {Never}]
  <2>1. pc[th] # "idle"
    BY DEF PageStep, CacheLookup, CleanupAllowed, IsAllowed, CacheAllowed,
           CleanupIdToPorts, InsertIdToPort
  <2>2. req[th] \in Requests /\ req[th].t0 <= now
    BY <2>1 DEF IInv, Typed, ThreadOK, ThreadInv
  <2>3. Client(th) \in Clients /\ Client(th)[1] = req[th].ip
    BY <2>2 DEF Client, Clients, Requests
  <2> QED BY <2>1, <2>2, <2>3 DEF IInv, Typed, TypeOK
<1>1. CASE CacheLookup(th)
  <2>1. \A k \in Clients : cached_allowed'[k] \in {cached_allowed[k], Never}
    BY <1>0, <1>1 DEF CacheLookup
  <2>2. SharedInv' /\ Mild
    BY <1>1, <2>1, SharedKeep DEF CacheLookup
  <2>3. pc'[th] \in {"cleanup_allowed", "forward"} /\ UNCHANGED <<req, loc>>
        /\ \A u \in Threads \ {th} : pc'[u] = pc[u]
    BY <1>0, <1>1 DEF CacheLookup
  <2>4. \A u \in Threads : ThreadInv(u)'
    BY <1>0, <2>2, <2>3, PlainStep
  <2> QED BY <2>2, <2>4 DEF IInv
<1>2. CASE CleanupAllowed(th)
  <2>1. ALLOWED_IP' = {r \in ALLOWED_IP : r.at + AllowedTimeout >= now}
        /\ UNCHANGED <<now, SEQ_ID, ID_TO_PORT, CHALLENGE_FACTOR, cache, req,
                       loc, history>>
        /\ pc' = [pc EXCEPT ![th] = "is_allowed"]
    BY <1>2 DEF CleanupAllowed
  <2>2. SharedInv' /\ Mild
    BY <2>1, SharedKeep
  <2>3. ThreadInv(th)'
    <3>1. ASSUME NEW r \in ALLOWED_IP'
          PROVE  req[th].t0 <= r.at + AllowedTimeout
      <4>1. r.at + AllowedTimeout >= now /\ r.at \in Int
        BY <2>1 DEF IInv, Typed, TypeOK, Times
      <4>2. req[th].t0 \in Int /\ now \in Int
        BY <1>0 DEF IInv, Typed, TypeOK, Times, Requests
      <4> QED BY <1>0, <4>1, <4>2, TimeoutAssumption
    <3> QED BY <1>0, <2>1, <3>1 DEF ThreadInv
  <2>4. ASSUME NEW u \in Threads \ {th} PROVE ThreadInv(u)'
    BY <1>0, <2>1, <2>2, OthersKeep
  <2> QED BY <2>2, <2>3, <2>4 DEF IInv
<1>3. CASE IsAllowed(th)
  <2>1. SharedInv' /\ Mild
    BY <1>3, SharedKeep DEF IsAllowed
  <2>2. CASE pc' = [pc EXCEPT ![th] = "cleanup_ids"]
    <3>1. \A u \in Threads : ThreadInv(u)'
      BY <1>0, <1>3, <2>1, <2>2, PlainStep DEF IsAllowed
    <3> QED BY <2>1, <3>1 DEF IInv
  <2>3. CASE /\ pc' = [pc EXCEPT ![th] = "cache_allowed"]
             /\ \E r \in ALLOWED_IP : <<r.ip, r.port>> = Client(th)
    <3>1. PICK r \in ALLOWED_IP : <<r.ip, r.port>> = Client(th)
      BY <2>3
    <3>2. /\ granted[<<r.ip, r.port>>] # Never
          /\ r.at <= granted[<<r.ip, r.port>>]
          /\ r.port \in Ports /\ r.at \in Int /\ r.ip = req[th].ip
      BY <3>1 DEF IInv, SharedInv, RowsGranted, Typed, TypeOK, Times, Client
    <3>3. req[th].t0 <= r.at + AllowedTimeout
      BY <1>3 DEF IInv, ThreadInv, IsAllowed
    <3>4. granted[<<r.ip, r.port>>] \in Int /\ req[th].t0 \in Int
      BY <1>0, <3>1, TimeoutAssumption
      DEF IInv, Typed, TypeOK, Times, Never, Requests
    <3>5. Covered(req[th].ip, req[th].t0)
      BY <3>2, <3>3, <3>4, TimeoutAssumption DEF Covered
    <3>6. ThreadInv(th)'
      BY <1>0, <1>3, <2>3, <3>5 DEF IsAllowed, ThreadInv, Covered
    <3>7. ASSUME NEW u \in Threads \ {th} PROVE ThreadInv(u)'
      BY <1>0, <1>3, <2>1, <2>3, OthersKeep DEF IsAllowed
    <3> QED BY <2>1, <3>6, <3>7 DEF IInv
  <2> QED BY <1>3, <2>2, <2>3 DEF IsAllowed
<1>4. CASE CacheAllowed(th)
  <2>1. Covered(req[th].ip, req[th].t0)
    BY <1>4 DEF CacheAllowed, IInv, ThreadInv
  <2>2. \A k \in Clients : \/ cached_allowed'[k] = cached_allowed[k]
                           \/ Covered(k[1], cached_allowed'[k])
    BY <1>0, <1>4, <2>1 DEF CacheAllowed, CacheInsert
  <2>3. SharedInv' /\ Mild
    BY <1>4, <2>2, SharedKeep DEF CacheAllowed
  <2>4. \A u \in Threads : ThreadInv(u)'
    BY <1>0, <1>4, <2>3, PlainStep DEF CacheAllowed
  <2> QED BY <2>3, <2>4 DEF IInv
<1>5. CASE CleanupIdToPorts(th)
  <2>1. SharedInv' /\ Mild
    BY <1>5, SharedKeep DEF CleanupIdToPorts
  <2>2. \A u \in Threads : ThreadInv(u)'
    BY <1>0, <1>5, <2>1, PlainStep DEF CleanupIdToPorts
  <2> QED BY <2>1, <2>2 DEF IInv
<1>6. CASE InsertIdToPort(th)
  <2>1. SharedInv' /\ Mild
    BY <1>6, SharedKeep DEF InsertIdToPort
  <2>2. /\ pc'[th] \in {"idle", "issued"}
        /\ pc'[th] = "idle" \/ UNCHANGED req
        /\ \A u \in Threads \ {th} : /\ pc'[u] = pc[u] /\ req'[u] = req[u]
                                     /\ loc'[u] = loc[u]
    BY <1>0, <1>6 DEF InsertIdToPort, Done, IInv, Typed, TypeOK
  <2>3. \A u \in Threads : ThreadInv(u)'
    BY <1>0, <2>1, <2>2, PlainStep
  <2> QED BY <2>1, <2>3 DEF IInv
<1> QED BY <1>1, <1>2, <1>3, <1>4, <1>5, <1>6 DEF PageStep

LEMMA IdInv ==
  ASSUME IInv, Typed', NEW th \in Threads, IdStep(th)
  PROVE  IInv'
<1> USE DEF Goto, tables, cache, history, Fails
<1>0. pc[th] # "idle" /\ req[th].t0 <= now
  <2>1. pc[th] # "idle"
    BY DEF IdStep, SeqRead, SeqWrite, Exists
  <2> QED BY <2>1 DEF IInv, ThreadInv
<1>1. UNCHANGED <<now, ID_TO_PORT, CHALLENGE_FACTOR, ALLOWED_IP,
                  cached_allowed, challenged, granted>>
  BY DEF IdStep, SeqRead, SeqWrite, Exists
<1>2. /\ pc'[th] \in {"idle", "seq_read", "seq_write", "exists", "insert_id",
                      "insert_challenge"}
      /\ pc'[th] = "idle" \/ UNCHANGED req
      /\ \A u \in Threads \ {th} : /\ pc'[u] = pc[u] /\ req'[u] = req[u]
                                   /\ loc'[u] = loc[u]
  <2> USE DEF Done, IInv, Typed, TypeOK
  <2>1. CASE SeqRead(th)
    BY <2>1 DEF SeqRead
  <2>2. CASE SeqWrite(th)
    BY <2>2 DEF SeqWrite
  <2>3. CASE Exists(th)
    BY <2>3 DEF Exists
  <2> QED BY <2>1, <2>2, <2>3 DEF IdStep
<1>3. SharedInv' /\ Mild
  BY <1>1, SharedKeep
<1>4. \A u \in Threads : ThreadInv(u)'
  BY <1>0, <1>2, <1>3, PlainStep
<1> QED BY <1>3, <1>4 DEF IInv

LEMMA JsInv ==
  ASSUME IInv, Typed', NEW th \in Threads, JsStep(th)
  PROVE  IInv'
<1> USE DEF Goto, tables, cache, history, Fails
<1>0. pc[th] # "idle" /\ req[th].t0 <= now
  <2>1. pc[th] # "idle"
    BY DEF JsStep, CleanupChallenges, ReadPort, DeleteId, InsertChallenge
  <2> QED BY <2>1 DEF IInv, ThreadInv
<1>1. /\ UNCHANGED <<now, ALLOWED_IP, cached_allowed, granted>>
      /\ challenged \subseteq challenged'
      /\ \A r \in CHALLENGE_FACTOR' :
            r \in CHALLENGE_FACTOR \/ <<r.ip, r.port>> \in challenged'
  BY DEF JsStep, CleanupChallenges, ReadPort, DeleteId, InsertChallenge
<1>2. /\ pc'[th] \in {"idle", "read_port", "delete_id", "seq_read", "issued"}
      /\ pc'[th] = "idle" \/ UNCHANGED req
      /\ \A u \in Threads \ {th} : /\ pc'[u] = pc[u] /\ req'[u] = req[u]
                                   /\ loc'[u] = loc[u]
  <2> USE DEF Done, IInv, Typed, TypeOK
  <2>1. CASE CleanupChallenges(th)
    BY <2>1 DEF CleanupChallenges
  <2>2. CASE ReadPort(th)
    BY <2>2 DEF ReadPort
  <2>3. CASE DeleteId(th)
    BY <2>3 DEF DeleteId
  <2>4. CASE InsertChallenge(th)
    BY <2>4 DEF InsertChallenge
  <2> QED BY <2>1, <2>2, <2>3, <2>4 DEF JsStep
<1>3. SharedInv' /\ Mild
  BY <1>1, SharedKeep
<1>4. \A u \in Threads : ThreadInv(u)'
  BY <1>0, <1>2, <1>3, PlainStep
<1> QED BY <1>3, <1>4 DEF IInv

\* The INSERT into ALLOWED_IP, for a client that was challenged.
LEMMA GrantInv ==
  ASSUME IInv, Typed', NEW th \in Threads, NEW ip \in IPs, NEW port \in Ports,
         ip = req[th].ip, port = loc[th].port,
         pc[th] = "insert_allowed",
         ALLOWED_IP' = ALLOWED_IP \cup {[ip |-> ip, port |-> port,
                                         at |-> now]},
         granted' = [granted EXCEPT ![<<ip, port>>] = now],
         pc' = [pc EXCEPT ![th] = "cache_correct"],
         UNCHANGED <<now, CHALLENGE_FACTOR, cached_allowed, req, loc,
                     challenged>>
  PROVE  IInv'
<1> DEFINE k0 == <<ip, port>>
<1>0. /\ k0 \in Clients /\ now \in Nat /\ AllowedTimeout \in Nat
      /\ now # Never
      /\ \A k \in Clients : granted[k] \in Int
      /\ \A r \in ALLOWED_IP : <<r.ip, r.port>> \in Clients /\ r.at \in Int
      /\ granted \in [Clients -> Times \cup {Never}]
      /\ pc \in [Threads -> Pc]
  BY TimeoutAssumption
  DEF Clients, IInv, Typed, TypeOK, Times, Never
<1>1. /\ granted'[k0] = now
      /\ \A k \in Clients : k # k0 => granted'[k] = granted[k]
  BY <1>0
<1>2. GrantsPast'
  BY <1>0, <1>1 DEF IInv, SharedInv, GrantsPast
<1>3. Mild
  BY <1>0, <1>1 DEF Mild, IInv, SharedInv, GrantsPast
<1>4. RowsGranted'
  <2> SUFFICES ASSUME NEW r \in ALLOWED_IP'
               PROVE  /\ granted'[<<r.ip, r.port>>] # Never
                      /\ r.at <= granted'[<<r.ip, r.port>>]
    BY DEF RowsGranted
  <2>1. CASE r \in ALLOWED_IP
    <3>1. /\ granted[<<r.ip, r.port>>] # Never
          /\ r.at <= granted[<<r.ip, r.port>>]
          /\ <<r.ip, r.port>> \in Clients /\ r.at \in Int
      BY <1>0, <2>1 DEF IInv, SharedInv, RowsGranted
    <3>2. /\ granted'[<<r.ip, r.port>>] # Never
          /\ granted[<<r.ip, r.port>>] <= granted'[<<r.ip, r.port>>]
      BY <1>3, <3>1 DEF Mild
    <3>3. granted'[<<r.ip, r.port>>] \in Int
      BY <3>1, TimeoutAssumption DEF Typed, TypeOK, Times, Never
    <3> QED BY <1>0, <3>1, <3>2, <3>3
  <2>2. CASE r = [ip |-> ip, port |-> port, at |-> now]
    BY <1>0, <1>1, <2>2
  <2> QED BY <2>1, <2>2
<1>5. CacheCovered'
  <2> SUFFICES ASSUME NEW k \in Clients, cached_allowed[k] # Never
               PROVE  Covered(k[1], cached_allowed[k])'
    BY DEF CacheCovered
  <2>1. PICK i \in IPs, t \in Times : i = k[1] /\ t = cached_allowed[k]
    BY DEF IInv, Typed, TypeOK, Clients
  <2>2. Covered(i, t)
    BY <2>1 DEF IInv, SharedInv, CacheCovered
  <2>3. Covered(i, t)'
    BY <1>3, <2>2, CoveredGrows DEF IInv
  <2> QED BY <2>1, <2>3 DEF Covered
<1>6. RowsChallenged'
  BY DEF IInv, SharedInv, RowsChallenged
<1>7. ThreadInv(th)'
  <2>1. req[th].t0 <= now /\ req[th].t0 \in Int
    BY DEF IInv, ThreadInv, Typed, ThreadOK, Requests, Times
  <2>2. Covered(req[th].ip, req[th].t0)'
    BY <1>0, <1>1, <2>1 DEF Covered
  <2> QED BY <1>0, <2>1, <2>2 DEF ThreadInv, Covered
<1>8. ASSUME NEW u \in Threads \ {th} PROVE ThreadInv(u)'
  BY <1>0, <1>3, OthersKeep
<1> QED BY <1>2, <1>4, <1>5, <1>6, <1>7, <1>8 DEF IInv, SharedInv

LEMMA ApiInv ==
  ASSUME IInv, Typed', NEW th \in Threads, ApiStep(th)
  PROVE  IInv'
<1> USE DEF Goto, tables, cache, history
<1>0. /\ pc[th] # "idle" /\ req[th] \in Requests /\ req[th].t0 <= now
      /\ Client(th) \in Clients /\ Client(th)[1] = req[th].ip
      /\ pc \in [Threads -> Pc]
      /\ loc \in [Threads -> Locals]
      /\ cached_allowed \in [Clients -> Times \cup {Never}]
  <2>1. pc[th] # "idle"
    BY DEF ApiStep, ReadChallenge, DeleteChallenge, InsertAllowed, CacheCorrect
  <2>2. req[th] \in Requests /\ req[th].t0 <= now
    BY <2>1 DEF IInv, Typed, ThreadOK, ThreadInv
  <2>3. Client(th) \in Clients /\ Client(th)[1] = req[th].ip
    BY <2>2 DEF Client, Clients, Requests
  <2> QED BY <2>1, <2>2, <2>3 DEF IInv, Typed, TypeOK
<1>1. CASE ReadChallenge(th)
  <2>0. SharedInv' /\ Mild
    BY <1>1, SharedKeep DEF ReadChallenge
  <2>1. CASE Done(th)
    BY <1>1, <2>1, DoneInv DEF ReadChallenge
  <2>2. ASSUME NEW r \in CHALLENGE_FACTOR,
               r.ip = req[th].ip,
               loc' = [loc EXCEPT ![th].port = r.port, ![th].at = r.at],
               pc' = [pc EXCEPT ![th] = "delete_challenge"],
               UNCHANGED req
        PROVE  IInv'
    <3>1. loc'[th].port = r.port /\ \A u \in Threads \ {th} : loc'[u] = loc[u]
      BY <1>0, <2>2 DEF Locals
    <3>2. <<req[th].ip, loc'[th].port>> \in challenged
      BY <2>2, <3>1 DEF IInv, SharedInv, RowsChallenged
    <3>3. ThreadInv(th)'
      BY <1>0, <1>1, <2>2, <3>2 DEF ReadChallenge, ThreadInv
    <3>4. ASSUME NEW u \in Threads \ {th} PROVE ThreadInv(u)'
      BY <1>0, <2>0, <2>2, <3>1, OthersKeep
    <3> QED BY <2>0, <3>3, <3>4 DEF IInv
  <2> QED BY <1>1, <2>1, <2>2 DEF ReadChallenge, Fails
<1>2. CASE DeleteChallenge(th)
  <2>1. CASE Fails(th, "delete_challenge")
    BY <1>2, <2>1, DoneInv DEF DeleteChallenge, Fails
  <2>2. CASE ~Fails(th, "delete_challenge")
    <3>1. SharedInv' /\ Mild
      BY <1>2, <2>2, SharedKeep DEF DeleteChallenge
    <3>2. ThreadInv(th)'
      BY <1>0, <1>2, <2>2 DEF DeleteChallenge, ThreadInv, IInv
    <3>3. ASSUME NEW u \in Threads \ {th} PROVE ThreadInv(u)'
      BY <1>0, <1>2, <2>2, <3>1, OthersKeep DEF DeleteChallenge
    <3> QED BY <3>1, <3>2, <3>3 DEF IInv
  <2> QED BY <2>1, <2>2
<1>3. CASE InsertAllowed(th)
  <2>1. CASE Fails(th, "insert_allowed") /\ UNCHANGED granted
    BY <1>3, <2>1, DoneInv DEF InsertAllowed, Fails
  <2>2. CASE ~(Fails(th, "insert_allowed") /\ UNCHANGED granted)
    <3>1. req[th].ip \in IPs /\ loc[th].port \in Ports
      BY <1>0, <1>3 DEF Requests, IInv, Typed, ThreadOK, InsertAllowed
    <3> QED BY <1>3, <2>2, <3>1, GrantInv DEF InsertAllowed
  <2> QED BY <2>1, <2>2
<1>4. CASE CacheCorrect(th)
  <2>1. Covered(req[th].ip, req[th].t0)
    BY <1>4 DEF CacheCorrect, IInv, ThreadInv
  <2>2. \A k \in Clients : \/ cached_allowed'[k] = cached_allowed[k]
                           \/ Covered(k[1], cached_allowed'[k])
    BY <1>0, <1>4, <2>1 DEF CacheCorrect, CacheInsert
  <2>3. SharedInv' /\ Mild
    BY <1>4, <2>2, SharedKeep DEF CacheCorrect
  <2>4. \A u \in Threads : ThreadInv(u)'
    BY <1>0, <1>4, <2>3, PlainStep DEF CacheCorrect
  <2> QED BY <2>3, <2>4 DEF IInv
<1> QED BY <1>1, <1>2, <1>3, <1>4 DEF ApiStep

LEMMA InitInv == Init => IInv
<1> SUFFICES ASSUME Init PROVE IInv
  OBVIOUS
<1>1. SharedInv
  BY TimeoutAssumption DEF Init, SharedInv, GrantsPast, RowsGranted,
                           CacheCovered, RowsChallenged, Never
<1>2. \A th \in Threads : ThreadInv(th)
  BY DEF Init, ThreadInv
<1> QED BY <1>1, <1>2, InitTyped DEF IInv

LEMMA TickInv ==
  ASSUME IInv, Typed', Tick
  PROVE  IInv'
<1> USE TimeoutAssumption DEF IInv, Tick, tables, cache, history
<1>0. now \in Nat /\ \A k \in Clients : granted[k] \in Int
  BY DEF Typed, TypeOK, Times, Never
<1>1. GrantsPast'
  BY <1>0 DEF SharedInv, GrantsPast
<1>2. RowsGranted' /\ CacheCovered' /\ RowsChallenged'
  BY DEF SharedInv, RowsGranted, CacheCovered, RowsChallenged, Covered
<1>3. ASSUME NEW th \in Threads PROVE ThreadInv(th)'
  <2>1. pc[th] # "idle" => req[th].t0 <= now + 1
    <3> SUFFICES ASSUME pc[th] # "idle" PROVE req[th].t0 <= now + 1
      OBVIOUS
    <3>1. req[th].t0 <= now
      BY DEF ThreadInv
    <3>2. req[th].t0 \in Int
      BY DEF Typed, ThreadOK, Requests, Times
    <3> QED BY <1>0, <3>1, <3>2
  <2> QED BY <2>1 DEF ThreadInv, Covered
<1> QED BY <1>1, <1>2, <1>3 DEF SharedInv

LEMMA NextInv ==
  ASSUME "cleanup_allowed" \notin MayFail
  PROVE  IInv /\ [Next]_vars => IInv'
<1> SUFFICES ASSUME IInv, [Next]_vars PROVE IInv'
  OBVIOUS
<1>0. Typed'
  BY NextTyped DEF IInv
<1> USE DEF tables, cache, history
<1>1. ASSUME NEW th \in Threads, ThreadStep(th) PROVE IInv'
  <2>1. CASE Reply(th)
    BY <1>0, <2>1, DoneInv DEF Reply
  <2> QED
    BY <1>0, <1>1, <2>1, PageInv, IdInv, JsInv, ApiInv DEF ThreadStep
<1>2. ASSUME NEW th \in Threads, NEW kind \in {"page", "js", "api"},
             NEW ip \in IPs, NEW port \in Ports, NEW id \in Ids \cup {NoId},
             Arrive(th, kind, ip, port, id)
      PROVE  IInv'
  <2>1. SharedInv' /\ Mild
    BY <1>0, <1>2, SharedKeep DEF Arrive
  <2>2. pc'[th] \in {"cache", "cleanup_challenges", "read_challenge"}
    BY <1>2 DEF Arrive, FirstStep, IInv, Typed, TypeOK
  <2>3. req'[th].t0 <= now
    <3>1. req'[th].t0 = now /\ now \in Int
      BY <1>2, TimeoutAssumption DEF Arrive, IInv, Typed, TypeOK, Times
    <3> QED BY <3>1
  <2>4. \A u \in Threads : ThreadInv(u)'
    BY <1>0, <1>2, <2>1, <2>2, <2>3, PlainStep
    DEF Arrive, IInv, Typed, TypeOK
  <2> QED BY <1>0, <2>1, <2>4 DEF IInv
<1>3. CASE ClearCache \/ UNCHANGED vars
  <2>1. /\ \A k \in Clients : cached_allowed'[k] \in {cached_allowed[k], Never}
        /\ UNCHANGED <<now, tables, pc, req, loc, history>>
    BY <1>3 DEF ClearCache, vars
  <2>2. SharedInv' /\ Mild
    BY <1>0, <2>1, SharedKeep
  <2>3. ASSUME NEW u \in Threads PROVE ThreadInv(u)'
    BY <1>0, <2>1, <2>2, OthersKeep
  <2> QED BY <1>0, <2>2, <2>3 DEF IInv
<1>4. CASE Tick
  BY <1>0, <1>4, TickInv
<1>5. CASE Crash
  <2>1. SharedInv' /\ Mild
    BY <1>0, <1>5, SharedKeep DEF Crash
  <2>2. \A u \in Threads : ThreadInv(u)'
    BY <1>5 DEF Crash, ThreadInv
  <2> QED BY <1>0, <2>1, <2>2 DEF IInv
<1> QED BY <1>1, <1>2, <1>3, <1>4, <1>5 DEF Next

-----------------------------------------------------------------------------
(* Every step is a step of AccessGate or a stutter.                        *)

\* Threads that neither start nor stop to forward.
LEMMA SameForwarding ==
  ASSUME \A u \in Threads :
           \/ pc[u] # "forward" /\ pc'[u] # "forward"
           \/ pc'[u] = pc[u] /\ req'[u] = req[u]
  PROVE  UNCHANGED Forwarding
  BY DEF Forwarding, Nothing, Never

\* A thread starts to forward.
LEMMA ForwardStep ==
  ASSUME IInv, NEW th \in Threads, pc[th] # "forward", pc[th] # "idle",
         pc' = [pc EXCEPT ![th] = "forward"],
         UNCHANGED <<now, req, challenged, granted>>,
         Gate!MayForward(req[th].ip, req[th].t0)
  PROVE  Gate!Next
<1> DEFINE ip == req[th].ip
           port == req[th].port
           t == req[th].t0
<1>1. ip \in IPs /\ port \in Ports /\ t \in 0..now
  <2>1. ip \in IPs /\ port \in Ports /\ t \in Times
    BY DEF IInv, Typed, ThreadOK, Requests
  <2>2. t <= now
    BY DEF IInv, ThreadInv
  <2>3. t \in Nat /\ now \in Nat
    BY <2>1, TimeoutAssumption DEF IInv, Typed, TypeOK, Times
  <2> QED BY <2>1, <2>2, <2>3
<1>2. Forwarding[th] = Nothing
  BY DEF Forwarding
<1>3. pc \in [Threads -> Pc]
  BY DEF IInv, Typed, TypeOK
<1>4. Forwarding' = [Forwarding EXCEPT ![th] = [ip |-> ip, port |-> port,
                                                at |-> t]]
  BY <1>3 DEF Forwarding, Nothing, Never
<1>5. Gate!Forward(th, ip, port, t)
  BY <1>2, <1>4 DEF Gate!Forward
<1> QED BY <1>1, <1>5 DEF Gate!Next

LEMMA PageGate ==
  ASSUME IInv, NEW th \in Threads, PageStep(th)
  PROVE  [Gate!Next]_(Gate!vars)
<1> USE DEF Goto, tables, cache, history
<1>0. pc \in [Threads -> Pc] /\ req \in [Threads -> Requests \cup {NoRequest}]
  BY DEF IInv, Typed, TypeOK
<1>1. UNCHANGED <<now, challenged, granted>>
  BY DEF PageStep, CacheLookup, CleanupAllowed, IsAllowed, CacheAllowed,
         CleanupIdToPorts, InsertIdToPort
<1>2. ASSUME UNCHANGED Forwarding PROVE [Gate!Next]_(Gate!vars)
  BY <1>1, <1>2 DEF Gate!vars
<1>3. CASE CacheLookup(th)
  <2>1. CASE pc' = [pc EXCEPT ![th] = "cleanup_allowed"]
    BY <1>0, <1>2, <1>3, <2>1, SameForwarding DEF CacheLookup
  <2>2. CASE /\ cached_allowed[Client(th)] # Never
             /\ req[th].t0 - cached_allowed[Client(th)] <= CachedTimeout
             /\ pc' = [pc EXCEPT ![th] = "forward"]
    <3>1. PICK k \in Clients : k = Client(th) /\ k[1] = req[th].ip
      BY <1>3 DEF CacheLookup, Client, Clients, Requests, IInv, Typed, ThreadOK
    <3>2. PICK port \in Ports :
             /\ granted[<<req[th].ip, port>>] # Never
             /\ cached_allowed[k] <= granted[<<req[th].ip, port>>]
                                       + AllowedTimeout
      BY <2>2, <3>1 DEF IInv, SharedInv, CacheCovered, Covered
    <3>3. /\ cached_allowed[k] \in Int /\ req[th].t0 \in Int
          /\ granted[<<req[th].ip, port>>] \in Int
      <4>1. <<req[th].ip, port>> \in Clients
        BY <3>1 DEF Clients
      <4> QED BY <1>3, <3>1, <4>1, TimeoutAssumption
              DEF CacheLookup, IInv, Typed, TypeOK, ThreadOK, Requests, Times,
                  Never
    <3>4. req[th].t0 <= granted[<<req[th].ip, port>>] + AllowedTimeout
                          + CachedTimeout
      BY <2>2, <3>1, <3>2, <3>3, TimeoutAssumption
    <3>5. Gate!MayForward(req[th].ip, req[th].t0)
      BY <3>2, <3>4 DEF Gate!MayForward
    <3> QED BY <1>1, <1>3, <2>2, <3>5, ForwardStep DEF CacheLookup
  <2> QED BY <1>3, <2>1, <2>2 DEF CacheLookup
<1>4. CASE CacheAllowed(th)
  <2>1. PICK port \in Ports :
           /\ granted[<<req[th].ip, port>>] # Never
           /\ req[th].t0 <= granted[<<req[th].ip, port>>] + AllowedTimeout
    BY <1>4 DEF CacheAllowed, IInv, ThreadInv, Covered
  <2>2. granted[<<req[th].ip, port>>] \in Int /\ req[th].t0 \in Int
    <3>1. req[th] \in Requests
      BY <1>4 DEF CacheAllowed, IInv, Typed, ThreadOK
    <3>2. <<req[th].ip, port>> \in Clients
      BY <3>1 DEF Requests, Clients
    <3> QED BY <3>1, <3>2, TimeoutAssumption
            DEF IInv, Typed, TypeOK, Requests, Times, Never
  <2>3. req[th].t0 <= granted[<<req[th].ip, port>>] + AllowedTimeout
                        + CachedTimeout
    BY <2>1, <2>2, TimeoutAssumption
  <2>4. Gate!MayForward(req[th].ip, req[th].t0)
    BY <2>1, <2>3 DEF Gate!MayForward
  <2> QED BY <1>1, <1>4, <2>4, ForwardStep DEF CacheAllowed
<1>5. CASE CleanupAllowed(th) \/ IsAllowed(th) \/ CleanupIdToPorts(th)
  BY <1>0, <1>2, <1>5, SameForwarding
  DEF CleanupAllowed, IsAllowed, CleanupIdToPorts
<1>6. CASE InsertIdToPort(th)
  BY <1>0, <1>2, <1>6, SameForwarding DEF InsertIdToPort, Done
<1> QED BY <1>3, <1>4, <1>5, <1>6 DEF PageStep

LEMMA IdJsGate ==
  ASSUME IInv, NEW th \in Threads, IdStep(th) \/ JsStep(th)
  PROVE  [Gate!Next]_(Gate!vars)
<1> USE DEF Goto, Done, Fails, tables, cache, history
<1>0. pc \in [Threads -> Pc] /\ req \in [Threads -> Requests \cup {NoRequest}]
  BY DEF IInv, Typed, TypeOK
<1>1. ASSUME IdStep(th) PROVE UNCHANGED Forwarding
  BY <1>0, <1>1, SameForwarding DEF IdStep, SeqRead, SeqWrite, Exists
<1>2. ASSUME JsStep(th) PROVE UNCHANGED Forwarding
  BY <1>0, <1>2, SameForwarding
  DEF JsStep, CleanupChallenges, ReadPort, DeleteId, InsertChallenge
<1>3. ASSUME UNCHANGED <<now, challenged, granted>>
      PROVE  [Gate!Next]_(Gate!vars)
  BY <1>1, <1>2, <1>3 DEF Gate!vars
<1>4. ASSUME InsertChallenge(th), ~UNCHANGED challenged
      PROVE  [Gate!Next]_(Gate!vars)
  <2>1. req[th].ip \in IPs /\ loc[th].port \in Ports
    BY <1>4 DEF InsertChallenge, IInv, Typed, ThreadOK, Requests
  <2>2. UNCHANGED Forwarding
    BY <1>2, <1>4 DEF JsStep
  <2>3. Gate!Challenge(req[th].ip, loc[th].port)
    BY <1>4, <2>2 DEF InsertChallenge, Gate!Challenge
  <2> QED BY <2>1, <2>3 DEF Gate!Next
<1>5. CASE IdStep(th)
  BY <1>3, <1>5 DEF IdStep, SeqRead, SeqWrite, Exists
<1>6. CASE JsStep(th)
  BY <1>3, <1>4, <1>6
  DEF JsStep, CleanupChallenges, ReadPort, DeleteId, InsertChallenge
<1> QED BY <1>5, <1>6

LEMMA ApiGate ==
  ASSUME IInv, NEW th \in Threads, ApiStep(th)
  PROVE  [Gate!Next]_(Gate!vars)
<1> USE DEF Goto, Done, Fails, tables, cache, history
<1>0. pc \in [Threads -> Pc] /\ req \in [Threads -> Requests \cup {NoRequest}]
  BY DEF IInv, Typed, TypeOK
<1>1. UNCHANGED Forwarding
  BY <1>0, SameForwarding
  DEF ApiStep, ReadChallenge, DeleteChallenge, InsertAllowed, CacheCorrect
<1>2. ASSUME UNCHANGED <<now, challenged, granted>>
      PROVE  [Gate!Next]_(Gate!vars)
  BY <1>1, <1>2 DEF Gate!vars
<1>3. ASSUME InsertAllowed(th), ~UNCHANGED granted
      PROVE  [Gate!Next]_(Gate!vars)
  <2>1. /\ req[th].ip \in IPs /\ loc[th].port \in Ports
        /\ <<req[th].ip, loc[th].port>> \in challenged
    BY <1>3 DEF InsertAllowed, IInv, Typed, ThreadOK, Requests, ThreadInv
  <2>2. Gate!Grant(req[th].ip, loc[th].port)
    BY <1>1, <1>3, <2>1 DEF InsertAllowed, Gate!Grant
  <2> QED BY <2>1, <2>2 DEF Gate!Next
<1> QED
  BY <1>2, <1>3
  DEF ApiStep, ReadChallenge, DeleteChallenge, InsertAllowed, CacheCorrect

LEMMA NextGate == IInv /\ [Next]_vars => [Gate!Next]_(Gate!vars)
<1> SUFFICES ASSUME IInv, [Next]_vars PROVE [Gate!Next]_(Gate!vars)
  OBVIOUS
<1> USE DEF tables, cache, history
<1>0. pc \in [Threads -> Pc] /\ req \in [Threads -> Requests \cup {NoRequest}]
  BY DEF IInv, Typed, TypeOK
<1>1. ASSUME NEW th \in Threads, Reply(th) PROVE [Gate!Next]_(Gate!vars)
  <2>1. CASE pc[th] = "forward"
    <3>1. Forwarding' = [Forwarding EXCEPT ![th] = Nothing]
      BY <1>0, <1>1 DEF Reply, Done, Forwarding, Nothing, Never
    <3>2. Gate!Finish(th)
      BY <1>1, <3>1 DEF Reply, Gate!Finish
    <3> QED BY <3>2 DEF Gate!Next
  <2>2. CASE pc[th] # "forward"
    <3>1. UNCHANGED Forwarding
      BY <1>0, <1>1, <2>2, SameForwarding DEF Reply, Done
    <3> QED BY <1>1, <3>1 DEF Reply, Gate!vars
  <2> QED BY <2>1, <2>2
<1>2. ASSUME NEW th \in Threads, NEW kind \in {"page", "js", "api"},
             NEW ip \in IPs, NEW port \in Ports, NEW id \in Ids \cup {NoId},
             Arrive(th, kind, ip, port, id)
      PROVE  [Gate!Next]_(Gate!vars)
  <2>1. FirstStep(kind) # "forward"
    BY DEF FirstStep
  <2>2. UNCHANGED Forwarding
    BY <1>0, <1>2, <2>1, SameForwarding DEF Arrive
  <2> QED BY <1>2, <2>2 DEF Arrive, Gate!vars
<1>3. CASE ClearCache \/ UNCHANGED vars
  <2>1. UNCHANGED Forwarding
    BY <1>3, SameForwarding DEF ClearCache, vars
  <2> QED BY <1>3, <2>1 DEF ClearCache, vars, Gate!vars
<1>4. CASE Tick
  <2>1. UNCHANGED Forwarding
    BY <1>4, SameForwarding DEF Tick
  <2>2. Gate!Tick
    BY <1>4, <2>1 DEF Tick, Gate!Tick
  <2> QED BY <2>2 DEF Gate!Next
<1>5. CASE Crash
  <2>1. Forwarding' = [th \in Threads |-> Nothing]
    BY <1>5 DEF Crash, Forwarding, Nothing, Never
  <2>2. Gate!Crash
    BY <1>5, <2>1 DEF Crash, Gate!Crash
  <2> QED BY <2>2 DEF Gate!Next
<1> QED
  BY <1>1, <1>2, <1>3, <1>4, <1>5, PageGate, IdJsGate, ApiGate
  DEF Next, ThreadStep

\* The gate with SQLite implements AccessGate as long as the DELETE of stale
\* rows in front of is_allowed_ip_port does not fail: only challenged clients
\* are granted access, and a request is forwarded only if it arrived no later
\* than AllowedTimeout + CachedTimeout after a grant to its address, whatever
\* the other threads do between its statements.
THEOREM ImplementsAccessGate ==
  ASSUME "cleanup_allowed" \notin MayFail
  PROVE  Spec => GateSpec
<1>1. Init => Gate!Init
  BY DEF Init, Gate!Init, Forwarding, Clients
<1>2. IInv /\ [Next]_vars => IInv'
  BY NextInv
<1> QED
  BY <1>1, <1>2, InitInv, NextGate, PTL DEF Spec, GateSpec, Gate!Spec
=============================================================================
