-------------------------- MODULE ThreadPoolProofs --------------------------
(***************************************************************************)
(* Proofs about ThreadPool for any set of connections and any number of    *)
(* threads.  The inductive invariant IInv adds to the checked properties   *)
(* who holds a running connection (RunnerExists, IdleHoldsNothing) and     *)
(* what the join has established (JoinedIsOver).                           *)
(***************************************************************************)
EXTENDS ThreadPool, SequenceTheorems, TLAPS

\* A connection that is being run is being run by a worker.
RunnerExists ==
  \A t \in Tasks : task[t] \in {"running", "cleanup"} =>
    \E w \in Workers : worker[w] \in {"run", "cleanup"} /\ fn[w] = t

\* fn is nullopt outside of the part of the loop that runs it.
IdleHoldsNothing ==
  \A w \in Workers : worker[w] \notin {"run", "cleanup"} => fn[w] = None

\* Once the destructor has joined, no worker does anything any more; when it
\* has returned, the vector is empty.
JoinedIsOver ==
  /\ owner \in {"dtor_drop", "destroyed"} =>
       \A w \in Workers : worker[w] \in {"off", "exited"}
  /\ owner = "destroyed" => pending_fns = <<>>

Holding == OneHolder /\ RunnerExists /\ IdleHoldsNothing

IInv == TypeOK /\ Holding /\ JoinedIsOver /\ NoSleepingBacklog

-----------------------------------------------------------------------------
\* What the provers need to know of the three ways the vector changes.
LEMMA FrontFacts ==
  ASSUME NEW S, NEW q \in Seq(S), q # <<>>
  PROVE  /\ SubSeq(q, 1, Len(q) - 1) \in Seq(S)
         /\ Len(SubSeq(q, 1, Len(q) - 1)) = Len(q) - 1
         /\ \A i \in 1..(Len(q) - 1) : SubSeq(q, 1, Len(q) - 1)[i] = q[i]
         /\ Len(q) \in DOMAIN q
         /\ q[Len(q)] \in S
<1>1. Len(q) \in Nat \ {0} /\ DOMAIN q = 1..Len(q)
  OBVIOUS
<1>2. /\ SubSeq(q, 1, Len(q) - 1) \in Seq(S)
      /\ Len(SubSeq(q, 1, Len(q) - 1)) = Len(q) - 1
  BY <1>1, SubSeqProperties
<1>3. \A i \in 1..(Len(q) - 1) : SubSeq(q, 1, Len(q) - 1)[i] = q[i]
  BY <1>1, SubSeqProperties
<1>4. Len(q) \in DOMAIN q /\ q[Len(q)] \in S
  BY <1>1
<1> QED BY <1>2, <1>3, <1>4

LEMMA TailFacts ==
  ASSUME NEW S, NEW q \in Seq(S), q # <<>>
  PROVE  /\ Tail(q) \in Seq(S)
         /\ Len(Tail(q)) = Len(q) - 1
         /\ \A i \in 1..Len(Tail(q)) : Tail(q)[i] = q[i + 1]
         /\ 1 \in DOMAIN q
         /\ Head(q) = q[1]
         /\ Head(q) \in S
  OBVIOUS

LEMMA InitIInv == Init => IInv
<1> SUFFICES ASSUME Init PROVE IInv
  OBVIOUS
<1> USE CountAssumption DEF Init, Workers
<1>1. TypeOK
  <2>1. stop_var \in BOOLEAN
    BY Zenon
  <2> QED BY <2>1 DEF TypeOK, TaskState, WorkerPc, OwnerPc
<1>2. OneHolder
  BY DEF OneHolder
<1>3. RunnerExists /\ IdleHoldsNothing
  BY DEF RunnerExists, IdleHoldsNothing
<1>4. JoinedIsOver /\ NoSleepingBacklog
  BY DEF JoinedIsOver, NoSleepingBacklog
<1> QED BY <1>1, <1>2, <1>3, <1>4 DEF IInv, Holding

LEMMA NextTypeOK ==
  ASSUME TypeOK, Holding, [Next]_vars
  PROVE  TypeOK'
<1> USE CountAssumption DEF TypeOK, Workers, TaskState, WorkerPc, OwnerPc
<1>0. ASSUME NEW w \in Workers, TakeBack(w), pending_fns # <<>>
      PROVE  /\ pending_fns' \in Seq(Tasks)
             /\ task' \in [Tasks -> TaskState]
             /\ worker' \in [Workers -> WorkerPc]
             /\ fn' \in [Workers -> Tasks \cup {None}]
  <2>1. pending_fns[Len(pending_fns)] \in Tasks
    BY <1>0, FrontFacts
  <2>2. pending_fns' \in Seq(Tasks)
    BY <1>0, FrontFacts DEF TakeBack
  <2> QED BY <1>0, <2>1, <2>2 DEF TakeBack
<1>1. ASSUME NEW t \in Tasks, AddFunc(t) PROVE TypeOK'
  BY <1>1 DEF AddFunc
<1>2. CASE AddFuncNotify
  BY <1>2 DEF AddFuncNotify, NotifyOne
<1>3. ASSUME NEW n \in 0..MaxCount, SetThreadCount(n) PROVE TypeOK'
  BY <1>3 DEF SetThreadCount
<1>4. CASE CountStop
  <2>1. stop_var' \in BOOLEAN
    BY <1>4, Zenon DEF CountStop
  <2> QED BY <1>4, <2>1 DEF CountStop
<1>5. CASE DtorStop
  <2>1. stop_var' \in BOOLEAN
    BY <1>5, Zenon DEF DtorStop
  <2> QED BY <1>5, <2>1 DEF DtorStop
<1>6. CASE StopNotify
  BY <1>6 DEF StopNotify, NotifyAll
<1>7. CASE CountJoin
  <2>1. stop_var' \in BOOLEAN
    BY <1>7, Zenon DEF CountJoin
  <2> QED BY <1>7, <2>1 DEF CountJoin
<1>8. CASE DtorJoin
  BY <1>8 DEF DtorJoin
<1>9. CASE DtorDropOne
  BY <1>9, TailFacts DEF DtorDropOne
<1>10. CASE DtorDropEnd
  BY <1>10 DEF DtorDropEnd
<1>11. ASSUME NEW w \in Workers, WorkerTop(w) PROVE TypeOK'
  BY <1>11 DEF WorkerTop
<1>12. ASSUME NEW w \in Workers, WorkerLock(w) PROVE TypeOK'
  BY <1>12 DEF WorkerLock
<1>13. ASSUME NEW w \in Workers, WorkerTest(w) PROVE TypeOK'
  <2>1. CASE pending_fns # <<>>
    BY <1>13, <1>0, <2>1 DEF WorkerTest
  <2>2. CASE pending_fns = <<>>
    BY <1>13, <2>2 DEF WorkerTest
  <2> QED BY <2>1, <2>2
<1>14. ASSUME NEW w \in Workers, WorkerAwake(w) PROVE TypeOK'
  <2>1. CASE pending_fns # <<>>
    BY <1>14, <1>0, <2>1 DEF WorkerAwake
  <2>2. CASE pending_fns = <<>>
    BY <1>14, <2>2 DEF WorkerAwake
  <2> QED BY <2>1, <2>2
<1>15. ASSUME NEW w \in Workers, WorkerRun(w) PROVE TypeOK'
  BY <1>15 DEF WorkerRun
<1>16. ASSUME NEW w \in Workers, WorkerCleanup(w) PROVE TypeOK'
  BY <1>16 DEF WorkerCleanup
<1>17. ASSUME NEW w \in Workers, WorkerSpuriousWake(w) PROVE TypeOK'
  BY <1>17 DEF WorkerSpuriousWake
<1>18. CASE UNCHANGED vars
  BY <1>18 DEF vars
<1> QED
  BY <1>1, <1>2, <1>3, <1>4, <1>5, <1>6, <1>7, <1>8, <1>9, <1>10, <1>11,
     <1>12, <1>13, <1>14, <1>15, <1>16, <1>17, <1>18
     DEF Next, OwnerStep, WorkerStep

\* Steps that leave the vector and the connections alone keep Holding as
\* long as no worker enters or leaves the part that runs a connection.
LEMMA QuietHolding ==
  ASSUME TypeOK, Holding,
         UNCHANGED <<pending_fns, task, fn>>,
         \A w \in Workers :
           \/ worker'[w] = worker[w]
           \/ worker[w] \notin {"run", "cleanup"}
                /\ worker'[w] \notin {"run", "cleanup"}
  PROVE  Holding'
<1>1. OneHolder'
  BY DEF Holding, OneHolder, TypeOK
<1>2. RunnerExists'
  BY DEF Holding, RunnerExists, TypeOK
<1>3. IdleHoldsNothing'
  BY DEF Holding, IdleHoldsNothing, TypeOK
<1> QED BY <1>1, <1>2, <1>3 DEF Holding

\* Taking the back of the vector moves one connection from the vector to a
\* worker that held none.
LEMMA TakeBackHolding ==
  ASSUME TypeOK, Holding, NEW w \in Workers, TakeBack(w),
         pending_fns # <<>>, worker[w] \notin {"run", "cleanup"}
  PROVE  Holding'
<1> DEFINE n == Len(pending_fns)
           t == pending_fns[n]
<1> USE NoneAssumption DEF TypeOK
<1>1. /\ n \in Nat \ {0} /\ n \in DOMAIN pending_fns
      /\ DOMAIN pending_fns = 1..n /\ t \in Tasks
  BY FrontFacts
<1>2. /\ DOMAIN pending_fns' = 1..(n - 1)
      /\ \A i \in 1..(n - 1) : pending_fns'[i] = pending_fns[i]
  <2>1. /\ pending_fns' \in Seq(Tasks) /\ Len(pending_fns') = n - 1
        /\ \A i \in 1..(n - 1) : pending_fns'[i] = pending_fns[i]
    BY FrontFacts DEF TakeBack
  <2> QED BY <2>1
<1>3. /\ task' = [task EXCEPT ![t] = "running"]
      /\ fn' = [fn EXCEPT ![w] = t]
      /\ worker' = [worker EXCEPT ![w] = "run"]
  BY DEF TakeBack
<1>4. task[t] = "pending"
  BY <1>1 DEF Holding, OneHolder
<1> HIDE DEF n, t
<1>5. \A i, j \in DOMAIN pending_fns' :
        pending_fns'[i] = pending_fns'[j] => i = j
  BY <1>1, <1>2 DEF Holding, OneHolder
<1>6. \A i \in 1..(n - 1) : pending_fns[i] # t
  BY <1>1 DEF Holding, OneHolder, n, t
<1>7. \A s \in Tasks : task'[s] = "pending" <=>
        \E i \in DOMAIN pending_fns' : pending_fns'[i] = s
  <2> SUFFICES ASSUME NEW s \in Tasks
               PROVE  task'[s] = "pending" <=>
                        \E i \in DOMAIN pending_fns' : pending_fns'[i] = s
    OBVIOUS
  <2>1. CASE s = t
    BY <1>1, <1>2, <1>3, <1>6, <2>1
  <2>2. CASE s # t
    <3>1. task'[s] = task[s]
      BY <1>1, <1>3, <2>2
    <3>2. task[s] = "pending" <=>
            \E i \in 1..n : pending_fns[i] = s
      BY <1>1 DEF Holding, OneHolder
    <3>3. \A i \in 1..n : pending_fns[i] = s => i \in 1..(n - 1)
      BY <1>1, <2>2 DEF t
    <3> QED BY <1>1, <1>2, <3>1, <3>2, <3>3
  <2> QED BY <2>1, <2>2
<1>8. \A v \in Workers : fn[v] # t
  <2> SUFFICES ASSUME NEW v \in Workers, fn[v] = t PROVE FALSE
    OBVIOUS
  <2>1. worker[v] \in {"run", "cleanup"}
    BY <1>1 DEF Holding, IdleHoldsNothing
  <2> QED BY <1>1, <1>4, <2>1 DEF Holding, OneHolder
<1>9. \A v \in Workers : worker'[v] \in {"run", "cleanup"} =>
        /\ fn'[v] \in Tasks
        /\ task'[fn'[v]] = IF worker'[v] = "run" THEN "running" ELSE "cleanup"
  BY <1>1, <1>3, <1>8 DEF Holding, OneHolder
<1>10. \A u, v \in Workers : fn'[u] = fn'[v] /\ fn'[u] # None => u = v
  BY <1>1, <1>3, <1>8 DEF Holding, OneHolder
<1>11. RunnerExists'
  BY <1>1, <1>3, <1>4 DEF Holding, RunnerExists, IdleHoldsNothing
<1>12. IdleHoldsNothing'
  BY <1>1, <1>3 DEF Holding, IdleHoldsNothing
<1> QED BY <1>5, <1>7, <1>9, <1>10, <1>11, <1>12 DEF Holding, OneHolder

LEMMA NextHolding ==
  ASSUME TypeOK, TypeOK', Holding, [Next]_vars
  PROVE  Holding'
<1> USE NoneAssumption DEF TypeOK
<1>1. ASSUME NEW t \in Tasks, AddFunc(t) PROVE Holding'
  <2>1. /\ pending_fns' = Append(pending_fns, t)
        /\ task' = [task EXCEPT ![t] = "pending"]
        /\ task[t] = "new" /\ fn' = fn /\ worker' = worker
    BY <1>1 DEF AddFunc
  <2> DEFINE n == Len(pending_fns)
  <2>2. /\ n \in Nat /\ DOMAIN pending_fns = 1..n
        /\ DOMAIN pending_fns' = 1..(n + 1)
        /\ \A i \in 1..n : pending_fns'[i] = pending_fns[i]
        /\ pending_fns'[n + 1] = t
    BY <2>1
  <2> HIDE DEF n
  <2>3. \A i \in 1..n : pending_fns[i] # t
    BY <2>1, <2>2 DEF Holding, OneHolder
  <2>4. \A i, j \in DOMAIN pending_fns' :
          pending_fns'[i] = pending_fns'[j] => i = j
    BY <2>2, <2>3 DEF Holding, OneHolder
  <2>5. ASSUME NEW s \in Tasks
        PROVE  task'[s] = "pending" <=>
                 \E i \in DOMAIN pending_fns' : pending_fns'[i] = s
    <3>1. CASE s = t
      BY <2>1, <2>2, <3>1
    <3>2. CASE s # t
      <4>1. task[s] = "pending" <=> \E i \in 1..n : pending_fns[i] = s
        BY <2>2 DEF Holding, OneHolder
      <4>2. \A i \in 1..(n + 1) : pending_fns'[i] = s => i \in 1..n
        BY <2>2, <3>2
      <4>3. (\E i \in 1..(n + 1) : pending_fns'[i] = s)
              <=> \E i \in 1..n : pending_fns[i] = s
        BY <2>2, <4>2
      <4>4. task'[s] = task[s]
        BY <2>1, <3>2
      <4> QED BY <2>2, <4>1, <4>3, <4>4
    <3> QED BY <3>1, <3>2
  <2>6. \A v \in Workers : worker'[v] \in {"run", "cleanup"} =>
          /\ fn'[v] \in Tasks
          /\ task'[fn'[v]] = IF worker'[v] = "run" THEN "running"
                                                  ELSE "cleanup"
    BY <2>1 DEF Holding, OneHolder
  <2>7. \A u, v \in Workers : fn'[u] = fn'[v] /\ fn'[u] # None => u = v
    BY <2>1 DEF Holding, OneHolder
  <2>8. RunnerExists' /\ IdleHoldsNothing'
    BY <2>1 DEF Holding, RunnerExists, IdleHoldsNothing
  <2> QED BY <2>4, <2>5, <2>6, <2>7, <2>8 DEF Holding, OneHolder
<1>2. CASE AddFuncNotify
  BY <1>2, QuietHolding DEF AddFuncNotify, NotifyOne
<1>3. ASSUME NEW n \in 0..MaxCount, SetThreadCount(n) PROVE Holding'
  BY <1>3, QuietHolding DEF SetThreadCount
<1>4. CASE CountStop
  BY <1>4, QuietHolding DEF CountStop
<1>5. CASE DtorStop
  BY <1>5, QuietHolding DEF DtorStop
<1>6. CASE StopNotify
  BY <1>6, QuietHolding DEF StopNotify, NotifyAll
<1>7. CASE CountJoin
  <2>1. \A w \in Workers : /\ worker[w] \in {"off", "exited"}
                           /\ worker'[w] \in {"off", "top"}
    BY <1>7 DEF CountJoin, thread_handles
  <2> QED BY <1>7, <2>1, QuietHolding DEF CountJoin
<1>8. CASE DtorJoin
  BY <1>8, QuietHolding DEF DtorJoin
<1>9. CASE DtorDropOne
  <2> DEFINE n == Len(pending_fns)
             t == Head(pending_fns)
  <2>1. /\ n \in Nat \ {0} /\ DOMAIN pending_fns = 1..n
        /\ t \in Tasks /\ t = pending_fns[1]
    BY <1>9, TailFacts DEF DtorDropOne
  <2>2. /\ DOMAIN pending_fns' = 1..(n - 1)
        /\ \A i \in 1..(n - 1) : pending_fns'[i] = pending_fns[i + 1]
    <3>1. /\ pending_fns' \in Seq(Tasks) /\ Len(pending_fns') = n - 1
          /\ \A i \in 1..Len(pending_fns') :
               pending_fns'[i] = pending_fns[i + 1]
      BY <1>9, TailFacts DEF DtorDropOne
    <3> QED BY <3>1
  <2>3. /\ task' = [task EXCEPT ![t] = "dropped"]
        /\ fn' = fn /\ worker' = worker
    BY <1>9 DEF DtorDropOne
  <2>4. task[t] = "pending"
    BY <2>1 DEF Holding, OneHolder
  <2> HIDE DEF n, t
  <2>5. \A i, j \in 1..n : pending_fns[i] = pending_fns[j] => i = j
    BY <2>1 DEF Holding, OneHolder
  <2>6. \A i, j \in DOMAIN pending_fns' :
          pending_fns'[i] = pending_fns'[j] => i = j
    <3> SUFFICES ASSUME NEW i \in 1..(n - 1), NEW j \in 1..(n - 1),
                        pending_fns'[i] = pending_fns'[j]
                 PROVE  i = j
      BY <2>2
    <3>1. i + 1 \in 1..n /\ j + 1 \in 1..n
      BY <2>1
    <3>2. pending_fns[i + 1] = pending_fns[j + 1]
      BY <2>2
    <3>3. i + 1 = j + 1
      BY <2>5, <3>1, <3>2
    <3> QED BY <3>3
  <2>7. ASSUME NEW s \in Tasks
        PROVE  task'[s] = "pending" <=>
                 \E i \in DOMAIN pending_fns' : pending_fns'[i] = s
    <3>1. CASE s = t
      <4>1. ASSUME NEW i \in 1..(n - 1) PROVE pending_fns'[i] # t
        <5>1. i + 1 \in 1..n /\ 1 \in 1..n /\ i + 1 # 1
          BY <2>1
        <5> QED BY <2>1, <2>2, <2>5, <5>1
      <4> QED BY <2>1, <2>2, <2>3, <3>1, <4>1
    <3>2. CASE s # t
      <4>1. task[s] = "pending" <=> \E i \in 1..n : pending_fns[i] = s
        BY <2>1 DEF Holding, OneHolder
      <4>2. ASSUME NEW i \in 1..n, pending_fns[i] = s
            PROVE  i - 1 \in 1..(n - 1) /\ pending_fns'[i - 1] = s
        <5>1. i # 1
          BY <2>1, <3>2, <4>2
        <5>2. i - 1 \in 1..(n - 1) /\ (i - 1) + 1 = i
          BY <2>1, <5>1
        <5> QED BY <2>2, <4>2, <5>2
      <4>3. ASSUME NEW i \in 1..(n - 1), pending_fns'[i] = s
            PROVE  i + 1 \in 1..n /\ pending_fns[i + 1] = s
        BY <2>1, <2>2, <4>3
      <4>4. task'[s] = task[s]
        BY <2>1, <2>3, <3>2
      <4> QED BY <2>2, <4>1, <4>2, <4>3, <4>4
    <3> QED BY <3>1, <3>2
  <2>8. \A v \in Workers : worker'[v] \in {"run", "cleanup"} =>
          /\ fn'[v] \in Tasks
          /\ task'[fn'[v]] = IF worker'[v] = "run" THEN "running"
                                                  ELSE "cleanup"
    BY <2>1, <2>3, <2>4 DEF Holding, OneHolder
  <2>9. \A u, v \in Workers : fn'[u] = fn'[v] /\ fn'[u] # None => u = v
    BY <2>3 DEF Holding, OneHolder
  <2>10. RunnerExists' /\ IdleHoldsNothing'
    BY <2>1, <2>3 DEF Holding, RunnerExists, IdleHoldsNothing
  <2> QED BY <2>6, <2>7, <2>8, <2>9, <2>10 DEF Holding, OneHolder
<1>10. CASE DtorDropEnd
  BY <1>10, QuietHolding DEF DtorDropEnd
<1>11. ASSUME NEW w \in Workers, WorkerTop(w) PROVE Holding'
  BY <1>11, QuietHolding DEF WorkerTop
<1>12. ASSUME NEW w \in Workers, WorkerLock(w) PROVE Holding'
  BY <1>12, QuietHolding DEF WorkerLock
<1>13. ASSUME NEW w \in Workers, WorkerTest(w) PROVE Holding'
  <2>1. CASE pending_fns # <<>>
    BY <1>13, <2>1, TakeBackHolding DEF WorkerTest
  <2>2. CASE pending_fns = <<>>
    BY <1>13, <2>2, QuietHolding DEF WorkerTest
  <2> QED BY <2>1, <2>2
<1>14. ASSUME NEW w \in Workers, WorkerAwake(w) PROVE Holding'
  <2>1. CASE pending_fns # <<>>
    BY <1>14, <2>1, TakeBackHolding DEF WorkerAwake
  <2>2. CASE pending_fns = <<>>
    BY <1>14, <2>2, QuietHolding DEF WorkerAwake
  <2> QED BY <2>1, <2>2
<1>15. ASSUME NEW w \in Workers, WorkerRun(w) PROVE Holding'
  <2>1. fn[w] \in Tasks /\ task[fn[w]] = "running"
    BY <1>15 DEF WorkerRun, Holding, OneHolder
  <2>2. OneHolder'
    BY <1>15, <2>1 DEF WorkerRun, Holding, OneHolder
  <2>3. RunnerExists'
    BY <1>15, <2>1 DEF WorkerRun, Holding, RunnerExists
  <2>4. IdleHoldsNothing'
    BY <1>15 DEF WorkerRun, Holding, IdleHoldsNothing
  <2> QED BY <2>2, <2>3, <2>4 DEF Holding
<1>16. ASSUME NEW w \in Workers, WorkerCleanup(w) PROVE Holding'
  <2>1. fn[w] \in Tasks /\ task[fn[w]] = "cleanup"
    BY <1>16 DEF WorkerCleanup, Holding, OneHolder
  <2>2. OneHolder'
    BY <1>16, <2>1 DEF WorkerCleanup, Holding, OneHolder
  <2>3. RunnerExists'
    BY <1>16, <2>1 DEF WorkerCleanup, Holding, RunnerExists
  <2>4. IdleHoldsNothing'
    BY <1>16 DEF WorkerCleanup, Holding, IdleHoldsNothing
  <2> QED BY <2>2, <2>3, <2>4 DEF Holding
<1>17. ASSUME NEW w \in Workers, WorkerSpuriousWake(w) PROVE Holding'
  BY <1>17, QuietHolding DEF WorkerSpuriousWake
<1>18. CASE UNCHANGED vars
  BY <1>18, QuietHolding DEF vars
<1> QED
  BY <1>1, <1>2, <1>3, <1>4, <1>5, <1>6, <1>7, <1>8, <1>9, <1>10, <1>11,
     <1>12, <1>13, <1>14, <1>15, <1>16, <1>17, <1>18
     DEF Next, OwnerStep, WorkerStep

LEMMA NextJoinedIsOver ==
  ASSUME TypeOK, JoinedIsOver, [Next]_vars
  PROVE  JoinedIsOver'
<1> USE DEF JoinedIsOver, TypeOK
<1>1. CASE \E t \in Tasks : AddFunc(t)
  BY <1>1 DEF AddFunc
<1>2. CASE \E n \in 0..MaxCount : SetThreadCount(n)
  BY <1>2 DEF SetThreadCount
<1>3. CASE AddFuncNotify \/ CountStop \/ DtorStop \/ StopNotify \/ CountJoin
  BY <1>3 DEF AddFuncNotify, CountStop, DtorStop, StopNotify, CountJoin
<1>4. CASE DtorJoin
  BY <1>4 DEF DtorJoin, thread_handles
<1>5. CASE DtorDropOne \/ DtorDropEnd
  BY <1>5 DEF DtorDropOne, DtorDropEnd
<1>6. ASSUME NEW w \in Workers, WorkerStep(w) \/ WorkerSpuriousWake(w)
      PROVE  JoinedIsOver'
  <2>1. worker[w] \notin {"off", "exited"} /\ owner' = owner
    BY <1>6 DEF WorkerStep, WorkerTop, WorkerLock, WorkerTest, WorkerAwake,
                WorkerRun, WorkerCleanup, WorkerSpuriousWake
  <2> QED BY <2>1
<1>7. CASE UNCHANGED vars
  BY <1>7 DEF vars
<1> QED
  BY <1>1, <1>2, <1>3, <1>4, <1>5, <1>6, <1>7 DEF Next, OwnerStep

\* The heart of the matter.  A worker starts to wait only when it finds the
\* vector empty with the mutex held, a push makes the owner's next step a
\* notification, and a notification that finds every worker waiting wakes
\* one of them.
LEMMA NextNoSleepingBacklog ==
  ASSUME TypeOK, TypeOK', JoinedIsOver, NoSleepingBacklog, [Next]_vars
  PROVE  NoSleepingBacklog'
<1> USE CountAssumption DEF NoSleepingBacklog, TypeOK, thread_handles, Workers
<1>1. CASE \E t \in Tasks : AddFunc(t)
  BY <1>1 DEF AddFunc
<1>2. CASE AddFuncNotify
  <2>1. CASE \E w \in Workers : worker[w] = "waiting"
    BY <1>2, <2>1 DEF AddFuncNotify, NotifyOne
  <2>2. CASE \A w \in Workers : worker[w] # "waiting"
    BY <1>2, <2>2 DEF AddFuncNotify, NotifyOne
  <2> QED BY <2>1, <2>2
<1>3. CASE \E n \in 0..MaxCount : SetThreadCount(n)
  BY <1>3 DEF SetThreadCount
<1>4. CASE CountStop \/ DtorStop \/ DtorJoin
  BY <1>4 DEF CountStop, DtorStop, DtorJoin
<1>5. CASE StopNotify
  BY <1>5 DEF StopNotify, NotifyAll
<1>6. CASE CountJoin
  BY <1>6 DEF CountJoin
<1>7. CASE DtorDropOne
  BY <1>7 DEF DtorDropOne, JoinedIsOver
<1>8. CASE DtorDropEnd
  BY <1>8 DEF DtorDropEnd
<1>9. ASSUME NEW w \in Workers, WorkerTop(w) \/ WorkerLock(w)
      PROVE  NoSleepingBacklog'
  <2>1. worker'[w] \notin {"off", "waiting"}
    BY <1>9 DEF WorkerTop, WorkerLock
  <2> QED BY <2>1
<1>10. ASSUME NEW w \in Workers, WorkerTest(w)
       PROVE  NoSleepingBacklog'
  <2>1. CASE pending_fns # <<>>
    <3>1. worker'[w] = "run"
      BY <1>10, <2>1 DEF WorkerTest, TakeBack
    <3> QED BY <3>1
  <2>2. CASE pending_fns = <<>>
    BY <1>10, <2>2 DEF WorkerTest
  <2> QED BY <2>1, <2>2
<1>11. ASSUME NEW w \in Workers, WorkerAwake(w)
       PROVE  NoSleepingBacklog'
  <2>1. worker'[w] \in {"run", "top_locked"}
    BY <1>11 DEF WorkerAwake, TakeBack
  <2> QED BY <2>1
<1>12. ASSUME NEW w \in Workers,
              WorkerRun(w) \/ WorkerCleanup(w) \/ WorkerSpuriousWake(w)
       PROVE  NoSleepingBacklog'
  <2>1. worker'[w] \in {"cleanup", "top", "notified"}
    BY <1>12 DEF WorkerRun, WorkerCleanup, WorkerSpuriousWake
  <2> QED BY <2>1
<1>13. CASE UNCHANGED vars
  BY <1>13 DEF vars
<1> QED
  BY <1>1, <1>2, <1>3, <1>4, <1>5, <1>6, <1>7, <1>8, <1>9, <1>10, <1>11,
     <1>12, <1>13 DEF Next, OwnerStep, WorkerStep

LEMMA NextIInv == IInv /\ [Next]_vars => IInv'
  BY NextTypeOK, NextHolding, NextJoinedIsOver, NextNoSleepingBacklog
     DEF IInv

LEMMA AlwaysIInv == Spec => []IInv
  BY InitIInv, NextIInv, PTL DEF Spec

-----------------------------------------------------------------------------
\* The variables of thread_pool.cc keep their types.
THEOREM TypeCorrect == Spec => []TypeOK
<1>1. IInv => TypeOK
  BY DEF IInv
<1> QED BY <1>1, AlwaysIInv, PTL

\* Whatever the number of threads and connections and however notifications
\* and waits interleave: once add_func has returned, a vector that is not
\* empty means that some thread of the pool is awake.
THEOREM NoLostNotification == Spec => []NoSleepingBacklog
<1>1. IInv => NoSleepingBacklog
  BY DEF IInv
<1> QED BY <1>1, AlwaysIInv, PTL

\* Every connection is in the vector once, or with one worker, or with
\* nobody: no two threads ever run or clean up the same user_data.
THEOREM ExclusiveHolder == Spec => []OneHolder
<1>1. IInv => OneHolder
  BY DEF IInv, Holding
<1> QED BY <1>1, AlwaysIInv, PTL

-----------------------------------------------------------------------------
LEMMA InitRefines == Init => Service!Init
  BY DEF Init, Service!Init, AbstractStatus, Phase, Closing

\* A step that moves connection t moves its abstract status and no other.
LEMMA StatusOfMove ==
  ASSUME TypeOK, NEW t \in Tasks, NEW s \in TaskState,
         task' = [task EXCEPT ![t] = s]
  PROVE  /\ AbstractStatus' = [AbstractStatus EXCEPT ![t] = Phase(s)]
         /\ Phase(s) = Phase(task[t]) => AbstractStatus' = AbstractStatus
  BY DEF AbstractStatus, TypeOK

LEMMA NextRefines ==
  ASSUME IInv, IInv', [Next]_vars
  PROVE  [Service!Next]_(Service!vars)
<1> USE DEF IInv, TypeOK
<1>0. ASSUME UNCHANGED AbstractStatus, UNCHANGED Closing,
             UNCHANGED (owner = "destroyed")
      PROVE  [Service!Next]_(Service!vars)
  BY <1>0 DEF Service!vars
<1>1. ASSUME NEW t \in Tasks, AddFunc(t)
      PROVE  [Service!Next]_(Service!vars)
  <2>1. /\ task[t] = "new" /\ owner = "ready" /\ owner' = "add_notify"
        /\ task' = [task EXCEPT ![t] = "pending"]
    BY <1>1 DEF AddFunc
  <2>2. AbstractStatus' = [AbstractStatus EXCEPT ![t] = "pending"]
    BY <2>1, StatusOfMove DEF Phase, TaskState
  <2>3. AbstractStatus[t] = "new"
    BY <2>1 DEF AbstractStatus, Phase
  <2>4. ~Closing /\ UNCHANGED Closing /\ UNCHANGED (owner = "destroyed")
    BY <2>1 DEF Closing
  <2>5. Service!Submit(t)
    BY <2>2, <2>3, <2>4 DEF Service!Submit
  <2> QED BY <2>5 DEF Service!Next
<1>2. CASE AddFuncNotify \/ CountStop \/ StopNotify \/ CountJoin \/ DtorJoin
  BY <1>0, <1>2 DEF AddFuncNotify, CountStop, StopNotify, CountJoin,
                    DtorJoin, Closing, AbstractStatus
<1>3. ASSUME NEW n \in 0..MaxCount, SetThreadCount(n)
      PROVE  [Service!Next]_(Service!vars)
  BY <1>0, <1>3 DEF SetThreadCount, Closing, AbstractStatus
<1>4. CASE DtorStop
  <2>1. Service!BeginClose
    BY <1>4 DEF DtorStop, Service!BeginClose, Closing, AbstractStatus
  <2> QED BY <2>1 DEF Service!Next
<1>5. CASE DtorDropOne
  <2> DEFINE t == Head(pending_fns)
  <2>1. t \in Tasks /\ task[t] = "pending"
    <3>1. 1 \in DOMAIN pending_fns /\ t = pending_fns[1] /\ t \in Tasks
      BY <1>5, TailFacts DEF DtorDropOne
    <3> QED BY <3>1 DEF Holding, OneHolder
  <2> HIDE DEF t
  <2>2. task' = [task EXCEPT ![t] = "dropped"] /\ owner = "dtor_drop"
          /\ owner' = owner
    BY <1>5 DEF DtorDropOne, t
  <2>3. Service!Drop(t)
    BY <2>1, <2>2 DEF Service!Drop, AbstractStatus, Phase, Closing, TaskState
  <2> QED BY <2>1, <2>3 DEF Service!Next
<1>6. CASE DtorDropEnd
  <2>1. \A t \in Tasks : task[t] \in {"new", "done", "dropped"}
    <3>1. \A w \in Workers : worker[w] \notin {"run", "cleanup"}
      BY <1>6 DEF DtorDropEnd, JoinedIsOver
    <3>2. \A t \in Tasks : task[t] \notin {"running", "cleanup"}
      BY <3>1 DEF Holding, RunnerExists
    <3>3. \A t \in Tasks : task[t] # "pending"
      BY <1>6 DEF DtorDropEnd, Holding, OneHolder
    <3> QED BY <3>2, <3>3 DEF TaskState
  <2>2. Service!EndClose
    BY <1>6, <2>1 DEF DtorDropEnd, Service!EndClose, AbstractStatus, Phase,
                      Closing
  <2> QED BY <2>2 DEF Service!Next
<1>7. ASSUME NEW w \in Workers, TakeBack(w), pending_fns # <<>>,
             owner' = owner
      PROVE  [Service!Next]_(Service!vars)
  <2> DEFINE t == pending_fns[Len(pending_fns)]
  <2>1. t \in Tasks /\ task[t] = "pending"
    <3>1. Len(pending_fns) \in DOMAIN pending_fns /\ t \in Tasks
      BY <1>7, FrontFacts
    <3> QED BY <3>1 DEF Holding, OneHolder
  <2> HIDE DEF t
  <2>2. task' = [task EXCEPT ![t] = "running"]
    BY <1>7 DEF TakeBack, t
  <2>3. Service!Start(t)
    BY <1>7, <2>1, <2>2 DEF Service!Start, AbstractStatus, Phase, Closing,
                            TaskState
  <2> QED BY <2>1, <2>3 DEF Service!Next
<1>8. ASSUME NEW w \in Workers,
             WorkerTop(w) \/ WorkerLock(w) \/ WorkerSpuriousWake(w)
      PROVE  [Service!Next]_(Service!vars)
  BY <1>0, <1>8 DEF WorkerTop, WorkerLock, WorkerSpuriousWake, Closing,
                    AbstractStatus
<1>9. ASSUME NEW w \in Workers, WorkerTest(w) \/ WorkerAwake(w)
      PROVE  [Service!Next]_(Service!vars)
  <2>1. CASE pending_fns # <<>>
    BY <1>7, <1>9, <2>1 DEF WorkerTest, WorkerAwake
  <2>2. CASE pending_fns = <<>>
    BY <1>0, <1>9, <2>2 DEF WorkerTest, WorkerAwake, Closing, AbstractStatus
  <2> QED BY <2>1, <2>2
<1>10. ASSUME NEW w \in Workers, WorkerRun(w)
       PROVE  [Service!Next]_(Service!vars)
  <2>1. fn[w] \in Tasks /\ task[fn[w]] = "running"
    BY <1>10 DEF WorkerRun, Holding, OneHolder
  <2>2. UNCHANGED AbstractStatus
    <3>1. task' = [task EXCEPT ![fn[w]] = "cleanup"]
      BY <1>10 DEF WorkerRun
    <3> QED BY <2>1, <3>1, StatusOfMove DEF Phase, TaskState
  <2> QED BY <1>0, <1>10, <2>2 DEF WorkerRun, Closing
<1>11. ASSUME NEW w \in Workers, WorkerCleanup(w)
       PROVE  [Service!Next]_(Service!vars)
  <2>1. fn[w] \in Tasks /\ task[fn[w]] = "cleanup"
    BY <1>11 DEF WorkerCleanup, Holding, OneHolder
  <2>2. Service!Release(fn[w])
    BY <1>11, <2>1 DEF WorkerCleanup, Service!Release, AbstractStatus, Phase,
                       Closing, TaskState
  <2> QED BY <2>1, <2>2 DEF Service!Next
<1>12. CASE UNCHANGED vars
  BY <1>0, <1>12 DEF vars, Closing, AbstractStatus
<1> QED
  BY <1>1, <1>2, <1>3, <1>4, <1>5, <1>6, <1>8, <1>9, <1>10, <1>11, <1>12
     DEF Next, OwnerStep, WorkerStep

\* The pool implements TaskService: every connection is run and cleaned up
\* exactly once, or dropped and cleaned up exactly once by the destructor,
\* and nothing is left when the destructor returns.
THEOREM ImplementsTaskService == Spec => ServiceSpec
<1>1. IInv /\ IInv' /\ [Next]_vars => [Service!Next]_(Service!vars)
  BY NextRefines
<1> QED
  BY <1>1, InitRefines, AlwaysIInv, PTL
     DEF Spec, ServiceSpec, Service!Spec
=============================================================================
