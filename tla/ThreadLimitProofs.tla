------------------------- MODULE ThreadLimitProofs -------------------------
(***************************************************************************)
(* Proofs about ThreadLimit, for every finite set of connections and every *)
(* limit.                                                                  *)
(***************************************************************************)
EXTENDS ThreadLimit, FiniteSetTheorems, TLAPS

\* How many increments of counter have been decided on and not yet done.
Decided == (IF owner = "spawn" THEN 1 ELSE 0)
           + (IF manager = "spawn" THEN 1 ELSE 0)

\* The two checks of counter leave room for one increment too many, no more.
Headroom == counter + Decided <= limit + 1

\* overflow_data lists the queued connections, each once.
QueueExact ==
  /\ \A i \in 1..Len(overflow_data) : task[overflow_data[i]] = "queued"
  /\ \A i, j \in 1..Len(overflow_data) :
       overflow_data[i] = overflow_data[j] => i = j
  /\ \A t \in Tasks :
       task[t] = "queued" => \E i \in 1..Len(overflow_data) : overflow_data[i] = t

\* A connection is being added exactly while add_thread is between its steps.
AddingExact ==
  /\ \A t \in Tasks : task[t] = "adding" => owner \in {"enqueue", "spawn"}
  /\ \A t, u \in Tasks : task[t] = "adding" /\ task[u] = "adding" => t = u

\* How far the shutdown has come, and what that means for the rest.
CloseOrder ==
  /\ stop_flag <=> owner \notin {"ready", "enqueue", "spawn"}
  /\ owner \in {"dtor_drop", "dtor_poll", "assign_poll", "assign_drop", "destroyed"}
       => manager = "exited"
  /\ owner \in {"dtor_poll", "destroyed"} => overflow_data = <<>>
  /\ owner \in {"assign_drop", "destroyed"} => counter = 0
  /\ manager = "spawn" => overflow_data # <<>>

IInv ==
  /\ TypeOK
  /\ CounterIsExact
  /\ Headroom
  /\ QueueExact
  /\ AddingExact
  /\ CloseOrder

-----------------------------------------------------------------------------
LEMMA LimitPositive == limit \in Nat /\ limit >= 1
  BY LimitAssumption DEF limit

\* What taking the front connection off a queue leaves.
LEMMA TailFacts ==
  ASSUME NEW q \in Seq(Tasks), q # <<>>
  PROVE  /\ Len(q) \in Nat \ {0}
         /\ Head(q) = q[1]
         /\ Tail(q) \in Seq(Tasks)
         /\ Len(Tail(q)) = Len(q) - 1
         /\ \A i \in 1..Len(Tail(q)) : Tail(q)[i] = q[i + 1]
  OBVIOUS

LEMMA CountedFinite == IsFiniteSet(Counted)
  BY TasksAssumption, FS_Subset DEF Counted

\* The cardinality of Counted follows a thread that enters or leaves it.
LEMMA CountedGrows ==
  ASSUME TypeOK, NEW t \in Tasks, task[t] \in {"adding", "queued"},
         task' = [task EXCEPT ![t] = "running"]
  PROVE  Cardinality(Counted') = Cardinality(Counted) + 1
<1>1. Counted' = Counted \cup {t}
  BY DEF TypeOK, Counted
<1>2. t \notin Counted
  BY DEF Counted
<1> QED
  BY <1>1, <1>2, CountedFinite, FS_AddElement

LEMMA CountedShrinks ==
  ASSUME TypeOK, NEW t \in Tasks, task[t] = "decrement",
         task' = [task EXCEPT ![t] = "notify"]
  PROVE  /\ Cardinality(Counted') = Cardinality(Counted) - 1
         /\ Cardinality(Counted) \in Nat \ {0}
<1>1. Counted' = Counted \ {t}
  BY DEF TypeOK, Counted
<1>2. t \in Counted
  BY DEF Counted
<1>3. Cardinality(Counted') = Cardinality(Counted) - 1
  BY <1>1, <1>2, CountedFinite, FS_RemoveElement
<1>4. Cardinality(Counted) # 0 /\ Cardinality(Counted) \in Nat
  BY <1>2, CountedFinite, FS_EmptySet, FS_CardinalityType
<1> QED
  BY <1>3, <1>4

LEMMA CountedStays ==
  ASSUME TypeOK, NEW t \in Tasks, NEW s \in TaskState,
         (task[t] \in {"running", "cleanup", "decrement"})
           <=> (s \in {"running", "cleanup", "decrement"}),
         task' = [task EXCEPT ![t] = s]
  PROVE  Cardinality(Counted') = Cardinality(Counted)
<1>1. Counted' = Counted
  BY DEF TypeOK, Counted
<1> QED
  BY <1>1

-----------------------------------------------------------------------------
LEMMA InitEstablishes == Init => IInv
<1> SUFFICES ASSUME Init PROVE IInv
  OBVIOUS
<1>1. TypeOK
  <2>1. stop_flag \in BOOLEAN
    BY Zenon DEF Init
  <2>2. task \in [Tasks -> TaskState]
    BY DEF Init, TaskState
  <2>3. manager \in ManagerPc /\ owner \in OwnerPc /\ counter \in Nat
    BY DEF Init, ManagerPc, OwnerPc
  <2>4. overflow_data \in Seq(Tasks)
    BY DEF Init
  <2> QED
    BY <2>1, <2>2, <2>3, <2>4 DEF TypeOK
<1>2. Counted = {}
  BY DEF Init, Counted
<1>3. CounterIsExact
  BY <1>2, FS_EmptySet DEF Init, CounterIsExact
<1>4. Headroom
  BY LimitPositive DEF Init, Headroom, Decided
<1>5. QueueExact /\ AddingExact /\ CloseOrder
  BY DEF Init, QueueExact, AddingExact, CloseOrder
<1> QED
  BY <1>1, <1>3, <1>4, <1>5 DEF IInv

-----------------------------------------------------------------------------
(* One lemma per action.                                                   *)

LEMMA AddThreadCheckPreserves ==
  ASSUME IInv, NEW t \in Tasks, AddThreadCheck(t)
  PROVE  IInv'
<1> USE DEF AddThreadCheck, IInv
<1>1. TypeOK'
  BY DEF TypeOK, TaskState, OwnerPc
<1>2. CounterIsExact'
  BY CountedStays DEF CounterIsExact, TaskState
<1>3. Headroom'
  BY LimitPositive DEF Headroom, Decided, TypeOK
<1>4. QueueExact'
  BY DEF QueueExact, TypeOK
<1>5. AddingExact'
  BY DEF AddingExact, TypeOK
<1>6. CloseOrder'
  BY DEF CloseOrder, TypeOK
<1> QED
  BY <1>1, <1>2, <1>3, <1>4, <1>5, <1>6

LEMMA AddThreadEnqueuePreserves ==
  ASSUME IInv, NEW t \in Tasks, AddThreadEnqueue(t)
  PROVE  IInv'
<1> USE DEF AddThreadEnqueue, IInv
<1>1. TypeOK'
  BY DEF TypeOK, TaskState, OwnerPc
<1>2. CounterIsExact'
  BY CountedStays DEF CounterIsExact, TaskState
<1>3. Headroom'
  BY DEF Headroom, Decided
<1>4. QueueExact'
  BY DEF QueueExact, TypeOK
<1>5. AddingExact'
  BY DEF AddingExact, TypeOK
<1>6. CloseOrder'
  BY DEF CloseOrder, TypeOK
<1> QED
  BY <1>1, <1>2, <1>3, <1>4, <1>5, <1>6

LEMMA AddThreadSpawnPreserves ==
  ASSUME IInv, NEW t \in Tasks, AddThreadSpawn(t)
  PROVE  IInv'
<1> USE DEF AddThreadSpawn, IInv
<1>1. TypeOK'
  BY DEF TypeOK, TaskState, OwnerPc
<1>2. CounterIsExact'
  BY CountedGrows DEF CounterIsExact
<1>3. Headroom'
  BY LimitPositive DEF Headroom, Decided, TypeOK
<1>4. QueueExact'
  BY DEF QueueExact, TypeOK
<1>5. AddingExact'
  BY DEF AddingExact, TypeOK
<1>6. CloseOrder'
  BY DEF CloseOrder, TypeOK
<1> QED
  BY <1>1, <1>2, <1>3, <1>4, <1>5, <1>6

LEMMA CloseStorePreserves ==
  ASSUME IInv, CloseStore
  PROVE  IInv'
<1> USE DEF CloseStore, IInv
<1>1. stop_flag' \in BOOLEAN
  BY Zenon
<1>2. TypeOK'
  BY <1>1 DEF TypeOK, OwnerPc
<1>3. Counted' = Counted
  BY DEF Counted
<1>4. CounterIsExact' /\ Headroom'
  BY <1>3 DEF CounterIsExact, Headroom, Decided
<1>5. QueueExact' /\ AddingExact'
  BY DEF QueueExact, AddingExact
<1>6. CloseOrder'
  BY DEF CloseOrder
<1> QED
  BY <1>2, <1>4, <1>5, <1>6

LEMMA CloseNotifyPreserves ==
  ASSUME IInv, CloseNotify
  PROVE  IInv'
<1> USE DEF CloseNotify, NotifyAll, IInv
<1>1. TypeOK'
  BY DEF TypeOK, OwnerPc, ManagerPc
<1>2. Counted' = Counted
  BY DEF Counted
<1>3. CounterIsExact' /\ Headroom'
  BY <1>2 DEF CounterIsExact, Headroom, Decided
<1>4. QueueExact' /\ AddingExact'
  BY DEF QueueExact, AddingExact
<1>5. CloseOrder'
  BY DEF CloseOrder
<1> QED
  BY <1>1, <1>3, <1>4, <1>5

LEMMA CloseJoinPreserves ==
  ASSUME IInv, CloseJoin
  PROVE  IInv'
<1> USE DEF CloseJoin, IInv
<1>1. TypeOK'
  BY DEF TypeOK, OwnerPc
<1>2. Counted' = Counted
  BY DEF Counted
<1>3. CounterIsExact' /\ Headroom'
  BY <1>2 DEF CounterIsExact, Headroom, Decided
<1>4. QueueExact' /\ AddingExact'
  BY DEF QueueExact, AddingExact
<1>5. CloseOrder'
  BY DEF CloseOrder
<1> QED
  BY <1>1, <1>3, <1>4, <1>5

LEMMA CloseDropOnePreserves ==
  ASSUME IInv, CloseDropOne
  PROVE  IInv'
<1> USE DEF CloseDropOne, IInv
<1>1. Head(overflow_data) \in Tasks /\ task[Head(overflow_data)] = "queued"
  BY DEF TypeOK, QueueExact
<1>2. TypeOK'
  BY <1>1 DEF TypeOK, TaskState
<1>3. CounterIsExact'
  BY <1>1, CountedStays DEF CounterIsExact, TaskState
<1>4. Headroom'
  BY DEF Headroom, Decided
<1>5. QueueExact'
  <2>1. /\ Len(overflow_data) \in Nat \ {0}
        /\ Head(overflow_data) = overflow_data[1]
        /\ Len(overflow_data') = Len(overflow_data) - 1
        /\ \A i \in 1..Len(overflow_data') : overflow_data'[i] = overflow_data[i + 1]
    BY TailFacts DEF TypeOK
  <2>2. \A i \in 1..Len(overflow_data) : overflow_data[i] \in Tasks
    BY DEF TypeOK
  <2>3. \A i \in 1..Len(overflow_data') : task'[overflow_data'[i]] = "queued"
    BY <1>1, <2>1, <2>2 DEF QueueExact, TypeOK
  <2>4. \A i, j \in 1..Len(overflow_data') :
          overflow_data'[i] = overflow_data'[j] => i = j
    BY <2>1 DEF QueueExact
  <2>5. ASSUME NEW t \in Tasks, task'[t] = "queued"
        PROVE  \E i \in 1..Len(overflow_data') : overflow_data'[i] = t
    <3>1. PICK k \in 1..Len(overflow_data) : overflow_data[k] = t
      BY <1>1, <2>5 DEF QueueExact, TypeOK
    <3>2. k # 1
      BY <1>1, <2>1, <2>5, <3>1 DEF TypeOK
    <3>3. k - 1 \in 1..Len(overflow_data') /\ overflow_data'[k - 1] = t
      BY <2>1, <3>1, <3>2
    <3> QED
      BY <3>3
  <2> QED
    BY <2>3, <2>4, <2>5 DEF QueueExact
<1>6. AddingExact'
  BY <1>1 DEF AddingExact, TypeOK
<1>7. CloseOrder'
  BY DEF CloseOrder
<1> QED
  BY <1>2, <1>3, <1>4, <1>5, <1>6, <1>7

LEMMA CloseDropEndPreserves ==
  ASSUME IInv, CloseDropEnd
  PROVE  IInv'
<1> USE DEF CloseDropEnd, IInv
<1>1. TypeOK'
  BY DEF TypeOK, OwnerPc
<1>2. Counted' = Counted
  BY DEF Counted
<1>3. CounterIsExact' /\ Headroom'
  BY <1>2 DEF CounterIsExact, Headroom, Decided
<1>4. QueueExact' /\ AddingExact'
  BY DEF QueueExact, AddingExact
<1>5. CloseOrder'
  BY DEF CloseOrder
<1> QED
  BY <1>1, <1>3, <1>4, <1>5

LEMMA ClosePollPreserves ==
  ASSUME IInv, ClosePoll
  PROVE  IInv'
<1> USE DEF ClosePoll, IInv
<1>1. TypeOK'
  BY DEF TypeOK, OwnerPc
<1>2. Counted' = Counted
  BY DEF Counted
<1>3. CounterIsExact' /\ Headroom'
  BY <1>2 DEF CounterIsExact, Headroom, Decided
<1>4. QueueExact' /\ AddingExact'
  BY DEF QueueExact, AddingExact
<1>5. CloseOrder'
  BY DEF CloseOrder
<1> QED
  BY <1>1, <1>3, <1>4, <1>5

\* The manager's steps that touch nothing but its program counter.
LEMMA ManagerQuietPreserves ==
  ASSUME IInv, \/ ManagerLock \/ ManagerCheckStop \/ ManagerCheckLimit
               \/ ManagerWait \/ ManagerSpuriousWake
  PROVE  IInv'
<1> USE DEF ManagerLock, ManagerCheckStop, ManagerCheckLimit, ManagerWait,
            ManagerSpuriousWake, IInv
<1>1. TypeOK'
  BY DEF TypeOK, ManagerPc
<1>2. Counted' = Counted
  BY DEF Counted
<1>3. CounterIsExact'
  BY <1>2 DEF CounterIsExact
<1>4. Headroom'
  BY LimitPositive DEF Headroom, Decided, TypeOK
<1>5. QueueExact' /\ AddingExact'
  BY DEF QueueExact, AddingExact
<1>6. CloseOrder'
  BY DEF CloseOrder
<1> QED
  BY <1>1, <1>3, <1>4, <1>5, <1>6

LEMMA ManagerSpawnPreserves ==
  ASSUME IInv, ManagerSpawn
  PROVE  IInv'
<1> USE DEF ManagerSpawn, IInv
<1>1. Head(overflow_data) \in Tasks /\ task[Head(overflow_data)] = "queued"
  BY DEF TypeOK, QueueExact, CloseOrder
<1>2. TypeOK'
  BY <1>1, TailFacts DEF TypeOK, TaskState, ManagerPc, CloseOrder
<1>3. CounterIsExact'
  BY <1>1, CountedGrows DEF CounterIsExact
<1>4. Headroom'
  BY LimitPositive DEF Headroom, Decided, TypeOK
<1>5. QueueExact'
  BY <1>1 DEF QueueExact, CloseOrder, TypeOK
<1>6. AddingExact'
  BY <1>1 DEF AddingExact, TypeOK
<1>7. CloseOrder'
  BY DEF CloseOrder
<1> QED
  BY <1>2, <1>3, <1>4, <1>5, <1>6, <1>7

LEMMA RunPreserves ==
  ASSUME IInv, NEW t \in Tasks, RunFn(t) \/ RunCleanup(t)
  PROVE  IInv'
<1> USE DEF RunFn, RunCleanup, IInv
<1>1. TypeOK'
  BY DEF TypeOK, TaskState
<1>2. CounterIsExact'
  BY CountedStays DEF CounterIsExact, TaskState
<1>3. Headroom' /\ CloseOrder'
  BY DEF Headroom, Decided, CloseOrder
<1>4. QueueExact' /\ AddingExact'
  BY DEF QueueExact, AddingExact, TypeOK
<1> QED
  BY <1>1, <1>2, <1>3, <1>4

LEMMA DecrementCounterPreserves ==
  ASSUME IInv, NEW t \in Tasks, DecrementCounter(t)
  PROVE  IInv'
<1> USE DEF DecrementCounter, IInv
<1>1. counter \in Nat \ {0} /\ counter' = Cardinality(Counted')
  BY CountedShrinks DEF CounterIsExact
<1>2. TypeOK'
  BY <1>1 DEF TypeOK, TaskState
<1>3. CounterIsExact'
  BY <1>1 DEF CounterIsExact
<1>4. Headroom'
  BY <1>1, LimitPositive DEF Headroom, Decided, TypeOK
<1>5. CloseOrder'
  BY <1>1 DEF CloseOrder
<1>6. QueueExact' /\ AddingExact'
  BY DEF QueueExact, AddingExact, TypeOK
<1> QED
  BY <1>2, <1>3, <1>4, <1>5, <1>6

LEMMA NotifyDonePreserves ==
  ASSUME IInv, NEW t \in Tasks, NotifyDone(t)
  PROVE  IInv'
<1> USE DEF NotifyDone, NotifyAll, IInv
<1>1. TypeOK'
  BY DEF TypeOK, TaskState, ManagerPc
<1>2. CounterIsExact'
  BY CountedStays DEF CounterIsExact, TaskState
<1>3. Headroom' /\ CloseOrder'
  BY DEF Headroom, Decided, CloseOrder
<1>4. QueueExact' /\ AddingExact'
  BY DEF QueueExact, AddingExact, TypeOK
<1> QED
  BY <1>1, <1>2, <1>3, <1>4

LEMMA StutterPreserves ==
  ASSUME IInv, UNCHANGED vars
  PROVE  IInv'
<1> USE DEF vars, IInv
<1>1. Counted' = Counted
  BY DEF Counted
<1>2. CounterIsExact' /\ Headroom'
  BY <1>1 DEF CounterIsExact, Headroom, Decided
<1>3. TypeOK' /\ QueueExact' /\ AddingExact' /\ CloseOrder'
  BY DEF TypeOK, QueueExact, AddingExact, CloseOrder
<1> QED
  BY <1>2, <1>3

LEMMA NextPreserves == IInv /\ [Next]_vars => IInv'
<1> SUFFICES ASSUME IInv, [Next]_vars PROVE IInv'
  OBVIOUS
<1>1. CASE UNCHANGED vars
  BY <1>1, StutterPreserves
<1>2. ASSUME NEW t \in Tasks, AddThreadCheck(t) \/ ThreadStep(t)
      PROVE  IInv'
  BY <1>2, AddThreadCheckPreserves, RunPreserves, DecrementCounterPreserves,
     NotifyDonePreserves DEF ThreadStep
<1>3. CASE OwnerStep
  BY <1>3, AddThreadEnqueuePreserves, AddThreadSpawnPreserves,
     CloseNotifyPreserves, CloseJoinPreserves, CloseDropOnePreserves,
     CloseDropEndPreserves, ClosePollPreserves DEF OwnerStep
<1>4. CASE CloseStore
  BY <1>4, CloseStorePreserves
<1>5. CASE ManagerStep \/ ManagerSpuriousWake
  BY <1>5, ManagerQuietPreserves, ManagerSpawnPreserves DEF ManagerStep
<1> QED
  BY <1>1, <1>2, <1>3, <1>4, <1>5 DEF Next

-----------------------------------------------------------------------------
(* The theorems.                                                           *)

LEMMA Invariance == Spec => []IInv
  BY InitEstablishes, NextPreserves, PTL DEF Spec

\* The variables of ThreadLimit always have their types; in particular the
\* unsigned counter never goes below zero.
THEOREM TypeCorrect == Spec => []TypeOK
<1>1. IInv => TypeOK
  BY DEF IInv
<1> QED
  BY <1>1, Invariance, PTL

\* counter is exact in every reachable state, for any number of connections.
THEOREM CounterExact == Spec => []CounterIsExact
<1>1. IInv => CounterIsExact
  BY DEF IInv
<1> QED
  BY <1>1, Invariance, PTL

\* The race between add_thread and the manager never starts more than one
\* thread too many, whatever the limit and the load.
THEOREM OvershootBound == Spec => []OvershootAtMostOne
<1>1. IInv => OvershootAtMostOne
  BY LimitPositive DEF IInv, TypeOK, CounterIsExact, Headroom, Decided,
                       OvershootAtMostOne
<1> QED
  BY <1>1, Invariance, PTL

LEMMA InvariantMeansQuiet == IInv => DestroyedIsQuiet
<1> SUFFICES ASSUME IInv, owner = "destroyed", NEW t \in Tasks
             PROVE  task[t] \in {"new", "notify", "gone", "dropped"}
  BY DEF DestroyedIsQuiet
<1>1. Counted = {}
  BY CountedFinite, FS_EmptySet DEF IInv, CloseOrder, CounterIsExact
<1>2. task[t] \notin {"running", "cleanup", "decrement"}
  BY <1>1 DEF Counted
<1>3. task[t] # "queued"
  BY DEF IInv, QueueExact, CloseOrder
<1>4. task[t] # "adding"
  BY DEF IInv, AddingExact
<1> QED
  BY <1>2, <1>3, <1>4 DEF IInv, TypeOK, TaskState

\* After ~ThreadLimit or operator= every connection has been cleaned up and
\* no thread still uses one.
THEOREM DestructionIsComplete == Spec => []DestroyedIsQuiet
  BY InvariantMeansQuiet, Invariance, PTL

-----------------------------------------------------------------------------
(* ThreadLimit implements TaskService.                                     *)

LEMMA RefinesInit == Init => Service!Init
  BY DEF Init, Service!Init, AbstractStatus, Phase

\* A step that moves connection t moves its abstract status and no other.
LEMMA StatusOfMove ==
  ASSUME TypeOK, NEW t \in Tasks, NEW s \in TaskState,
         task' = [task EXCEPT ![t] = s]
  PROVE  /\ AbstractStatus' = [AbstractStatus EXCEPT ![t] = Phase(s)]
         /\ Phase(s) = Phase(task[t]) => AbstractStatus' = AbstractStatus
  BY DEF AbstractStatus, TypeOK

LEMMA StatusOfStay ==
  ASSUME task' = task
  PROVE  AbstractStatus' = AbstractStatus
  BY DEF AbstractStatus

LEMMA RefinesAddAndRun ==
  ASSUME IInv, NEW t \in Tasks,
         AddThreadCheck(t) \/ AddThreadEnqueue(t) \/ AddThreadSpawn(t)
           \/ ThreadStep(t)
  PROVE  [Service!Next]_(Service!vars)
<1> USE DEF IInv, CloseOrder
<1>1. CASE AddThreadCheck(t)
  <2>1. Service!Submit(t)
    BY <1>1, StatusOfMove DEF AddThreadCheck, Service!Submit, AbstractStatus,
                              Phase, TaskState
  <2> QED
    BY <2>1 DEF Service!Next
<1>2. CASE AddThreadEnqueue(t)
  <2>1. AbstractStatus' = AbstractStatus
    BY <1>2, StatusOfMove DEF AddThreadEnqueue, AbstractStatus, Phase, TaskState
  <2> QED
    BY <1>2, <2>1 DEF AddThreadEnqueue, Service!vars
<1>3. CASE AddThreadSpawn(t)
  <2>1. Service!Start(t)
    BY <1>3, StatusOfMove DEF AddThreadSpawn, Service!Start, AbstractStatus,
                              Phase, TaskState
  <2> QED
    BY <2>1 DEF Service!Next
<1>4. CASE RunFn(t)
  <2>1. AbstractStatus' = AbstractStatus
    BY <1>4, StatusOfMove DEF RunFn, AbstractStatus, Phase, TaskState
  <2> QED
    BY <1>4, <2>1 DEF RunFn, Service!vars
<1>5. CASE RunCleanup(t)
  <2>1. Service!Release(t)
    BY <1>5, StatusOfMove DEF RunCleanup, Service!Release, AbstractStatus,
                              Phase, TaskState
  <2> QED
    BY <2>1 DEF Service!Next
<1>6. CASE DecrementCounter(t) \/ NotifyDone(t)
  <2>1. AbstractStatus' = AbstractStatus
    BY <1>6, StatusOfMove DEF DecrementCounter, NotifyDone, AbstractStatus,
                              Phase, TaskState
  <2> QED
    BY <1>6, <2>1 DEF DecrementCounter, NotifyDone, Service!vars
<1> QED
  BY <1>1, <1>2, <1>3, <1>4, <1>5, <1>6 DEF ThreadStep

LEMMA RefinesManager ==
  ASSUME IInv, ManagerStep \/ ManagerSpuriousWake
  PROVE  [Service!Next]_(Service!vars)
<1>1. CASE ManagerSpawn
  <2> DEFINE t == Head(overflow_data)
  <2>1. t \in Tasks /\ task[t] = "queued"
    BY <1>1 DEF ManagerSpawn, IInv, TypeOK, QueueExact, CloseOrder
  <2>2. Service!Start(t)
    BY <1>1, <2>1, StatusOfMove DEF ManagerSpawn, IInv, Service!Start,
                                    AbstractStatus, Phase, TaskState
  <2> QED
    BY <2>1, <2>2 DEF Service!Next
<1>2. CASE ManagerLock \/ ManagerCheckStop \/ ManagerCheckLimit
           \/ ManagerWait \/ ManagerSpuriousWake
  <2>1. UNCHANGED <<task, owner, stop_flag>>
    BY <1>2 DEF ManagerLock, ManagerCheckStop, ManagerCheckLimit, ManagerWait,
                ManagerSpuriousWake
  <2> QED
    BY <2>1, StatusOfStay DEF Service!vars
<1> QED
  BY <1>1, <1>2 DEF ManagerStep

LEMMA RefinesClose ==
  ASSUME IInv, DestroyedIsQuiet',
         CloseStore \/ CloseNotify \/ CloseJoin \/ CloseDropOne
           \/ CloseDropEnd \/ ClosePoll
  PROVE  [Service!Next]_(Service!vars)
<1> USE DEF IInv, CloseOrder
<1>1. CASE CloseStore
  <2>1. Service!BeginClose
    BY <1>1, StatusOfStay DEF CloseStore, Service!BeginClose
  <2> QED
    BY <2>1 DEF Service!Next
<1>2. CASE CloseNotify \/ CloseJoin
  BY <1>2, StatusOfStay DEF CloseNotify, CloseJoin, Service!vars
<1>3. CASE CloseDropOne
  <2> DEFINE t == Head(overflow_data)
  <2>1. t \in Tasks /\ task[t] = "queued"
    BY <1>3 DEF CloseDropOne, TypeOK, QueueExact
  <2>2. Service!Drop(t)
    BY <1>3, <2>1, StatusOfMove DEF CloseDropOne, Service!Drop, AbstractStatus,
                                    Phase, TaskState
  <2> QED
    BY <2>1, <2>2 DEF Service!Next
<1>4. CASE CloseDropEnd \/ ClosePoll
  <2>1. UNCHANGED <<task, stop_flag>> /\ owner # "destroyed"
    BY <1>4 DEF CloseDropEnd, ClosePoll
  <2>2. CASE owner' # "destroyed"
    BY <2>1, <2>2, StatusOfStay DEF Service!vars
  <2>3. CASE owner' = "destroyed"
    <3>1. \A t \in Tasks : task'[t] \in {"new", "notify", "gone", "dropped"}
      BY <2>3 DEF DestroyedIsQuiet
    <3>2. \A t \in Tasks : AbstractStatus[t] \in {"new", "released"}
      BY <2>1, <3>1 DEF AbstractStatus, Phase
    <3>3. Service!EndClose
      BY <1>4, <2>1, <2>3, <3>2, StatusOfStay DEF Service!EndClose, CloseDropEnd,
                                                  ClosePoll
    <3> QED
      BY <3>3 DEF Service!Next
  <2> QED
    BY <2>2, <2>3
<1> QED
  BY <1>1, <1>2, <1>3, <1>4

\* Every connection handed to add_thread is started at most once and cleaned
\* up exactly once, and only a shutdown cleans up one that was not started.
THEOREM ImplementsTaskService == Spec => ServiceSpec
<1>1. IInv /\ DestroyedIsQuiet' /\ [Next]_vars => [Service!Next]_(Service!vars)
  <2> SUFFICES ASSUME IInv, DestroyedIsQuiet', [Next]_vars
               PROVE  [Service!Next]_(Service!vars)
    OBVIOUS
  <2>1. CASE UNCHANGED vars
    BY <2>1, StatusOfStay DEF vars, Service!vars
  <2>2. CASE Next
    BY <2>2, RefinesAddAndRun, RefinesManager, RefinesClose
       DEF Next, OwnerStep
  <2> QED
    BY <2>1, <2>2
<1> QED
  BY <1>1, RefinesInit, Invariance, DestructionIsComplete, PTL
     DEF Spec, ServiceSpec, Service!Spec
=============================================================================
