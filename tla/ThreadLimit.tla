---------------------------- MODULE ThreadLimit ----------------------------
(***************************************************************************)
(* The thread-per-connection executor of cxx_impl/src/thread_limit.cc      *)
(* (--enable-thread-limit).  The owner's thread calls add_thread and later *)
(* destroys or overwrites the object; a manager thread starts the          *)
(* connections that were queued; each connection runs in a detached thread *)
(* of its own.  counter and stop_flag are atomics read and written outside *)
(* the mutex; the mutex guards overflow_data only.                         *)
(***************************************************************************)
EXTENDS Integers, Sequences, FiniteSets

CONSTANTS
  Tasks,  \* the connections handed to add_thread
  Limit   \* the constructor's argument

ASSUME TasksAssumption == IsFiniteSet(Tasks)
ASSUME LimitAssumption == Limit \in Nat

\* ThreadLimit::ThreadLimit turns a limit of 0 into 1.
limit == IF Limit = 0 THEN 1 ELSE Limit

VARIABLES
  counter,        \* the atomic number of connection threads
  overflow_data,  \* queue of connections waiting for a thread
  stop_flag,
  task,           \* task[t]: how far connection t has come
  manager,        \* program counter of the manager thread
  owner           \* program counter of the thread that owns the object

vars == <<counter, overflow_data, stop_flag, task, manager, owner>>

TaskState == {"new", "adding", "queued", "running", "cleanup", "decrement",
              "notify", "gone", "dropped"}

ManagerPc == {"start", "check_stop", "check_limit", "spawn", "wait",
              "waiting", "notified", "exited"}

OwnerPc == {"ready", "enqueue", "spawn",
            "dtor_notify", "dtor_join", "dtor_drop", "dtor_poll",
            "assign_notify", "assign_join", "assign_poll", "assign_drop",
            "destroyed"}

\* The threads counter is meant to count: from its ++ to its --.
Counted == {t \in Tasks : task[t] \in {"running", "cleanup", "decrement"}}

\* The manager holds data_mutex except before its first lock(), inside
\* cv->wait and after its return; every other critical section is one step.
MutexFree == manager \in {"start", "waiting", "notified", "exited"}

TypeOK ==
  /\ counter \in Nat
  /\ overflow_data \in Seq(Tasks)
  /\ stop_flag \in BOOLEAN
  /\ task \in [Tasks -> TaskState]
  /\ manager \in ManagerPc
  /\ owner \in OwnerPc

Init ==
  /\ counter = 0
  /\ overflow_data = <<>>
  /\ stop_flag = FALSE
  /\ task = [t \in Tasks |-> "new"]
  /\ manager = "start"
  /\ owner = "ready"

\* cv->notify_all(): only the manager ever waits on cv, and a notification
\* that finds it anywhere else is lost.
NotifyAll == manager' = IF manager = "waiting" THEN "notified" ELSE manager

-----------------------------------------------------------------------------
(* The owner: add_thread, ~ThreadLimit and operator=.                      *)

\* add_thread reads counter and commits to a branch.
AddThreadCheck(t) ==
  /\ owner = "ready"
  /\ task[t] = "new"
  /\ owner' = IF counter >= limit THEN "enqueue" ELSE "spawn"
  /\ task' = [task EXCEPT ![t] = "adding"]
  /\ UNCHANGED <<counter, overflow_data, stop_flag, manager>>

\* The overflow branch: push_back under data_mutex, without a notification.
AddThreadEnqueue(t) ==
  /\ owner = "enqueue"
  /\ task[t] = "adding"
  /\ MutexFree
  /\ overflow_data' = Append(overflow_data, t)
  /\ task' = [task EXCEPT ![t] = "queued"]
  /\ owner' = "ready"
  /\ UNCHANGED <<counter, stop_flag, manager>>

\* Mutant of AddThreadSpawn: the ++counter is forgotten.
AddThreadSpawnUncounted(t) ==
  /\ owner = "spawn"
  /\ task[t] = "adding"
  /\ task' = [task EXCEPT ![t] = "running"]
  /\ owner' = "ready"
  /\ UNCHANGED <<counter, overflow_data, stop_flag, manager>>

\* The direct branch: ++counter and a detached thread.
AddThreadSpawn(t) ==
  /\ owner = "spawn"
  /\ task[t] = "adding"
  /\ counter' = counter + 1
  /\ task' = [task EXCEPT ![t] = "running"]
  /\ owner' = "ready"
  /\ UNCHANGED <<overflow_data, stop_flag, manager>>

\* ~ThreadLimit and operator= both start by storing stop_flag.
CloseStore ==
  /\ owner = "ready"
  /\ stop_flag' = TRUE
  /\ owner' \in {"dtor_notify", "assign_notify"}
  /\ UNCHANGED <<counter, overflow_data, task, manager>>

CloseNotify ==
  /\ \/ owner = "dtor_notify" /\ owner' = "dtor_join"
     \/ owner = "assign_notify" /\ owner' = "assign_join"
  /\ NotifyAll
  /\ UNCHANGED <<counter, overflow_data, stop_flag, task>>

\* join of the manager; operator= then polls before it cleans up, the
\* destructor cleans up before it polls.
CloseJoin ==
  /\ manager = "exited"
  /\ \/ owner = "dtor_join" /\ owner' = "dtor_drop"
     \/ owner = "assign_join" /\ owner' = "assign_poll"
  /\ UNCHANGED <<counter, overflow_data, stop_flag, task, manager>>

\* cleanup_fn of the next connection that never got a thread.
CloseDropOne ==
  /\ owner \in {"dtor_drop", "assign_drop"}
  /\ overflow_data # <<>>
  /\ task' = [task EXCEPT ![Head(overflow_data)] = "dropped"]
  /\ overflow_data' = Tail(overflow_data)
  /\ UNCHANGED <<counter, stop_flag, manager, owner>>

CloseDropEnd ==
  /\ overflow_data = <<>>
  /\ \/ owner = "dtor_drop" /\ owner' = "dtor_poll"
     \/ owner = "assign_drop" /\ owner' = "destroyed"
  /\ UNCHANGED <<counter, overflow_data, stop_flag, task, manager>>

\* Mutant of ClosePoll: does not wait for the detached threads.
ClosePollNoWait ==
  /\ \/ owner = "dtor_poll" /\ owner' = "destroyed"
     \/ owner = "assign_poll" /\ owner' = "assign_drop"
  /\ UNCHANGED <<counter, overflow_data, stop_flag, task, manager>>

\* The loop that sleeps until counter is 0.
ClosePoll ==
  /\ counter = 0
  /\ \/ owner = "dtor_poll" /\ owner' = "destroyed"
     \/ owner = "assign_poll" /\ owner' = "assign_drop"
  /\ UNCHANGED <<counter, overflow_data, stop_flag, task, manager>>

-----------------------------------------------------------------------------
(* internal_manager_function                                               *)

\* The first lock, and the lock cv->wait takes again before it returns.
ManagerLock ==
  /\ manager \in {"start", "notified"}
  /\ manager' = "check_stop"
  /\ UNCHANGED <<counter, overflow_data, stop_flag, task, owner>>

ManagerCheckStop ==
  /\ manager = "check_stop"
  /\ manager' = IF stop_flag THEN "exited" ELSE "check_limit"
  /\ UNCHANGED <<counter, overflow_data, stop_flag, task, owner>>

\* Mutant of ManagerCheckLimit: looks at the queue only.
ManagerCheckLimitUnbounded ==
  /\ manager = "check_limit"
  /\ manager' = IF overflow_data # <<>> THEN "spawn" ELSE "wait"
  /\ UNCHANGED <<counter, overflow_data, stop_flag, task, owner>>

ManagerCheckLimit ==
  /\ manager = "check_limit"
  /\ manager' = IF counter < limit /\ overflow_data # <<>>
                THEN "spawn" ELSE "wait"
  /\ UNCHANGED <<counter, overflow_data, stop_flag, task, owner>>

\* Mutants of ManagerSpawn: without the ++counter; without the pop_front.
ManagerSpawnUncounted ==
  /\ manager = "spawn"
  /\ task' = [task EXCEPT ![Head(overflow_data)] = "running"]
  /\ overflow_data' = Tail(overflow_data)
  /\ manager' = "check_limit"
  /\ UNCHANGED <<counter, stop_flag, owner>>

ManagerSpawnNoPop ==
  /\ manager = "spawn"
  /\ task' = [task EXCEPT ![Head(overflow_data)] = "running"]
  /\ counter' = counter + 1
  /\ manager' = "check_limit"
  /\ UNCHANGED <<overflow_data, stop_flag, owner>>

ManagerSpawn ==
  /\ manager = "spawn"
  /\ task' = [task EXCEPT ![Head(overflow_data)] = "running"]
  /\ overflow_data' = Tail(overflow_data)
  /\ counter' = counter + 1
  /\ manager' = "check_limit"
  /\ UNCHANGED <<stop_flag, owner>>

\* cv->wait releases the mutex and starts to wait.
ManagerWait ==
  /\ manager = "wait"
  /\ manager' = "waiting"
  /\ UNCHANGED <<counter, overflow_data, stop_flag, task, owner>>

\* std::condition_variable allows a wait to return without a notification.
ManagerSpuriousWake ==
  /\ manager = "waiting"
  /\ manager' = "notified"
  /\ UNCHANGED <<counter, overflow_data, stop_flag, task, owner>>

-----------------------------------------------------------------------------
(* internal_thread_function, one thread per connection; an exception in    *)
(* either call is caught and changes nothing else.                         *)

RunFn(t) ==
  /\ task[t] = "running"
  /\ task' = [task EXCEPT ![t] = "cleanup"]
  /\ UNCHANGED <<counter, overflow_data, stop_flag, manager, owner>>

RunCleanup(t) ==
  /\ task[t] = "cleanup"
  /\ task' = [task EXCEPT ![t] = "decrement"]
  /\ UNCHANGED <<counter, overflow_data, stop_flag, manager, owner>>

DecrementCounter(t) ==
  /\ task[t] = "decrement"
  /\ counter' = counter - 1
  /\ task' = [task EXCEPT ![t] = "notify"]
  /\ UNCHANGED <<overflow_data, stop_flag, manager, owner>>

NotifyDone(t) ==
  /\ task[t] = "notify"
  /\ NotifyAll
  /\ task' = [task EXCEPT ![t] = "gone"]
  /\ UNCHANGED <<counter, overflow_data, stop_flag, owner>>

-----------------------------------------------------------------------------
ThreadStep(t) ==
  RunFn(t) \/ RunCleanup(t) \/ DecrementCounter(t) \/ NotifyDone(t)

ManagerStep ==
  ManagerLock \/ ManagerCheckStop \/ ManagerCheckLimit \/ ManagerSpawn
    \/ ManagerWait

\* What the owner does without waiting for a new connection or a shutdown.
OwnerStep ==
  \/ \E t \in Tasks : AddThreadEnqueue(t) \/ AddThreadSpawn(t)
  \/ CloseNotify
  \/ CloseJoin
  \/ CloseDropOne
  \/ CloseDropEnd
  \/ ClosePoll

Next ==
  \/ \E t \in Tasks : AddThreadCheck(t) \/ ThreadStep(t)
  \/ OwnerStep
  \/ CloseStore
  \/ ManagerStep
  \/ ManagerSpuriousWake

Spec == Init /\ [][Next]_vars

-----------------------------------------------------------------------------
(* Properties                                                              *)

\* counter is exactly the number of threads between their ++ and their --,
\* although ++ and -- are done by three different kinds of threads.
CounterIsExact == counter = Cardinality(Counted)

\* The check of counter and its ++ are two steps in add_thread and in the
\* manager.  One of the two may overtake the other, but only once: the limit
\* is never exceeded by more than one thread.
OvershootAtMostOne == Cardinality(Counted) <= limit + 1

\* When the destructor (or the part of operator= that gives up the old
\* executor) has returned, no connection is queued,
\* running or still to be cleaned up: cleanup_fn has run for all of them.
DestroyedIsQuiet ==
  owner = "destroyed" =>
    \A t \in Tasks : task[t] \in {"new", "notify", "gone", "dropped"}

\* The executor keeps the promise of TaskService.  A connection is pending
\* from the moment add_thread has been called with it.
Phase(s) ==
  CASE s = "new" -> "new"
    [] s \in {"adding", "queued"} -> "pending"
    [] s \in {"running", "cleanup"} -> "running"
    [] s \in {"decrement", "notify", "gone", "dropped"} -> "released"

AbstractStatus == [t \in Tasks |-> Phase(task[t])]

Service == INSTANCE TaskService WITH
  status <- AbstractStatus,
  closing <- stop_flag,
  closed <- (owner = "destroyed")

ServiceSpec == Service!Spec
=============================================================================
