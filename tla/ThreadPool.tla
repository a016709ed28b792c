----------------------------- MODULE ThreadPool -----------------------------
(***************************************************************************)
(* The worker pool of cxx_impl/src/thread_pool.cc, the default executor of *)
(* connections.  The owner's thread calls add_func, set_thread_count and   *)
(* the destructor; workers run thread_function.  The mutex guards          *)
(* pending_fns; stop_var is an atomic that is read and written outside it. *)
(***************************************************************************)
EXTENDS Integers, Sequences, FiniteSets

CONSTANTS
  Tasks,                \* the connections handed to add_func
  MaxCount,             \* bound: the largest argument of set_thread_count
  DEFAULT_THREAD_COUNT,
  None                  \* a worker without a function to run

ASSUME CountAssumption ==
  /\ MaxCount \in Nat
  /\ DEFAULT_THREAD_COUNT \in 1..MaxCount
ASSUME NoneAssumption == None \notin Tasks

Workers == 1..MaxCount

VARIABLES
  pending_fns,  \* a vector used as a stack: workers take from its back
  stop_var,
  task,         \* task[t]: how far connection t has come
  worker,       \* worker[w]: program counter of worker w, "off" if no thread
  fn,           \* fn[w]: the connection worker w has taken
  owner,        \* program counter of the owner's thread
  count         \* argument of the running set_thread_count

vars == <<pending_fns, stop_var, task, worker, fn, owner, count>>

TaskState == {"new", "pending", "running", "cleanup", "done", "dropped"}

WorkerPc == {"off", "top", "lock", "test", "waiting", "notified",
             "top_locked", "run", "cleanup", "exited"}

OwnerPc == {"ready", "add_notify", "count_stop", "count_notify",
            "count_join", "dtor_notify", "dtor_join", "dtor_drop",
            "destroyed"}

thread_handles == {w \in Workers : worker[w] # "off"}

\* Between its lock() and its unlock(), or inside the loop after a wait.
MutexFree == \A w \in Workers : worker[w] \notin {"test", "top_locked"}

TypeOK ==
  /\ pending_fns \in Seq(Tasks)
  /\ stop_var \in BOOLEAN
  /\ task \in [Tasks -> TaskState]
  /\ worker \in [Workers -> WorkerPc]
  /\ fn \in [Workers -> Tasks \cup {None}]
  /\ owner \in OwnerPc
  /\ count \in 0..MaxCount

Init ==
  /\ pending_fns = <<>>
  /\ stop_var = FALSE
  /\ task = [t \in Tasks |-> "new"]
  /\ worker = [w \in Workers |-> "off"]
  /\ fn = [w \in Workers |-> None]
  /\ owner = "ready"
  /\ count = 0

\* Notifications reach the workers that wait at that moment and no others.
NotifyAll ==
  worker' = [w \in Workers |->
               IF worker[w] = "waiting" THEN "notified" ELSE worker[w]]

NotifyOne ==
  \/ \E w \in Workers : /\ worker[w] = "waiting"
                        /\ worker' = [worker EXCEPT ![w] = "notified"]
  \/ /\ \A w \in Workers : worker[w] # "waiting"
     /\ UNCHANGED worker

-----------------------------------------------------------------------------
(* The owner: add_func, set_thread_count, ~ThreadPool.                     *)

\* add_func pushes under the mutex ...
AddFunc(t) ==
  /\ owner = "ready"
  /\ task[t] = "new"
  /\ MutexFree
  /\ pending_fns' = Append(pending_fns, t)
  /\ task' = [task EXCEPT ![t] = "pending"]
  /\ owner' = "add_notify"
  /\ UNCHANGED <<stop_var, worker, fn, count>>

\* Mutant of AddFuncNotify: the notification is forgotten.
AddFuncNoNotify ==
  /\ owner = "add_notify"
  /\ owner' = IF thread_handles = {} THEN "count_stop" ELSE "ready"
  /\ count' = IF thread_handles = {} THEN DEFAULT_THREAD_COUNT ELSE count
  /\ UNCHANGED <<pending_fns, stop_var, task, worker, fn>>

\* ... and notifies after it has unlocked; a pool without threads gets the
\* default number of them.
AddFuncNotify ==
  /\ owner = "add_notify"
  /\ NotifyOne
  /\ owner' = IF thread_handles = {} THEN "count_stop" ELSE "ready"
  /\ count' = IF thread_handles = {} THEN DEFAULT_THREAD_COUNT ELSE count
  /\ UNCHANGED <<pending_fns, stop_var, task, fn>>

\* Mutant of SetThreadCount: one thread more than asked for.
SetThreadCountOneMore(n) ==
  /\ owner = "ready"
  /\ count' = n + 1
  /\ owner' = "count_stop"
  /\ UNCHANGED <<pending_fns, stop_var, task, worker, fn>>

SetThreadCount(n) ==
  /\ owner = "ready"
  /\ count' = n
  /\ owner' = "count_stop"
  /\ UNCHANGED <<pending_fns, stop_var, task, worker, fn>>

\* set_thread_count and the destructor store stop_var and then notify, both
\* without the mutex.
CountStop ==
  /\ owner = "count_stop"
  /\ stop_var' = TRUE
  /\ owner' = "count_notify"
  /\ UNCHANGED <<pending_fns, task, worker, fn, count>>

DtorStop ==
  /\ owner = "ready"
  /\ stop_var' = TRUE
  /\ owner' = "dtor_notify"
  /\ UNCHANGED <<pending_fns, task, worker, fn, count>>

StopNotify ==
  /\ \/ owner = "count_notify" /\ owner' = "count_join"
     \/ owner = "dtor_notify" /\ owner' = "dtor_join"
  /\ NotifyAll
  /\ UNCHANGED <<pending_fns, stop_var, task, fn, count>>

\* join all, a fresh stop_var and cond_var, then the new threads.
CountJoin ==
  /\ owner = "count_join"
  /\ \A w \in thread_handles : worker[w] = "exited"
  /\ stop_var' = FALSE
  /\ worker' = [w \in Workers |-> IF w <= count THEN "top" ELSE "off"]
  /\ owner' = "ready"
  /\ UNCHANGED <<pending_fns, task, fn, count>>

\* Mutant of DtorJoin: the threads are not joined.
DtorNoJoin ==
  /\ owner = "dtor_join"
  /\ owner' = "dtor_drop"
  /\ UNCHANGED <<pending_fns, stop_var, task, worker, fn, count>>

DtorJoin ==
  /\ owner = "dtor_join"
  /\ \A w \in thread_handles : worker[w] = "exited"
  /\ owner' = "dtor_drop"
  /\ UNCHANGED <<pending_fns, stop_var, task, worker, fn, count>>

\* cleanup_fn of the next connection no worker has taken.
DtorDropOne ==
  /\ owner = "dtor_drop"
  /\ pending_fns # <<>>
  /\ task' = [task EXCEPT ![Head(pending_fns)] = "dropped"]
  /\ pending_fns' = Tail(pending_fns)
  /\ UNCHANGED <<stop_var, worker, fn, owner, count>>

DtorDropEnd ==
  /\ owner = "dtor_drop"
  /\ pending_fns = <<>>
  /\ owner' = "destroyed"
  /\ UNCHANGED <<pending_fns, stop_var, task, worker, fn, count>>

-----------------------------------------------------------------------------
(* thread_function                                                         *)

\* The while condition, without and with the lock; leaving the function
\* releases the lock.
WorkerTop(w) ==
  /\ \/ worker[w] = "top"
        /\ worker' = [worker EXCEPT ![w] = IF stop_var THEN "exited" ELSE "lock"]
     \/ worker[w] = "top_locked"
        /\ worker' = [worker EXCEPT ![w] = IF stop_var THEN "exited" ELSE "test"]
  /\ UNCHANGED <<pending_fns, stop_var, task, fn, owner, count>>

WorkerLock(w) ==
  /\ worker[w] = "lock"
  /\ MutexFree
  /\ worker' = [worker EXCEPT ![w] = "test"]
  /\ UNCHANGED <<pending_fns, stop_var, task, fn, owner, count>>

\* Mutant of TakeBack: the function stays in the vector.
TakeBackNoPop(w) ==
  LET t == pending_fns[Len(pending_fns)] IN
    /\ task' = [task EXCEPT ![t] = "running"]
    /\ fn' = [fn EXCEPT ![w] = t]
    /\ worker' = [worker EXCEPT ![w] = "run"]
    /\ UNCHANGED pending_fns

\* Moves the back of the vector out, pops it and unlocks.
TakeBack(w) ==
  LET t == pending_fns[Len(pending_fns)] IN
    /\ pending_fns' = SubSeq(pending_fns, 1, Len(pending_fns) - 1)
    /\ task' = [task EXCEPT ![t] = "running"]
    /\ fn' = [fn EXCEPT ![w] = t]
    /\ worker' = [worker EXCEPT ![w] = "run"]


\* Lock held: take a function, or wait if there is none.
WorkerTest(w) ==
  /\ worker[w] = "test"
  /\ \/ pending_fns # <<>> /\ TakeBack(w)
     \/ /\ pending_fns = <<>>
        /\ worker' = [worker EXCEPT ![w] = "waiting"]
        /\ UNCHANGED <<pending_fns, task, fn>>
  /\ UNCHANGED <<stop_var, owner, count>>

WorkerSpuriousWake(w) ==
  /\ worker[w] = "waiting"
  /\ worker' = [worker EXCEPT ![w] = "notified"]
  /\ UNCHANGED <<pending_fns, stop_var, task, fn, owner, count>>

\* wait() has the lock again.  It is not in a loop of its own: a worker that
\* finds nothing goes back to the while condition and keeps the lock.
WorkerAwake(w) ==
  /\ worker[w] = "notified"
  /\ MutexFree
  /\ \/ pending_fns # <<>> /\ TakeBack(w)
     \/ /\ pending_fns = <<>>
        /\ worker' = [worker EXCEPT ![w] = "top_locked"]
        /\ UNCHANGED <<pending_fns, task, fn>>
  /\ UNCHANGED <<stop_var, owner, count>>

\* fn(ud), then cleanup_fn(ud); an exception in either is caught.
WorkerRun(w) ==
  /\ worker[w] = "run"
  /\ task' = [task EXCEPT ![fn[w]] = "cleanup"]
  /\ worker' = [worker EXCEPT ![w] = "cleanup"]
  /\ UNCHANGED <<pending_fns, stop_var, fn, owner, count>>

WorkerCleanup(w) ==
  /\ worker[w] = "cleanup"
  /\ task' = [task EXCEPT ![fn[w]] = "done"]
  /\ fn' = [fn EXCEPT ![w] = None]
  /\ worker' = [worker EXCEPT ![w] = "top"]
  /\ UNCHANGED <<pending_fns, stop_var, owner, count>>

-----------------------------------------------------------------------------
WorkerStep(w) ==
  \/ WorkerTop(w) \/ WorkerLock(w) \/ WorkerTest(w) \/ WorkerAwake(w)
  \/ WorkerRun(w) \/ WorkerCleanup(w)

\* What the owner does without waiting for a connection or a shutdown.
OwnerStep ==
  \/ AddFuncNotify
  \/ CountStop
  \/ StopNotify
  \/ CountJoin
  \/ DtorJoin
  \/ DtorDropOne
  \/ DtorDropEnd

Next ==
  \/ \E t \in Tasks : AddFunc(t)
  \/ \E n \in 0..MaxCount : SetThreadCount(n)
  \/ DtorStop
  \/ OwnerStep
  \/ \E w \in Workers : WorkerStep(w) \/ WorkerSpuriousWake(w)

Spec == Init /\ [][Next]_vars

\* Every thread that can run is scheduled again and again, and connections
\* end (the handler gives up after THREAD_TIMEOUT_TICKS); nobody promises a
\* new connection, a change of the thread count, a shutdown or a spurious
\* wakeup.
Fairness ==
  /\ WF_vars(OwnerStep)
  /\ \A w \in Workers : WF_vars(WorkerStep(w))

FairSpec == Spec /\ Fairness

-----------------------------------------------------------------------------
(* Properties                                                              *)

\* add_func notifies after it has unlocked, and one notification may find
\* nobody waiting.  Even so no connection is ever left in the vector while
\* every thread of the pool sleeps: once add_func has returned, some thread
\* is awake (running a connection, about to look at the vector, or gone
\* because of stop_var).
NoSleepingBacklog ==
  pending_fns # <<>> /\ owner # "add_notify" /\ thread_handles # {}
    => \E w \in thread_handles : worker[w] # "waiting"

\* The connections in the vector are exactly the pending ones and nothing is
\* in it twice; a worker's fn is the connection it works on and nobody
\* else's.
OneHolder ==
  /\ \A t \in Tasks : task[t] = "pending" <=>
       \E i \in DOMAIN pending_fns : pending_fns[i] = t
  /\ \A i, j \in DOMAIN pending_fns :
       pending_fns[i] = pending_fns[j] => i = j
  /\ \A w \in Workers : worker[w] \in {"run", "cleanup"} =>
       /\ fn[w] \in Tasks
       /\ task[fn[w]] = IF worker[w] = "run" THEN "running" ELSE "cleanup"
  /\ \A v, w \in Workers :
       fn[v] = fn[w] /\ fn[v] # None => v = w


\* The signal handler's request to end is answered: the destructor returns.
ShutdownTerminates == (owner = "dtor_notify") ~> (owner = "destroyed")

\* The pool keeps the promise of TaskService.
Phase(s) ==
  CASE s = "new" -> "new"
    [] s = "pending" -> "pending"
    [] s \in {"running", "cleanup"} -> "running"
    [] s \in {"done", "dropped"} -> "released"

AbstractStatus == [t \in Tasks |-> Phase(task[t])]

Closing == owner \in {"dtor_notify", "dtor_join", "dtor_drop", "destroyed"}

Service == INSTANCE TaskService WITH
  status <- AbstractStatus,
  closing <- Closing,
  closed <- (owner = "destroyed")

ServiceSpec == Service!Spec
=============================================================================
