------------------------------ MODULE WorkPool ------------------------------
(***************************************************************************)
(* courierust_pool::ThreadPool: workers, the global FIFO, the condition    *)
(* variable idle workers park on, spawn() and Drop.                        *)
(*                                                                         *)
(* A step is what one thread does between two points where another thread *)
(* can observe it: one critical section of the `global` mutex, one atomic  *)
(* load or store of `shutdown`, one notify.  Parking is three steps        *)
(* (lock, test, wait), because `shutdown` and the notifications of spawn   *)
(* and Drop are not protected by the mutex the test holds.                 *)
(*                                                                         *)
(* No code path pushes to Worker::local, so the pop_back() of run() and    *)
(* the pop_front() of steal() always return None: both are stuttering and  *)
(* idle_seq / park_seq, which only choose the victim, are left out.        *)
(*                                                                         *)
(* A ThreadPool is shared through Arc.  A job that submits jobs holds a    *)
(* handle, so the pool cannot be dropped before it has run; Drop therefore *)
(* never overlaps a spawn, and spawn's early return on `shutdown` is dead. *)
(***************************************************************************)
EXTENDS Naturals, Sequences, FiniteSets

CONSTANTS Workers,   \* worker threads
          Jobs,      \* the closures that may be submitted
          Owner,     \* the thread that created the pool and drops it
          Submitter, \* who submits a job: Owner, or the job whose body does
          None       \* no thread or no job

ASSUME PoolAssumption ==
    /\ Workers # {} /\ IsFiniteSet(Workers)
    /\ Owner \notin Workers /\ None \notin Workers \cup {Owner}
    /\ None \notin Jobs /\ Owner \notin Jobs
    /\ Submitter \in [Jobs -> Jobs \cup {Owner}]

VARIABLES global,    \* Shared::global, jobs in submission order
          holder,    \* who holds the mutex of `global`
          waiting,   \* workers inside has_work.wait()
          shutdown,  \* Shared::shutdown
          pc,        \* where each worker is in Worker::run
          running,   \* the job each worker is running
          status,    \* how far each job has got
          notify,    \* threads between push_back() and notify_one()
          opc        \* where the owner is: "live", then the steps of drop()

vars == <<global, holder, waiting, shutdown, pc, running, status, notify, opc>>

Threads == Workers \cup {Owner}

WorkerPc == {"top", "pop", "run", "park", "test", "wait", "parked", "woken", "exited"}

JobStatus == {"new", "queued", "running", "done"}

\* Jobs whose body owns a clone of the Arc<ThreadPool>.
HoldsHandle(j) == \E k \in Jobs : Submitter[k] = j

Init ==
    /\ global = <<>>
    /\ holder = None
    /\ waiting = {}
    /\ shutdown = FALSE
    /\ pc = [w \in Workers |-> "top"]
    /\ running = [w \in Workers |-> None]
    /\ status = [j \in Jobs |-> "new"]
    /\ notify = {}
    /\ opc = "live"

-----------------------------------------------------------------------------
(* Submitting: ThreadPool::spawn *)

\* The body of job j's submitter is executing on thread t.
Submits(t, j) ==
    IF t = Owner THEN Submitter[j] = Owner /\ opc = "live"
                 ELSE pc[t] = "run" /\ running[t] = Submitter[j]

\* Faulty variant: the guard outlives the push_back statement.
SpawnPushKeepsGuard(t, j) ==
    /\ status[j] = "new" /\ Submits(t, j) /\ t \notin notify
    /\ holder = None
    /\ holder' = t
    /\ global' = Append(global, j)
    /\ status' = [status EXCEPT ![j] = "queued"]
    /\ notify' = notify \cup {t}
    /\ UNCHANGED <<waiting, shutdown, pc, running, opc>>

\* lock(global).push_back(job), the guard released at the end of the statement.
SpawnPush(t, j) ==
    /\ status[j] = "new" /\ Submits(t, j) /\ t \notin notify
    /\ holder = None
    /\ global' = Append(global, j)
    /\ status' = [status EXCEPT ![j] = "queued"]
    /\ notify' = notify \cup {t}
    /\ UNCHANGED <<holder, waiting, shutdown, pc, running, opc>>

\* Faulty variant: spawn() forgets notify_one().
SpawnNotifyNobody(t) ==
    /\ t \in notify
    /\ notify' = notify \ {t}
    /\ UNCHANGED <<global, holder, waiting, shutdown, pc, running, status, opc>>

\* has_work.notify_one(): one of the waiting workers, if there is any.
SpawnNotify(t) ==
    /\ t \in notify
    /\ notify' = notify \ {t}
    /\ \/ /\ waiting = {}
          /\ UNCHANGED <<waiting, pc>>
       \/ \E w \in waiting :
             /\ waiting' = waiting \ {w}
             /\ pc' = [pc EXCEPT ![w] = "woken"]
    /\ UNCHANGED <<global, holder, shutdown, running, status, opc>>

-----------------------------------------------------------------------------
(* Worker::run *)

\* The shutdown test at the head of the loop; the local queue is empty.
Top(w) ==
    /\ pc[w] = "top"
    /\ pc' = [pc EXCEPT ![w] = IF shutdown THEN "exited" ELSE "pop"]
    /\ UNCHANGED <<global, holder, waiting, shutdown, running, status, notify, opc>>

\* Faulty variant: front() instead of pop_front().
PopGlobalPeeks(w) ==
    /\ pc[w] = "pop" /\ holder = None /\ global # <<>>
    /\ running' = [running EXCEPT ![w] = Head(global)]
    /\ status' = [status EXCEPT ![Head(global)] = "running"]
    /\ pc' = [pc EXCEPT ![w] = "run"]
    /\ UNCHANGED <<global, holder, waiting, shutdown, notify, opc>>

\* lock(global).pop_front(), the guard dropped before the job runs.
PopGlobal(w) ==
    /\ pc[w] = "pop" /\ holder = None
    /\ \/ /\ global # <<>>
          /\ global' = Tail(global)
          /\ running' = [running EXCEPT ![w] = Head(global)]
          /\ status' = [status EXCEPT ![Head(global)] = "running"]
          /\ pc' = [pc EXCEPT ![w] = "run"]
       \/ /\ global = <<>>
          /\ pc' = [pc EXCEPT ![w] = "park"]
          /\ UNCHANGED <<global, running, status>>
    /\ UNCHANGED <<holder, waiting, shutdown, notify, opc>>

\* run_job returns, after the closure or after catching its panic; a panic
\* may leave some of its submissions undone.
FinishJob(w) ==
    /\ pc[w] = "run" /\ w \notin notify
    /\ status' = [status EXCEPT ![running[w]] = "done"]
    /\ running' = [running EXCEPT ![w] = None]
    /\ pc' = [pc EXCEPT ![w] = "top"]
    /\ UNCHANGED <<global, holder, waiting, shutdown, notify, opc>>

\* lock(global) before the parking loop, or the relock inside wait().
ParkLock(w) ==
    /\ pc[w] \in {"park", "woken"} /\ holder = None
    /\ holder' = w
    /\ pc' = [pc EXCEPT ![w] = "test"]
    /\ UNCHANGED <<global, waiting, shutdown, running, status, notify, opc>>

\* Faulty variant: the guard is released between the test and the wait.
ParkTestUnlocks(w) ==
    /\ pc[w] = "test"
    /\ holder' = None
    /\ pc' = [pc EXCEPT ![w] = IF global = <<>> /\ ~shutdown THEN "wait" ELSE "top"]
    /\ UNCHANGED <<global, waiting, shutdown, running, status, notify, opc>>

\* while g.is_empty() && !shutdown.load(): the guard is still held.
ParkTest(w) ==
    /\ pc[w] = "test"
    /\ \/ /\ global = <<>> /\ ~shutdown
          /\ pc' = [pc EXCEPT ![w] = "wait"]
          /\ UNCHANGED holder
       \/ /\ global # <<>> \/ shutdown
          /\ pc' = [pc EXCEPT ![w] = "top"]
          /\ holder' = None
    /\ UNCHANGED <<global, waiting, shutdown, running, status, notify, opc>>

\* has_work.wait(g): releases the mutex and joins the wait set atomically.
ParkWait(w) ==
    /\ pc[w] = "wait"
    /\ holder' = None
    /\ waiting' = waiting \cup {w}
    /\ pc' = [pc EXCEPT ![w] = "parked"]
    /\ UNCHANGED <<global, shutdown, running, status, notify, opc>>

\* A Condvar may wake a waiter nobody notified.
SpuriousWakeup(w) ==
    /\ w \in waiting
    /\ waiting' = waiting \ {w}
    /\ pc' = [pc EXCEPT ![w] = "woken"]
    /\ UNCHANGED <<global, holder, shutdown, running, status, notify, opc>>

-----------------------------------------------------------------------------
(* Drop for ThreadPool, run by the owner once no job holds a handle *)

DropStore ==
    /\ opc = "live" /\ Owner \notin notify
    /\ \A j \in Jobs : HoldsHandle(j) => status[j] \in {"new", "done"}
    /\ shutdown' = TRUE
    /\ opc' = "notify_all"
    /\ UNCHANGED <<global, holder, waiting, pc, running, status, notify>>

DropNotifyAll ==
    /\ opc = "notify_all"
    /\ waiting' = {}
    /\ pc' = [w \in Workers |-> IF w \in waiting THEN "woken" ELSE pc[w]]
    /\ opc' = "join"
    /\ UNCHANGED <<global, holder, shutdown, running, status, notify>>

DropJoin ==
    /\ opc = "join"
    /\ \A w \in Workers : pc[w] = "exited"
    /\ opc' = "joined"
    /\ UNCHANGED <<global, holder, waiting, shutdown, pc, running, status, notify>>

-----------------------------------------------------------------------------

WorkerStep(w) ==
    \/ Top(w) \/ PopGlobal(w) \/ FinishJob(w)
    \/ ParkLock(w) \/ ParkTest(w) \/ ParkWait(w)

Submit == \E t \in Threads, j \in Jobs : SpawnPush(t, j)

Drop == DropStore \/ DropNotifyAll \/ DropJoin

Next ==
    \/ Submit
    \/ \E t \in Threads : SpawnNotify(t)
    \/ \E w \in Workers : WorkerStep(w) \/ SpuriousWakeup(w)
    \/ Drop

Spec == Init /\ [][Next]_vars

(***************************************************************************)
(* Every thread is scheduled.  Taking the mutex needs strong fairness: it  *)
(* is free infinitely often and the OS mutex does not pass one waiter over *)
(* for ever.  Submitting, dropping and spurious wake-ups may never happen. *)
(***************************************************************************)
Fairness ==
    /\ \A w \in Workers :
          /\ WF_vars(Top(w) \/ FinishJob(w) \/ ParkTest(w) \/ ParkWait(w))
          /\ SF_vars(PopGlobal(w) \/ ParkLock(w))
    /\ \A t \in Threads : WF_vars(SpawnNotify(t))
    /\ WF_vars(DropNotifyAll) /\ WF_vars(DropJoin)

FairSpec == Spec /\ Fairness

-----------------------------------------------------------------------------
(* Properties *)

TypeOK ==
    /\ global \in Seq(Jobs)
    /\ holder \in Workers \cup {None}
    /\ waiting \in SUBSET Workers
    /\ shutdown \in BOOLEAN
    /\ pc \in [Workers -> WorkerPc]
    /\ running \in [Workers -> Jobs \cup {None}]
    /\ status \in [Jobs -> JobStatus]
    /\ notify \in SUBSET Threads
    /\ opc \in {"live", "notify_all", "join", "joined"}

\* The mutex discipline of the parking loop: only the worker between taking
\* the guard and giving it up is its holder.
HolderInv == \A w \in Workers : holder = w <=> pc[w] \in {"test", "wait"}

\* A job is where its status says, and nowhere else: submitted jobs are in the
\* global queue once, popped jobs are on exactly one worker (run() pops under
\* the lock and drops the guard before it runs the job).
JobsInOnePlace ==
    /\ \A j \in Jobs :
          /\ (status[j] = "queued") <=> (\E i \in DOMAIN global : global[i] = j)
          /\ (status[j] = "running") <=> (\E w \in Workers : running[w] = j)
    /\ \A i, k \in DOMAIN global : global[i] = global[k] => i = k
    /\ \A v, w \in Workers : running[v] = running[w] /\ running[v] # None => v = w

\* No lost wake-up on submission: while jobs are queued and workers are parked,
\* the workers already looking for work and the notifications still to be
\* delivered cover the backlog (push_back under the lock, then notify_one).
Seeking == {w \in Workers : pc[w] \in {"top", "pop", "park", "test", "woken"}}
BacklogCovered ==
    waiting # {} /\ ~shutdown
        => Len(global) <= Cardinality(Seeking) + Cardinality(notify)

\* The pool is a fair FIFO of jobs, whatever its threads do between the lock, the
\* condition variable and the shutdown flag: spawn(), run() and Drop implement JobQueue.
Queue == INSTANCE JobQueue WITH QueueJobs <- Jobs, queue <- global, state <- status, closed <- shutdown
PoolIsQueue == Queue!QSpec

=============================================================================
