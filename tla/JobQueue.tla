------------------------------ MODULE JobQueue ------------------------------
(***************************************************************************)
(* What courierust_pool promises its callers: a FIFO of jobs of which each *)
(* is started once, in the order of submission, and is started and ended   *)
(* unless the pool is closed first.  Threads, the mutex and the condition  *)
(* variable are the implementation's (WorkPool).                           *)
(***************************************************************************)
EXTENDS Naturals, Sequences

CONSTANT QueueJobs

VARIABLES queue,  \* jobs accepted and not started, in order
          state,  \* how far each job has got
          closed  \* the pool is being dropped

qvars == <<queue, state, closed>>

QInit == queue = <<>> /\ state = [j \in QueueJobs |-> "new"] /\ closed = FALSE

\* spawn()
Enqueue(j) ==
    /\ state[j] = "new"
    /\ queue' = Append(queue, j) /\ state' = [state EXCEPT ![j] = "queued"]
    /\ UNCHANGED closed

\* A worker takes the oldest job; one that was looking already may do so after a close.
StartNext ==
    /\ queue # <<>>
    /\ queue' = Tail(queue) /\ state' = [state EXCEPT ![Head(queue)] = "running"]
    /\ UNCHANGED closed

\* run_job() returns, by itself or by a panic.
Complete(j) ==
    /\ state[j] = "running"
    /\ state' = [state EXCEPT ![j] = "done"]
    /\ UNCHANGED <<queue, closed>>

\* Drop: what is still queued may never start.
CloseQueue == ~closed /\ closed' = TRUE /\ UNCHANGED <<queue, state>>

QNext == StartNext \/ CloseQueue \/ \E j \in QueueJobs : Enqueue(j) \/ Complete(j)

\* What may happen, and what must.
QSafe == QInit /\ [][QNext]_qvars
QSpec ==
    /\ QSafe
    /\ WF_qvars(~closed /\ StartNext)
    /\ \A j \in QueueJobs : WF_qvars(Complete(j))
=============================================================================
