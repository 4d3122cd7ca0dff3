--------------------------- MODULE WorkPoolProofs ---------------------------
(***************************************************************************)
(* Proofs about WorkPool for every set of workers and jobs.                *)
(*                                                                         *)
(* Layers, each proved inductive with the help of the ones before it:      *)
(*   TypeOK          types                                                 *)
(*   LockInv         who holds the mutex, who is in the wait set, and that *)
(*                   the queue is still empty when a worker is about to    *)
(*                   wait on the condition variable                        *)
(*   BacklogCovered  no notification of spawn() is lost                    *)
(*   PlaceInv        a job is in one place                                 *)
(***************************************************************************)
EXTENDS WorkPool, FiniteSetTheorems, TLAPS

\* The state of the mutex and of the wait set follows from the workers' program
\* counters; a worker that tested the queue keeps it empty until it waits.
LockInv ==
    /\ HolderInv
    /\ waiting = {w \in Workers : pc[w] = "parked"}
    /\ \A w \in Workers : pc[w] = "wait" => global = <<>>

\* What JobsInOnePlace needs to be inductive: only a worker at "run" has a job.
PlaceInv ==
    /\ JobsInOnePlace
    /\ \A w \in Workers : pc[w] = "run" <=> running[w] # None

-----------------------------------------------------------------------------

\* The initial state and every step of ThreadPool keep every variable in its type.
THEOREM TypeCorrect == Spec => []TypeOK
<1> USE PoolAssumption
<1>1. Init => TypeOK
  <2> SUFFICES ASSUME Init PROVE TypeOK
    OBVIOUS
  <2>1. global \in Seq(Jobs)
    BY DEF Init
  <2>2. pc \in [Workers -> WorkerPc] /\ status \in [Jobs -> JobStatus]
    BY DEF Init, WorkerPc, JobStatus
  <2>3. running \in [Workers -> Jobs \cup {None}]
    BY DEF Init
  <2> QED BY <2>1, <2>2, <2>3 DEF Init, TypeOK
<1>2. ASSUME TypeOK, [Next]_vars PROVE TypeOK'
  <2> USE <1>2 DEF TypeOK, WorkerPc, JobStatus, Threads
  <2>1. ASSUME NEW t \in Threads, NEW j \in Jobs, SpawnPush(t, j) PROVE TypeOK'
    BY <2>1 DEF SpawnPush
  <2>2. ASSUME NEW t \in Threads, SpawnNotify(t) PROVE TypeOK'
    BY <2>2 DEF SpawnNotify
  <2>3. ASSUME NEW w \in Workers, Top(w) PROVE TypeOK'
    BY <2>3 DEF Top
  <2>4. ASSUME NEW w \in Workers, PopGlobal(w) PROVE TypeOK'
    <3>1. CASE global = <<>>
      BY <2>4, <3>1 DEF PopGlobal
    <3>2. CASE global # <<>>
      <4>1. Head(global) \in Jobs /\ Tail(global) \in Seq(Jobs)
        BY <3>2
      <4>2. global' \in Seq(Jobs)
        BY <2>4, <3>2, <4>1 DEF PopGlobal
      <4>3. running' \in [Workers -> Jobs \cup {None}]
        BY <2>4, <3>2, <4>1 DEF PopGlobal
      <4>4. pc' \in [Workers -> WorkerPc] /\ status' \in [Jobs -> JobStatus]
        BY <2>4, <3>2, <4>1, ZenonT(60) DEF PopGlobal
      <4> QED BY <2>4, <4>2, <4>3, <4>4 DEF PopGlobal
    <3> QED BY <3>1, <3>2
  <2>5. ASSUME NEW w \in Workers, FinishJob(w) PROVE TypeOK'
    BY <2>5 DEF FinishJob
  <2>6. ASSUME NEW w \in Workers, ParkLock(w) PROVE TypeOK'
    BY <2>6 DEF ParkLock
  <2>7. ASSUME NEW w \in Workers, ParkTest(w) PROVE TypeOK'
    BY <2>7 DEF ParkTest
  <2>8. ASSUME NEW w \in Workers, ParkWait(w) PROVE TypeOK'
    BY <2>8 DEF ParkWait
  <2>9. ASSUME NEW w \in Workers, SpuriousWakeup(w) PROVE TypeOK'
    BY <2>9 DEF SpuriousWakeup
  <2>10. CASE Drop
    BY <2>10 DEF Drop, DropStore, DropNotifyAll, DropJoin
  <2>11. CASE UNCHANGED vars
    BY <2>11 DEF vars
  <2> QED
    BY <2>1, <2>2, <2>3, <2>4, <2>5, <2>6, <2>7, <2>8, <2>9, <2>10, <2>11
       DEF Next, WorkerStep, Submit
<1> QED BY <1>1, <1>2, PTL DEF Spec

\* One step of the pool keeps the mutex and wait-set discipline.
LEMMA LockStep ==
    ASSUME TypeOK, LockInv, [Next]_vars
    PROVE  LockInv'
<1> USE PoolAssumption DEF TypeOK, LockInv, HolderInv
<1>1. ASSUME NEW t \in Threads, NEW j \in Jobs, SpawnPush(t, j) PROVE LockInv'
  BY <1>1 DEF SpawnPush
<1>2. ASSUME NEW t \in Threads, SpawnNotify(t) PROVE LockInv'
  BY <1>2 DEF SpawnNotify
<1>3. ASSUME NEW w \in Workers, Top(w) PROVE LockInv'
  BY <1>3 DEF Top
<1>4. ASSUME NEW w \in Workers, PopGlobal(w) PROVE LockInv'
  BY <1>4 DEF PopGlobal
<1>5. ASSUME NEW w \in Workers, FinishJob(w) PROVE LockInv'
  BY <1>5 DEF FinishJob
<1>6. ASSUME NEW w \in Workers, ParkLock(w) PROVE LockInv'
  BY <1>6 DEF ParkLock
<1>7. ASSUME NEW w \in Workers, ParkTest(w) PROVE LockInv'
  BY <1>7 DEF ParkTest
<1>8. ASSUME NEW w \in Workers, ParkWait(w) PROVE LockInv'
  BY <1>8 DEF ParkWait
<1>9. ASSUME NEW w \in Workers, SpuriousWakeup(w) PROVE LockInv'
  BY <1>9 DEF SpuriousWakeup
<1>10. CASE Drop
  BY <1>10 DEF Drop, DropStore, DropNotifyAll, DropJoin
<1>11. CASE UNCHANGED vars
  BY <1>11 DEF vars
<1> QED
  BY <1>1, <1>2, <1>3, <1>4, <1>5, <1>6, <1>7, <1>8, <1>9, <1>10, <1>11
     DEF Next, WorkerStep, Submit

\* The worker that is between lock(global) and wait() or the end of the guard is
\* the only holder of the mutex.
THEOREM MutexDiscipline == Spec => []LockInv
<1>1. Init => LockInv
  BY PoolAssumption DEF Init, LockInv, HolderInv
<1>2. TypeOK /\ LockInv /\ [Next]_vars => LockInv'
  BY LockStep
<1> QED BY <1>1, <1>2, TypeCorrect, PTL DEF Spec

-----------------------------------------------------------------------------

\* The workers and the notifying threads can be counted.
LEMMA Countable ==
    ASSUME TypeOK
    PROVE  /\ IsFiniteSet(Seeking) /\ IsFiniteSet(notify)
           /\ Cardinality(Seeking) \in Nat /\ Cardinality(notify) \in Nat
<1>1. Seeking \subseteq Workers /\ notify \subseteq Threads
  BY DEF Seeking, TypeOK
<1>2. IsFiniteSet(Threads)
  BY PoolAssumption, FS_AddElement DEF Threads
<1>3. IsFiniteSet(Seeking) /\ IsFiniteSet(notify)
  BY <1>1, <1>2, PoolAssumption, FS_Subset
<1> QED BY <1>3, FS_CardinalityType

\* One step of the pool keeps the backlog covered.
LEMMA BacklogStep ==
    ASSUME TypeOK, TypeOK', LockInv, BacklogCovered, [Next]_vars
    PROVE  BacklogCovered'
<1> SUFFICES ASSUME waiting' # {}, ~shutdown'
             PROVE  Len(global') <= Cardinality(Seeking') + Cardinality(notify')
  BY DEF BacklogCovered
<1>0. /\ IsFiniteSet(Seeking) /\ IsFiniteSet(notify)
      /\ Cardinality(Seeking) \in Nat /\ Cardinality(notify) \in Nat
      /\ IsFiniteSet(Seeking') /\ IsFiniteSet(notify')
      /\ Cardinality(Seeking') \in Nat /\ Cardinality(notify') \in Nat
      /\ Len(global) \in Nat /\ Len(global') \in Nat
  <2>1. Len(global) \in Nat /\ Len(global') \in Nat
    BY DEF TypeOK
  <2>2. Seeking' \subseteq Workers /\ notify' \subseteq Threads
    BY DEF Seeking, TypeOK
  <2>3. IsFiniteSet(Threads)
    BY PoolAssumption, FS_AddElement DEF Threads
  <2>4. IsFiniteSet(Seeking') /\ IsFiniteSet(notify')
    BY <2>2, <2>3, PoolAssumption, FS_Subset
  <2> QED BY <2>1, <2>4, FS_CardinalityType, Countable
<1> DEFINE Covered == Len(global') <= Cardinality(Seeking') + Cardinality(notify')
<1>1. ASSUME NEW t \in Threads, NEW j \in Jobs, SpawnPush(t, j) PROVE Covered
  <2>1. Len(global') = Len(global) + 1
    BY <1>1 DEF SpawnPush, TypeOK
  <2>2. Cardinality(notify') = Cardinality(notify) + 1
    BY <1>0, <1>1, FS_AddElement DEF SpawnPush
  <2>3. Seeking' = Seeking
    BY <1>1 DEF SpawnPush, Seeking
  <2>4. waiting # {} /\ ~shutdown
    BY <1>1 DEF SpawnPush
  <2> QED BY <1>0, <2>1, <2>2, <2>3, <2>4 DEF BacklogCovered
<1>2. ASSUME NEW t \in Threads, SpawnNotify(t) PROVE Covered
  <2>1. PICK w \in waiting : waiting' = waiting \ {w} /\ pc' = [pc EXCEPT ![w] = "woken"]
    BY <1>2 DEF SpawnNotify
  <2>2. w \in Workers /\ pc[w] = "parked" /\ w \notin Seeking
    BY <2>1 DEF LockInv, Seeking
  <2>3. Seeking' = Seeking \cup {w}
    BY <2>1, <2>2 DEF Seeking, TypeOK
  <2>4. Cardinality(Seeking') = Cardinality(Seeking) + 1
    BY <1>0, <2>2, <2>3, FS_AddElement
  <2>5. Cardinality(notify') = Cardinality(notify) - 1
    BY <1>0, <1>2, FS_RemoveElement DEF SpawnNotify
  <2>6. waiting # {} /\ ~shutdown /\ global' = global
    BY <1>2, <2>1 DEF SpawnNotify
  <2> QED BY <1>0, <2>4, <2>5, <2>6 DEF BacklogCovered
<1>3. ASSUME NEW w \in Workers, Top(w) PROVE Covered
  <2>1. Seeking' = Seeking
    BY <1>3 DEF Top, Seeking, TypeOK
  <2> QED BY <1>0, <1>3, <2>1 DEF Top, BacklogCovered
<1>4. ASSUME NEW w \in Workers, PopGlobal(w) PROVE Covered
  <2>1. CASE global = <<>>
    <3>1. Len(global') = 0
      BY <1>4, <2>1 DEF PopGlobal
    <3> QED BY <1>0, <3>1
  <2>2. CASE global # <<>>
    <3>1. Len(global') = Len(global) - 1
      BY <1>4, <2>2 DEF PopGlobal, TypeOK
    <3>2. w \in Seeking /\ Seeking' = Seeking \ {w}
      BY <1>4, <2>2 DEF PopGlobal, Seeking, TypeOK
    <3>3. Cardinality(Seeking') = Cardinality(Seeking) - 1
      BY <1>0, <3>2, FS_RemoveElement
    <3>4. waiting # {} /\ ~shutdown /\ notify' = notify
      BY <1>4 DEF PopGlobal
    <3> QED BY <1>0, <3>1, <3>3, <3>4 DEF BacklogCovered
  <2> QED BY <2>1, <2>2
<1>5. ASSUME NEW w \in Workers, FinishJob(w) PROVE Covered
  <2>1. w \notin Seeking /\ Seeking' = Seeking \cup {w}
    BY <1>5 DEF FinishJob, Seeking, TypeOK
  <2>2. Cardinality(Seeking') = Cardinality(Seeking) + 1
    BY <1>0, <2>1, FS_AddElement
  <2> QED BY <1>0, <1>5, <2>2 DEF FinishJob, BacklogCovered
<1>6. ASSUME NEW w \in Workers, ParkLock(w) PROVE Covered
  <2>1. Seeking' = Seeking
    BY <1>6 DEF ParkLock, Seeking, TypeOK
  <2> QED BY <1>0, <1>6, <2>1 DEF ParkLock, BacklogCovered
<1>7. ASSUME NEW w \in Workers, ParkTest(w) PROVE Covered
  <2>1. CASE global = <<>>
    <3>1. Len(global') = 0
      BY <1>7, <2>1 DEF ParkTest
    <3> QED BY <1>0, <3>1
  <2>2. CASE global # <<>>
    <3>1. Seeking' = Seeking
      BY <1>7, <2>2 DEF ParkTest, Seeking, TypeOK
    <3> QED BY <1>0, <1>7, <3>1 DEF ParkTest, BacklogCovered
  <2> QED BY <2>1, <2>2
<1>8. ASSUME NEW w \in Workers, ParkWait(w) PROVE Covered
  <2>1. Len(global') = 0
    BY <1>8 DEF ParkWait, LockInv
  <2> QED BY <1>0, <2>1
<1>9. ASSUME NEW w \in Workers, SpuriousWakeup(w) PROVE Covered
  <2>1. pc[w] = "parked" /\ w \notin Seeking
    BY <1>9 DEF SpuriousWakeup, LockInv, Seeking
  <2>2. Seeking' = Seeking \cup {w}
    BY <1>9, <2>1 DEF SpuriousWakeup, Seeking, TypeOK
  <2>3. Cardinality(Seeking') = Cardinality(Seeking) + 1
    BY <1>0, <2>1, <2>2, FS_AddElement
  <2>4. waiting # {}
    BY <1>9 DEF SpuriousWakeup
  <2>5. ~shutdown /\ global' = global /\ notify' = notify
    BY <1>9 DEF SpuriousWakeup
  <2> QED BY <1>0, <2>3, <2>4, <2>5 DEF BacklogCovered
<1>10. CASE Drop
  <2>1. CASE DropJoin
    <3>1. Seeking' = Seeking
      BY <2>1 DEF DropJoin, Seeking
    <3> QED BY <2>1, <3>1 DEF DropJoin, BacklogCovered
  <2> QED BY <1>10, <2>1 DEF Drop, DropStore, DropNotifyAll
<1>11. CASE UNCHANGED vars
  <2>1. Seeking' = Seeking
    BY <1>11 DEF vars, Seeking
  <2> QED BY <1>11, <2>1 DEF vars, BacklogCovered
<1> QED
  BY <1>1, <1>2, <1>3, <1>4, <1>5, <1>6, <1>7, <1>8, <1>9, <1>10, <1>11
     DEF Next, WorkerStep, Submit

\* spawn() never loses a wake-up: however the workers interleave, a parked worker
\* is left asleep only while enough others are looking for the queued jobs.
THEOREM NoLostWakeup == Spec => []BacklogCovered
<1>1. Init => BacklogCovered
  BY DEF Init, BacklogCovered
<1>2. TypeOK /\ TypeOK' /\ LockInv /\ BacklogCovered /\ [Next]_vars => BacklogCovered'
  BY BacklogStep
<1> QED BY <1>1, <1>2, TypeCorrect, MutexDiscipline, PTL DEF Spec

-----------------------------------------------------------------------------

\* A step that moves no job keeps every job in its place.
LEMMA PlaceKept ==
    ASSUME PlaceInv, UNCHANGED <<global, running, status>>,
           \A w \in Workers : pc'[w] = "run" <=> pc[w] = "run"
    PROVE  PlaceInv'
BY DEF PlaceInv, JobsInOnePlace

\* Submitting, popping and finishing move one job from its place to the next.
LEMMA PlaceStep ==
    ASSUME TypeOK, PlaceInv, LockInv, [Next]_vars
    PROVE  PlaceInv'
<1>1. ASSUME NEW t \in Threads, NEW j \in Jobs, SpawnPush(t, j) PROVE PlaceInv'
  <2>1. /\ status[j] = "new"
        /\ status' = [status EXCEPT ![j] = "queued"]
        /\ running' = running /\ pc' = pc
        /\ global' = Append(global, j)
    BY <1>1 DEF SpawnPush
  <2>2. /\ Len(global') = Len(global) + 1
        /\ DOMAIN global = 1..Len(global) /\ DOMAIN global' = 1..(Len(global) + 1)
        /\ \A i \in 1..Len(global) : global'[i] = global[i]
        /\ global'[Len(global) + 1] = j
        /\ Len(global) \in Nat
    BY <2>1 DEF TypeOK
  <2>3. \A i \in DOMAIN global : global[i] # j
    BY <2>1 DEF PlaceInv, JobsInOnePlace
  <2>4. \A i, k \in DOMAIN global' : global'[i] = global'[k] => i = k
    BY <2>2, <2>3 DEF PlaceInv, JobsInOnePlace
  <2>5. ASSUME NEW x \in Jobs
        PROVE  (status'[x] = "queued") <=> (\E i \in DOMAIN global' : global'[i] = x)
    <3>1. CASE x = j
      BY <2>1, <2>2, <3>1 DEF TypeOK
    <3>2. CASE x # j
      <4>1. status'[x] = status[x]
        BY <2>1, <3>2 DEF TypeOK
      <4>2. (\E i \in DOMAIN global' : global'[i] = x) <=> (\E i \in DOMAIN global : global[i] = x)
        BY <2>2, <3>2
      <4> QED BY <4>1, <4>2 DEF PlaceInv, JobsInOnePlace
    <3> QED BY <3>1, <3>2
  <2>6. ASSUME NEW x \in Jobs
        PROVE  (status'[x] = "running") <=> (\E w \in Workers : running'[w] = x)
    BY <2>1 DEF PlaceInv, JobsInOnePlace, TypeOK
  <2> QED BY <2>1, <2>4, <2>5, <2>6 DEF PlaceInv, JobsInOnePlace
<1>2. ASSUME NEW t \in Threads, SpawnNotify(t) PROVE PlaceInv'
  BY <1>2, PlaceKept DEF SpawnNotify, LockInv, TypeOK
<1>3. ASSUME NEW w \in Workers, Top(w) PROVE PlaceInv'
  BY <1>3, PlaceKept DEF Top, TypeOK
<1>4. ASSUME NEW w \in Workers, PopGlobal(w) PROVE PlaceInv'
  <2>1. CASE global = <<>>
    BY <1>4, <2>1, PlaceKept DEF PopGlobal, TypeOK
  <2>2. CASE global # <<>>
    <3> DEFINE j == Head(global)
    <3>1. /\ global' = Tail(global)
          /\ running' = [running EXCEPT ![w] = j]
          /\ status' = [status EXCEPT ![j] = "running"]
          /\ pc' = [pc EXCEPT ![w] = "run"]
          /\ pc[w] = "pop"
      BY <1>4, <2>2 DEF PopGlobal
    <3>2. /\ Len(global) \in Nat \ {0}
          /\ DOMAIN global = 1..Len(global) /\ DOMAIN global' = 1..(Len(global) - 1)
          /\ \A i \in 1..(Len(global) - 1) : global'[i] = global[i + 1]
          /\ j = global[1] /\ j \in Jobs
      BY <2>2, <3>1 DEF TypeOK
    <3> HIDE DEF j
    <3>3. status[j] = "queued" /\ j # None
      BY <3>2, PoolAssumption DEF PlaceInv, JobsInOnePlace
    <3>4. \A v \in Workers : running[v] # j
      BY <3>2, <3>3 DEF PlaceInv, JobsInOnePlace
    <3>5. running[w] = None
      BY <3>1 DEF PlaceInv
    <3>6. \A i, k \in DOMAIN global' : global'[i] = global'[k] => i = k
      <4> SUFFICES ASSUME NEW i \in 1..(Len(global) - 1), NEW k \in 1..(Len(global) - 1),
                          global'[i] = global'[k]
                   PROVE  i = k
        BY <3>2
      <4>1. i + 1 \in DOMAIN global /\ k + 1 \in DOMAIN global /\ global[i + 1] = global[k + 1]
        BY <3>2
      <4>2. i + 1 = k + 1
        BY <4>1 DEF PlaceInv, JobsInOnePlace
      <4> QED BY <3>2, <4>2
    <3>7. ASSUME NEW x \in Jobs
          PROVE  (status'[x] = "queued") <=> (\E i \in DOMAIN global' : global'[i] = x)
      <4>1. CASE x = j
        <5>1. status'[x] = "running"
          BY <3>1, <3>2, <4>1 DEF TypeOK
        <5>2. ASSUME NEW i \in DOMAIN global', global'[i] = x PROVE FALSE
          <6>1. i + 1 \in DOMAIN global /\ 1 \in DOMAIN global /\ global[i + 1] = global[1]
            BY <3>2, <4>1, <5>2
          <6>2. i + 1 = 1
            BY <6>1 DEF PlaceInv, JobsInOnePlace
          <6> QED BY <3>2, <6>2
        <5> QED BY <5>1, <5>2
      <4>2. CASE x # j
        <5>1. status'[x] = status[x]
          BY <3>1, <3>2, <4>2 DEF TypeOK
        <5>2. ASSUME NEW i \in DOMAIN global, global[i] = x
              PROVE  \E k \in DOMAIN global' : global'[k] = x
          <6>1. i # 1 /\ i - 1 \in 1..(Len(global) - 1)
            BY <3>2, <4>2, <5>2
          <6>2. global'[i - 1] = global[(i - 1) + 1] /\ (i - 1) + 1 = i
            BY <3>2, <6>1
          <6> QED BY <3>2, <5>2, <6>1, <6>2
        <5>3. ASSUME NEW k \in DOMAIN global', global'[k] = x
              PROVE  \E i \in DOMAIN global : global[i] = x
          <6>1. k + 1 \in DOMAIN global /\ global[k + 1] = x
            BY <3>2, <5>3
          <6> QED BY <6>1
        <5> QED BY <5>1, <5>2, <5>3 DEF PlaceInv, JobsInOnePlace
      <4> QED BY <4>1, <4>2
    <3>8. ASSUME NEW x \in Jobs
          PROVE  (status'[x] = "running") <=> (\E v \in Workers : running'[v] = x)
      <4>1. CASE x = j
        BY <3>1, <3>2, <4>1 DEF TypeOK
      <4>2. CASE x # j
        <5>1. status'[x] = status[x]
          BY <3>1, <3>2, <4>2 DEF TypeOK
        <5>2. \A v \in Workers : running'[v] = x <=> running[v] = x
          BY <3>1, <3>5, <4>2, PoolAssumption DEF TypeOK
        <5> QED BY <5>1, <5>2 DEF PlaceInv, JobsInOnePlace
      <4> QED BY <4>1, <4>2
    <3>9. \A u, v \in Workers : running'[u] = running'[v] /\ running'[u] # None => u = v
      BY <3>1, <3>4 DEF PlaceInv, JobsInOnePlace, TypeOK
    <3>10. \A v \in Workers : pc'[v] = "run" <=> running'[v] # None
      BY <3>1, <3>3 DEF PlaceInv, TypeOK
    <3> QED BY <3>6, <3>7, <3>8, <3>9, <3>10 DEF PlaceInv, JobsInOnePlace
  <2> QED BY <2>1, <2>2
<1>5. ASSUME NEW w \in Workers, FinishJob(w) PROVE PlaceInv'
  <2> DEFINE j == running[w]
  <2>1. /\ pc[w] = "run" /\ pc' = [pc EXCEPT ![w] = "top"]
        /\ status' = [status EXCEPT ![j] = "done"]
        /\ running' = [running EXCEPT ![w] = None]
        /\ global' = global
    BY <1>5 DEF FinishJob
  <2>2. j \in Jobs /\ j # None /\ status[j] = "running"
    BY <2>1 DEF PlaceInv, JobsInOnePlace, TypeOK
  <2> HIDE DEF j
  <2>3. ASSUME NEW x \in Jobs
        PROVE  (status'[x] = "queued") <=> (\E i \in DOMAIN global' : global'[i] = x)
    BY <2>1, <2>2 DEF PlaceInv, JobsInOnePlace, TypeOK
  <2>4. ASSUME NEW x \in Jobs
        PROVE  (status'[x] = "running") <=> (\E v \in Workers : running'[v] = x)
    <3>1. CASE x = j
      <4>1. \A v \in Workers : running'[v] # j
        BY <2>1, <2>2 DEF PlaceInv, JobsInOnePlace, TypeOK, j
      <4>2. status'[x] = "done"
        BY <2>1, <2>2, <3>1 DEF TypeOK
      <4> QED BY <3>1, <4>1, <4>2
    <3>2. CASE x # j
      <4>1. status'[x] = status[x]
        BY <2>1, <2>2, <3>2 DEF TypeOK
      <4>2. \A v \in Workers : running'[v] = x <=> running[v] = x
        BY <2>1, <3>2, PoolAssumption DEF TypeOK, j
      <4> QED BY <4>1, <4>2 DEF PlaceInv, JobsInOnePlace
    <3> QED BY <3>1, <3>2
  <2>5. \A v \in Workers : pc'[v] = "run" <=> running'[v] # None
    BY <2>1 DEF PlaceInv, TypeOK
  <2>6. \A u, v \in Workers : running'[u] = running'[v] /\ running'[u] # None => u = v
    BY <2>1 DEF PlaceInv, JobsInOnePlace, TypeOK
  <2>7. \A i, k \in DOMAIN global' : global'[i] = global'[k] => i = k
    BY <2>1 DEF PlaceInv, JobsInOnePlace
  <2> QED BY <2>3, <2>4, <2>5, <2>6, <2>7 DEF PlaceInv, JobsInOnePlace
<1>6. ASSUME NEW w \in Workers, ParkLock(w) PROVE PlaceInv'
  BY <1>6, PlaceKept DEF ParkLock, TypeOK
<1>7. ASSUME NEW w \in Workers, ParkTest(w) PROVE PlaceInv'
  BY <1>7, PlaceKept DEF ParkTest, TypeOK
<1>8. ASSUME NEW w \in Workers, ParkWait(w) PROVE PlaceInv'
  BY <1>8, PlaceKept DEF ParkWait, TypeOK
<1>9. ASSUME NEW w \in Workers, SpuriousWakeup(w) PROVE PlaceInv'
  BY <1>9, PlaceKept DEF SpuriousWakeup, LockInv, TypeOK
<1>10. CASE Drop
  BY <1>10, PlaceKept DEF Drop, DropStore, DropNotifyAll, DropJoin, LockInv, TypeOK
<1>11. CASE UNCHANGED vars
  BY <1>11, PlaceKept DEF vars
<1> QED
  BY <1>1, <1>2, <1>3, <1>4, <1>5, <1>6, <1>7, <1>8, <1>9, <1>10, <1>11
     DEF Next, WorkerStep, Submit

\* PlaceInv holds throughout.
LEMMA PlaceCorrect == Spec => []PlaceInv
<1>1. Init => PlaceInv
  BY PoolAssumption DEF Init, PlaceInv, JobsInOnePlace
<1>2. TypeOK /\ PlaceInv /\ LockInv /\ [Next]_vars => PlaceInv'
  BY PlaceStep
<1> QED BY <1>1, <1>2, TypeCorrect, MutexDiscipline, PTL DEF Spec

\* A submitted job is in the queue once or on one worker: the pop under the lock
\* hands each job to a single worker, so no job is run twice or dropped by a race.
THEOREM OneRunPerJob == Spec => []JobsInOnePlace
<1>1. PlaceInv => JobsInOnePlace
  BY DEF PlaceInv
<1> QED BY <1>1, PlaceCorrect, PTL

-----------------------------------------------------------------------------

\* The flag of Drop follows the steps of the owner.
FlagInv == shutdown <=> opc # "live"

\* Nothing but the first step of Drop touches the flag, and the owner never goes back.
THEOREM FlagFollowsOwner == Spec => []FlagInv
<1>1. Init => FlagInv
  BY DEF Init, FlagInv
<1>2. FlagInv /\ [Next]_vars => FlagInv'
  BY DEF FlagInv, Next, vars, Submit, SpawnPush, SpawnNotify, WorkerStep, Top, PopGlobal, FinishJob,
         ParkLock, ParkTest, ParkWait, SpuriousWakeup, Drop, DropStore, DropNotifyAll, DropJoin
<1> QED BY <1>1, <1>2, PTL DEF Spec

\* A step of the pool is a step of the queue, or leaves the queue alone.
LEMMA QueueStep ==
    ASSUME TypeOK, PlaceInv, FlagInv, [Next]_vars
    PROVE  [Queue!QNext]_(Queue!qvars)
<1> USE DEF Queue!qvars
<1>1. ASSUME NEW t \in Threads, NEW j \in Jobs, SpawnPush(t, j) PROVE Queue!Enqueue(j)
  BY <1>1 DEF SpawnPush, Queue!Enqueue
<1>2. ASSUME NEW t \in Threads, SpawnNotify(t) PROVE UNCHANGED Queue!qvars
  BY <1>2 DEF SpawnNotify
<1>3. ASSUME NEW w \in Workers, Top(w) \/ ParkLock(w) \/ ParkTest(w) \/ ParkWait(w) \/ SpuriousWakeup(w)
      PROVE UNCHANGED Queue!qvars
  BY <1>3 DEF Top, ParkLock, ParkTest, ParkWait, SpuriousWakeup
<1>4. ASSUME NEW w \in Workers, PopGlobal(w) PROVE Queue!StartNext \/ UNCHANGED Queue!qvars
  BY <1>4 DEF PopGlobal, Queue!StartNext
<1>5. ASSUME NEW w \in Workers, FinishJob(w) PROVE \E j \in Jobs : Queue!Complete(j)
  <2>1. running[w] \in Jobs /\ status[running[w]] = "running"
    BY <1>5 DEF TypeOK, PlaceInv, JobsInOnePlace, FinishJob
  <2>2. Queue!Complete(running[w])
    BY <1>5, <2>1 DEF FinishJob, Queue!Complete
  <2> QED BY <2>1, <2>2
<1>6. CASE Drop
  BY <1>6 DEF Drop, DropStore, DropNotifyAll, DropJoin, FlagInv, Queue!CloseQueue, Queue!QNext
<1>7. CASE UNCHANGED vars
  BY <1>7 DEF vars
<1> QED
  BY <1>1, <1>2, <1>3, <1>4, <1>5, <1>6, <1>7 DEF Next, WorkerStep, Submit, Queue!QNext

\* The safety half of PoolIsQueue: whatever its threads do between the lock, the
\* condition variable and the flag, spawn(), run() and Drop together are a FIFO of jobs
\* of which each is started once, in the order of submission.
THEOREM PoolImplementsQueue == Spec => Queue!QSafe
<1>1. Init => Queue!QInit
  BY DEF Init, Queue!QInit
<1>2. TypeOK /\ PlaceInv /\ FlagInv /\ [Next]_vars => [Queue!QNext]_(Queue!qvars)
  BY QueueStep
<1> QED BY <1>1, <1>2, TypeCorrect, PlaceCorrect, FlagFollowsOwner, PTL DEF Spec, Queue!QSafe
=============================================================================
