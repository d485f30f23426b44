---------------------------- MODULE ThreadPoolProofs ----------------------------
(* The thread pool for any number of workers, feeds and runs.                  *)
EXTENDS ThreadPool, PoolSort, TLAPS, FiniteSetTheorems, WellFoundedInduction,
        SequenceTheorems

Ending == client \in {"stopping", "reaping", "destroyed"}
Alive  == {"first", "again", "waiting", "popping", "working", "reporting"}

(* The owner is at a worker while it goes through mThreads, and waits only for *)
(* a one-shot pool that it has run.                                            *)
OwnerState ==
    /\ client \in {"firing", "starting", "joining", "stopping", "reaping"} => next \in Workers
    /\ client = "starting" => \A w \in next .. N : wpc[w] = "unborn"
    /\ client = "ticking" => next = 1
    /\ sync => ~permanent
    /\ client \in {"starting", "ticking", "joining", "complete"} => mode = "running"
    /\ client \in {"ticking", "joining", "complete"} => ~permanent
    /\ mPermanent <=> permanent /\ ~Ending
    /\ created = 0 => /\ client \in {"idle", "destroyed"} /\ mode = "filling"
                      /\ \A w \in Workers : wpc[w] = "unborn"

(* A worker has a feed exactly while it runs it and reports it.                *)
WorkerState ==
    \A w \in Workers :
        /\ job[w] # NoJob <=> wpc[w] \in {"working", "reporting"}
        /\ wpc[w] \in Alive /\ ~Ending => mIsRunning[w]

(* A feed is in one place at a time.                                           *)
OnePlace ==
    /\ pushed = mQueue \cup InWork \cup mResults \cup popped \cup cancelled
    /\ \A w, x \in Workers : wpc[w] = "working" /\ wpc[x] = "working" /\ w # x => job[w] # job[x]
    /\ InWork \cap mQueue = {}
    /\ mResults \cap (mQueue \cup InWork) = {}
    /\ popped \cap (mQueue \cup InWork \cup mResults) = {}
    /\ cancelled \cap (mQueue \cup InWork \cup mResults \cup popped) = {}
    /\ mIndex = Cardinality(pushed)

(* The workers of a one-shot pool end when they find the queue empty, and      *)
(* nobody fills it before all of them have ended and the owner has seen it.    *)
Drained ==
    mode = "running" /\ ~permanent /\ ~Ending =>
        \A w \in Workers : wpc[w] \in {"ending", "ended"} => mQueue = {}

(* The threads that the owner has joined have ended.                           *)
Joined ==
    /\ client = "joining" => \A w \in 1 .. next - 1 : wpc[w] = "ended"
    /\ client = "complete" => \A w \in Workers : wpc[w] = "ended"
    /\ client \in {"stopping", "reaping"} => \A w \in 1 .. next - 1 : wpc[w] = "ended"
    /\ client = "destroyed" => \A w \in Workers : wpc[w] \in {"unborn", "ended"}

(* NobodySleepsOnWork, also for a worker that is about to sleep.                *)
NobodyDozesOnWork ==
    mQueue # {} /\ mPermanent =>
        \A w \in Workers : wpc[w] \in {"again", "waiting"} =>
            \/ mSignal[w]
            \/ client = "firing" /\ next <= w
            \/ \E x \in Workers : wpc[x] \in {"first", "popping", "working", "reporting"}

Inv ==
    /\ TypeOK /\ OwnerState /\ WorkerState /\ OnePlace /\ Drained /\ Joined
    /\ NobodyDozesOnWork

--------------------------------------------------------------------------------
USE WorkerAssumption, JobAssumption, RunAssumption

LEMMA InitInv == Init => Inv
<1> SUFFICES ASSUME Init PROVE Inv
  OBVIOUS
<1>1. TypeOK
  <2>1. 1 \in Workers
    BY DEF Workers
  <2> QED
    BY <2>1 DEF Init, TypeOK
<1>2. OwnerState /\ WorkerState /\ Drained /\ Joined /\ NobodyDozesOnWork
  BY DEF Init, OwnerState, WorkerState, Drained, Joined, NobodyDozesOnWork, Ending, Alive
<1>3. OnePlace
  BY FS_EmptySet DEF Init, OnePlace, InWork
<1> QED
  BY <1>1, <1>2, <1>3 DEF Inv

(* The steps of the owner that change nothing but its place *)
OwnerMoves == LastTick \/ TornTick \/ Completed \/ WaitForCompletion

LEMMA FlagsNext ==
    TypeOK /\ [Next]_vars => (sync \in BOOLEAN /\ permanent \in BOOLEAN /\ ticking \in BOOLEAN
                                /\ mPermanent \in BOOLEAN)'
<1> SUFFICES ASSUME TypeOK, [Next]_vars
             PROVE  (sync \in BOOLEAN /\ permanent \in BOOLEAN /\ ticking \in BOOLEAN
                       /\ mPermanent \in BOOLEAN)'
  OBVIOUS
<1> USE DEF TypeOK, flags, build, owner
<1>1. ASSUME NEW w \in Workers, WorkerStep(w)
      PROVE  UNCHANGED <<sync, permanent, ticking, mPermanent>>
  BY <1>1
     DEF WorkerStep, TestRunning, WaitSignal, PopFeed, QueueDrained, PushResult, JobCompleted, EndThread
<1>2. CASE OwnerStep \/ TornTick
  BY <1>2, Zenon
     DEF OwnerStep, FireNext, StartNext, LastTick, TornTick, JoinNext, Completed, StopNext, ReapNext
<1>3. ASSUME NEW j \in Jobs, PushFeed(j)
      PROVE  UNCHANGED <<sync, permanent, ticking, mPermanent>>
  BY <1>3 DEF PushFeed
<1>4. ASSUME NEW s \in BOOLEAN, Run(s)
      PROVE  sync' \in BOOLEAN /\ UNCHANGED <<permanent, ticking, mPermanent>>
  BY <1>4, Zenon DEF Run
<1>5. CASE WaitForCompletion \/ Destroy \/ PopResult \/ CancelPendingJobs
  BY <1>5, Zenon DEF WaitForCompletion, Destroy, PopResult, CancelPendingJobs
<1>6. CASE UNCHANGED vars
  BY <1>6, Zenon DEF vars
<1> QED
  BY <1>1, <1>2, <1>3, <1>4, <1>5, <1>6, Zenon DEF Next

LEMMA TypeNext == Inv /\ [Next]_vars => TypeOK'
<1> SUFFICES ASSUME Inv, [Next]_vars PROVE TypeOK'
  OBVIOUS
<1>0. TypeOK /\ OwnerState /\ WorkerState
  BY DEF Inv
<1> DEFINE Queue   == mQueue \subseteq Jobs /\ mResults \subseteq Jobs /\ mIndex \in Nat
           Threads == /\ mSignal \in [Workers -> BOOLEAN] /\ mIsRunning \in [Workers -> BOOLEAN]
                      /\ wpc \in [Workers -> Alive \cup {"unborn", "ending", "ended"}]
                      /\ job \in [Workers -> Jobs \cup {NoJob}]
           Owner   == /\ client \in {"idle", "firing", "starting", "ticking", "joining", "complete",
                                     "stopping", "reaping", "destroyed"}
                      /\ next \in Workers \cup {N + 1}
                      /\ mode \in {"filling", "running", "waited"}
                      /\ created \in Nat
           History == pushed \subseteq Jobs /\ popped \subseteq Jobs /\ cancelled \subseteq Jobs
<1> SUFFICES (Queue /\ Threads /\ Owner /\ History)'
  BY <1>0, FlagsNext DEF TypeOK, Alive
<1>1. Queue /\ Threads /\ Owner /\ History
  BY <1>0 DEF TypeOK, Alive
<1>2. ASSUME NEW w \in Workers, WorkerStep(w)
      PROVE  (Queue /\ Threads /\ Owner /\ History)'
  <2>1. UNCHANGED <<owner, history>>
    BY <1>2
       DEF WorkerStep, TestRunning, WaitSignal, PopFeed, QueueDrained, PushResult, JobCompleted, EndThread
  <2>2. Queue'
    BY <1>0, <1>1, <1>2
       DEF WorkerStep, TestRunning, WaitSignal, PopFeed, QueueDrained, PushResult, JobCompleted,
           EndThread, WorkerState, queue
  <2>3. Threads'
    BY <1>1, <1>2
       DEF WorkerStep, TestRunning, WaitSignal, PopFeed, QueueDrained, PushResult, JobCompleted,
           EndThread, flags, Alive
  <2> QED
    BY <1>1, <2>1, <2>2, <2>3 DEF owner, history
<1>3. CASE OwnerStep \/ TornTick
  <2>1. UNCHANGED <<queue, history>>
    BY <1>3
       DEF OwnerStep, FireNext, StartNext, LastTick, TornTick, JoinNext, Completed, StopNext, ReapNext
  <2>2. Threads'
    BY <1>1, <1>3
       DEF OwnerStep, FireNext, StartNext, LastTick, TornTick, JoinNext, Completed, StopNext, ReapNext,
           worker, flags, Alive
  <2>3. Owner'
    BY <1>0, <1>1, <1>3
       DEF OwnerStep, FireNext, StartNext, LastTick, TornTick, JoinNext, Completed, StopNext, ReapNext,
           OwnerState, Workers
  <2> QED
    BY <1>1, <2>1, <2>2, <2>3 DEF queue, history
<1>4. ASSUME NEW j \in Jobs, PushFeed(j)
      PROVE  (Queue /\ Threads /\ Owner /\ History)'
  BY <1>1, <1>4 DEF PushFeed, Workers, worker, flags
<1>5. ASSUME NEW s \in BOOLEAN, Run(s)
      PROVE  (Queue /\ Threads /\ Owner /\ History)'
  BY <1>1, <1>5 DEF Run, Workers, queue, flags, history
<1>6. CASE WaitForCompletion \/ Destroy
  BY <1>1, <1>6 DEF WaitForCompletion, Destroy, Workers, queue, worker, flags, history
<1>7. CASE PopResult \/ CancelPendingJobs
  BY <1>1, <1>7 DEF PopResult, CancelPendingJobs, worker, flags, owner
<1>8. CASE UNCHANGED vars
  BY <1>1, <1>8 DEF vars, queue, worker, flags, owner, history
<1> QED
  BY <1>2, <1>3, <1>4, <1>5, <1>6, <1>7, <1>8 DEF Next

LEMMA OwnerStateNext == Inv /\ [Next]_vars => OwnerState'
<1> SUFFICES ASSUME Inv, [Next]_vars PROVE OwnerState'
  OBVIOUS
<1>0. TypeOK /\ OwnerState
  BY DEF Inv
<1> USE DEF OwnerState, Ending
<1>1. ASSUME NEW w \in Workers, WorkerStep(w)
      PROVE  OwnerState'
  <2>1. UNCHANGED <<owner, mPermanent>> /\ wpc[w] # "unborn"
    BY <1>1
       DEF WorkerStep, TestRunning, WaitSignal, PopFeed, QueueDrained, PushResult, JobCompleted,
           EndThread, flags
  <2>2. \A x \in Workers : wpc[x] = "unborn" => wpc'[x] = "unborn"
    BY <1>0, <1>1
       DEF WorkerStep, TestRunning, WaitSignal, PopFeed, QueueDrained, PushResult, JobCompleted,
           EndThread, TypeOK
  <2>3. \A x \in next .. N : x \in Workers \/ client # "starting"
    BY <1>0 DEF Workers
  <2> QED
    BY <1>0, <2>1, <2>2, <2>3 DEF owner, build
<1>2. CASE OwnerStep \/ TornTick
  <2>1. UNCHANGED <<mPermanent, permanent, sync, created>>
    BY <1>2
       DEF OwnerStep, FireNext, StartNext, LastTick, TornTick, JoinNext, Completed, StopNext, ReapNext,
           flags, build
  <2>2. CASE FireNext \/ StopNext
    BY <1>0, <2>1, <2>2 DEF FireNext, StopNext, worker, Workers
  <2>5. CASE JoinNext \/ ReapNext
    BY <1>0, <2>1, <2>5 DEF JoinNext, ReapNext, worker, Workers
  <2>3. CASE StartNext
    BY <1>0, <2>1, <2>3 DEF StartNext, TypeOK, Workers
  <2>4. CASE LastTick \/ TornTick \/ Completed
    BY <1>0, <2>1, <2>4 DEF LastTick, TornTick, Completed, worker, Workers
  <2> QED
    BY <1>2, <2>2, <2>3, <2>4, <2>5 DEF OwnerStep
<1>4. ASSUME NEW j \in Jobs, PushFeed(j)
      PROVE  OwnerState'
  BY <1>0, <1>4 DEF PushFeed, Workers, worker, flags, build
<1>5. ASSUME NEW s \in BOOLEAN, Run(s)
      PROVE  OwnerState'
  BY <1>0, <1>5 DEF Run, Workers, flags, build, TypeOK
<1>6. CASE WaitForCompletion \/ Destroy
  BY <1>0, <1>6 DEF WaitForCompletion, Destroy, Workers, worker, flags, build
<1>7. CASE PopResult \/ CancelPendingJobs
  BY <1>0, <1>7 DEF PopResult, CancelPendingJobs, worker, flags, owner, build
<1>8. CASE UNCHANGED vars
  BY <1>0, <1>8 DEF vars, worker, flags, owner, build
<1> QED
  BY <1>1, <1>2, <1>4, <1>5, <1>6, <1>7, <1>8 DEF Next

LEMMA WorkerStateNext == Inv /\ [Next]_vars => WorkerState'
<1> SUFFICES ASSUME Inv, [Next]_vars, NEW x \in Workers
             PROVE  (/\ job[x] # NoJob <=> wpc[x] \in {"working", "reporting"}
                     /\ wpc[x] \in Alive /\ ~Ending => mIsRunning[x])'
  BY DEF WorkerState
<1>0. TypeOK /\ WorkerState /\ OwnerState
  BY DEF Inv
<1> USE <1>0 DEF WorkerState, TypeOK, Alive, Ending
<1>1. ASSUME NEW w \in Workers, WorkerStep(w)
      PROVE  (/\ job[x] # NoJob <=> wpc[x] \in {"working", "reporting"}
              /\ wpc[x] \in Alive /\ ~Ending => mIsRunning[x])'
  <2>1. CASE TestRunning(w) \/ WaitSignal(w) \/ QueueDrained(w) \/ PushResult(w)
    BY <2>1 DEF TestRunning, WaitSignal, QueueDrained, PushResult, flags, owner
  <2>2. CASE PopFeed(w) \/ JobCompleted(w) \/ EndThread(w)
    BY <2>2 DEF PopFeed, JobCompleted, EndThread, flags, owner
  <2> QED
    BY <1>1, <2>1, <2>2 DEF WorkerStep
<1>2. CASE FireNext \/ LastTick \/ TornTick \/ JoinNext \/ Completed \/ ReapNext
  BY <1>2 DEF FireNext, LastTick, TornTick, JoinNext, Completed, ReapNext, worker, flags
<1>3. CASE StartNext \/ StopNext
  BY <1>3 DEF StartNext, StopNext, worker, OwnerState, Workers
<1>4. CASE \E j \in Jobs : PushFeed(j)
  BY <1>4 DEF PushFeed, worker, flags
<1>5. CASE \E s \in BOOLEAN : Run(s)
  BY <1>5 DEF Run, flags
<1>6. CASE WaitForCompletion \/ PopResult \/ CancelPendingJobs \/ Destroy \/ UNCHANGED vars
  BY <1>6 DEF WaitForCompletion, PopResult, CancelPendingJobs, Destroy, vars, worker, flags, owner
<1> QED
  BY <1>1, <1>2, <1>3, <1>4, <1>5, <1>6 DEF Next, OwnerStep

(* What the workers are running only depends on those that are working.        *)
LEMMA SameWork ==
    ASSUME \A w \in Workers : wpc'[w] = "working" <=> wpc[w] = "working",
           \A w \in Workers : wpc[w] = "working" => job'[w] = job[w]
    PROVE  InWork' = InWork
  BY DEF InWork

LEMMA OnePlaceNext == Inv /\ [Next]_vars => OnePlace'
<1> SUFFICES ASSUME Inv, [Next]_vars PROVE OnePlace'
  OBVIOUS
<1>0. TypeOK /\ OnePlace /\ OwnerState
  BY DEF Inv
<1>1. ASSUME NEW w \in Workers, PopFeed(w)
      PROVE  OnePlace'
  <2>1. PICK j \in mQueue : mQueue' = mQueue \ {j} /\ job' = [job EXCEPT ![w] = j]
    BY <1>1 DEF PopFeed
  <2>2. wpc[w] = "popping" /\ wpc' = [wpc EXCEPT ![w] = "working"]
    BY <1>1 DEF PopFeed
  <2>3. InWork' = InWork \cup {j}
    BY <1>0, <2>1, <2>2 DEF InWork, TypeOK
  <2>4. \A x, y \in Workers : wpc'[x] = "working" /\ wpc'[y] = "working" /\ x # y => job'[x] # job'[y]
    <3>1. \A x \in Workers : wpc[x] = "working" => job[x] # j
      BY <1>0, <2>1 DEF OnePlace, InWork
    <3> QED
      BY <1>0, <2>1, <2>2, <3>1 DEF OnePlace, TypeOK
  <2>5. UNCHANGED <<mResults, mIndex, history>>
    BY <1>1 DEF PopFeed
  <2> QED
    BY <1>0, <2>1, <2>3, <2>4, <2>5 DEF OnePlace, history
<1>2. ASSUME NEW w \in Workers, PushResult(w)
      PROVE  OnePlace'
  <2>1. /\ wpc[w] = "working" /\ wpc' = [wpc EXCEPT ![w] = "reporting"]
        /\ mResults' = mResults \cup {job[w]}
        /\ UNCHANGED <<mQueue, mIndex, job, history>>
    BY <1>2 DEF PushResult
  <2>2. InWork' = InWork \ {job[w]} /\ job[w] \in InWork
    BY <1>0, <2>1 DEF InWork, OnePlace, TypeOK
  <2>3. \A x, y \in Workers : wpc'[x] = "working" /\ wpc'[y] = "working" /\ x # y => job'[x] # job'[y]
    BY <1>0, <2>1 DEF OnePlace, TypeOK
  <2> QED
    BY <1>0, <2>1, <2>2, <2>3 DEF OnePlace, history
<1>3. ASSUME NEW w \in Workers,
             TestRunning(w) \/ WaitSignal(w) \/ QueueDrained(w) \/ JobCompleted(w) \/ EndThread(w)
      PROVE  OnePlace'
  <2>1. UNCHANGED <<queue, history>>
    BY <1>3 DEF TestRunning, WaitSignal, QueueDrained, JobCompleted, EndThread
  <2>2. \A x \in Workers : /\ wpc'[x] = "working" <=> wpc[x] = "working"
                           /\ wpc[x] = "working" => job'[x] = job[x]
    BY <1>0, <1>3 DEF TestRunning, WaitSignal, QueueDrained, JobCompleted, EndThread, TypeOK
  <2>3. InWork' = InWork
    BY <2>2, SameWork
  <2> QED
    BY <1>0, <2>1, <2>2, <2>3 DEF OnePlace, queue, history
<1>4. CASE OwnerStep \/ TornTick \/ WaitForCompletion \/ Destroy \/ UNCHANGED vars
  <2>1. UNCHANGED <<queue, history>>
    BY <1>4
       DEF OwnerStep, FireNext, StartNext, LastTick, TornTick, JoinNext, Completed, StopNext, ReapNext,
           WaitForCompletion, Destroy, vars
  <2>2. \A x \in Workers : /\ wpc'[x] = "working" <=> wpc[x] = "working"
                           /\ wpc[x] = "working" => job'[x] = job[x]
    <3>1. CASE StartNext
      BY <1>0, <3>1 DEF StartNext, TypeOK, OwnerState, Workers
    <3>2. CASE ~StartNext
      BY <1>4, <3>2
         DEF OwnerStep, FireNext, LastTick, TornTick, JoinNext, Completed, StopNext, ReapNext,
             WaitForCompletion, Destroy, vars, worker
    <3> QED
      BY <3>1, <3>2
  <2>3. InWork' = InWork
    BY <2>2, SameWork
  <2> QED
    BY <1>0, <2>1, <2>2, <2>3 DEF OnePlace, queue, history
<1>5. ASSUME NEW j \in Jobs, PushFeed(j)
      PROVE  OnePlace'
  <2>1. /\ j \notin pushed
        /\ mQueue' = mQueue \cup {j} /\ pushed' = pushed \cup {j} /\ mIndex' = mIndex + 1
        /\ UNCHANGED <<mResults, wpc, job, popped, cancelled>>
    BY <1>5 DEF PushFeed, worker
  <2>2. Cardinality(pushed') = Cardinality(pushed) + 1
    <3>1. IsFiniteSet(pushed)
      BY <1>0, FS_Subset DEF TypeOK
    <3> QED
      BY <2>1, <3>1, FS_AddElement
  <2>3. InWork' = InWork
    BY <2>1, SameWork
  <2> QED
    BY <1>0, <2>1, <2>2, <2>3 DEF OnePlace
<1>6. ASSUME NEW s \in BOOLEAN, Run(s)
      PROVE  OnePlace'
  <2>1. UNCHANGED <<queue, history, job>> /\ wpc' = [w \in Workers |-> "unborn"]
        /\ \A w \in Workers : wpc[w] \in {"unborn", "ended"}
    BY <1>6 DEF Run
  <2>2. InWork' = InWork
    BY <2>1, SameWork
  <2> QED
    BY <1>0, <2>1, <2>2 DEF OnePlace, queue, history
<1>7. CASE PopResult
  <2>1. PICK j \in mResults : mResults' = mResults \ {j} /\ popped' = popped \cup {j}
    BY <1>7 DEF PopResult
  <2>2. UNCHANGED <<mQueue, mIndex, wpc, job, pushed, cancelled>>
    BY <1>7 DEF PopResult, worker
  <2>3. InWork' = InWork
    BY <2>2, SameWork
  <2> QED
    BY <1>0, <2>1, <2>2, <2>3 DEF OnePlace
<1>8. CASE CancelPendingJobs
  <2>1. mQueue' = {} /\ cancelled' = cancelled \cup mQueue
        /\ UNCHANGED <<mResults, mIndex, wpc, job, pushed, popped>>
    BY <1>8 DEF CancelPendingJobs, worker
  <2>2. InWork' = InWork
    BY <2>1, SameWork
  <2> QED
    BY <1>0, <2>1, <2>2 DEF OnePlace
<1> QED
  BY <1>1, <1>2, <1>3, <1>4, <1>5, <1>6, <1>7, <1>8 DEF Next, WorkerStep

(* A worker of a one-shot pool only ends on an empty queue.                     *)
LEMMA DrainedNext == Inv /\ [Next]_vars => Drained'
<1> SUFFICES ASSUME Inv, [Next]_vars PROVE Drained'
  OBVIOUS
<1>0. TypeOK /\ Drained /\ OwnerState /\ WorkerState
  BY DEF Inv
<1> USE <1>0 DEF Drained, TypeOK, Ending
<1>1. ASSUME NEW w \in Workers, WorkerStep(w)
      PROVE  Drained'
  <2>1. UNCHANGED owner
    BY <1>1
       DEF WorkerStep, TestRunning, WaitSignal, PopFeed, QueueDrained, PushResult, JobCompleted, EndThread
  <2>2. CASE TestRunning(w)
    BY <2>1, <2>2 DEF TestRunning, owner, build, queue, WorkerState, Alive
  <2>3. CASE PopFeed(w) \/ QueueDrained(w)
    BY <2>1, <2>3 DEF PopFeed, QueueDrained, owner, build, queue
  <2>4. CASE WaitSignal(w) \/ PushResult(w) \/ JobCompleted(w) \/ EndThread(w)
    BY <2>1, <2>4 DEF WaitSignal, PushResult, JobCompleted, EndThread, owner, build, queue
  <2> QED
    BY <1>1, <2>2, <2>3, <2>4 DEF WorkerStep
<1>2. CASE FireNext \/ LastTick \/ TornTick \/ JoinNext \/ Completed \/ ReapNext
  BY <1>2 DEF FireNext, LastTick, TornTick, JoinNext, Completed, ReapNext, worker, queue, build
<1>3. CASE StartNext \/ StopNext
  BY <1>3 DEF StartNext, StopNext, worker, queue, build
<1>4. CASE \E j \in Jobs : PushFeed(j)
  BY <1>4 DEF PushFeed, worker, build
<1>5. CASE \E s \in BOOLEAN : Run(s)
  BY <1>5 DEF Run
<1>6. CASE WaitForCompletion \/ PopResult \/ CancelPendingJobs \/ Destroy \/ UNCHANGED vars
  BY <1>6
     DEF WaitForCompletion, PopResult, CancelPendingJobs, Destroy, vars, worker, queue, owner, build
<1> QED
  BY <1>1, <1>2, <1>3, <1>4, <1>5, <1>6 DEF Next, OwnerStep

(* An ended thread is only brought back by Run, which joins nobody.            *)
LEMMA JoinedNext == Inv /\ [Next]_vars => Joined'
<1> SUFFICES ASSUME Inv, [Next]_vars PROVE Joined'
  OBVIOUS
<1>0. TypeOK /\ Joined /\ OwnerState
  BY DEF Inv
<1> USE <1>0 DEF Joined
<1>1. ASSUME NEW w \in Workers, WorkerStep(w)
      PROVE  Joined'
  <2>1. UNCHANGED owner
    BY <1>1
       DEF WorkerStep, TestRunning, WaitSignal, PopFeed, QueueDrained, PushResult, JobCompleted, EndThread
  <2>2. \A x \in Workers : wpc[x] \in {"unborn", "ended"} => wpc'[x] = wpc[x]
    BY <1>1
       DEF WorkerStep, TestRunning, WaitSignal, PopFeed, QueueDrained, PushResult, JobCompleted,
           EndThread, TypeOK
  <2>3. \A x \in 1 .. next - 1 : x \in Workers
    BY DEF TypeOK, Workers
  <2> QED
    BY <2>1, <2>2, <2>3 DEF owner
<1>2. CASE FireNext \/ LastTick \/ TornTick \/ Completed \/ WaitForCompletion
  BY <1>2 DEF FireNext, LastTick, TornTick, Completed, WaitForCompletion, OwnerState
<1>3. CASE StartNext
  <2>1. client' \in {"starting", "idle", "ticking"} \/ (client' = "joining" /\ next' = 1)
    BY <1>3 DEF StartNext, OwnerState, Workers
  <2> QED
    BY <2>1
<1>4. CASE JoinNext \/ ReapNext
  BY <1>4 DEF JoinNext, ReapNext, worker, OwnerState, Workers
<1>5. CASE StopNext
  BY <1>5 DEF StopNext, worker
<1>6. CASE Destroy
  BY <1>6 DEF Destroy, worker, OwnerState, Workers
<1>7. CASE (\E j \in Jobs : PushFeed(j)) \/ (\E s \in BOOLEAN : Run(s))
  BY <1>7 DEF PushFeed, Run, TypeOK
<1>8. CASE PopResult \/ CancelPendingJobs \/ UNCHANGED vars
  BY <1>8 DEF PopResult, CancelPendingJobs, vars, worker, owner
<1> QED
  BY <1>1, <1>2, <1>3, <1>4, <1>5, <1>6, <1>7, <1>8 DEF Next, OwnerStep

(* A worker goes to sleep after it found the queue empty, and a feed pushed     *)
(* since then fires every signal.                                              *)
LEMMA NobodyDozesNext == Inv /\ [Next]_vars => NobodyDozesOnWork'
<1> SUFFICES ASSUME Inv, [Next]_vars, (mQueue # {} /\ mPermanent)',
                    NEW w \in Workers, wpc'[w] \in {"again", "waiting"}
             PROVE  \/ mSignal'[w]
                    \/ client' = "firing" /\ next' <= w
                    \/ \E x \in Workers : wpc'[x] \in {"first", "popping", "working", "reporting"}
  BY DEF NobodyDozesOnWork
<1>0. TypeOK /\ NobodyDozesOnWork /\ OwnerState /\ WorkerState
  BY DEF Inv
<1> DEFINE Busy == \E x \in Workers : wpc[x] \in {"first", "popping", "working", "reporting"}
<1> USE <1>0 DEF TypeOK
<1>1. ASSUME NEW v \in Workers, WorkerStep(v)
      PROVE  mSignal'[w] \/ (client' = "firing" /\ next' <= w) \/ Busy'
  <2>1. CASE TestRunning(v)
    <3>1. /\ wpc[v] \in {"first", "again"}
          /\ wpc' = [wpc EXCEPT ![v] = IF @ = "first" THEN "popping" ELSE "waiting"]
      BY <2>1 DEF TestRunning, flags, owner, OwnerState, WorkerState, Alive
    <3>2. UNCHANGED <<mQueue, mPermanent, mSignal, client, next>>
      BY <2>1 DEF TestRunning, flags, owner, queue
    <3> QED
      BY <3>1, <3>2 DEF NobodyDozesOnWork
  <2>2. CASE WaitSignal(v) \/ PopFeed(v) \/ PushResult(v) \/ JobCompleted(v)
    BY <2>2 DEF WaitSignal, PopFeed, PushResult, JobCompleted
  <2>3. CASE QueueDrained(v)
    BY <2>3 DEF QueueDrained, queue
  <2>4. CASE EndThread(v)
    BY <2>4 DEF EndThread, queue, owner, NobodyDozesOnWork
  <2> QED
    BY <1>1, <2>1, <2>2, <2>3, <2>4 DEF WorkerStep
<1>2. CASE FireNext
  BY <1>2 DEF FireNext, queue, worker, NobodyDozesOnWork, OwnerState, Workers
<1>3. CASE StartNext
  BY <1>3 DEF StartNext, OwnerState
<1>4. CASE LastTick \/ TornTick \/ JoinNext \/ Completed \/ WaitForCompletion
  BY <1>4
     DEF LastTick, TornTick, JoinNext, Completed, WaitForCompletion, queue, worker, flags,
         NobodyDozesOnWork
<1>5. CASE StopNext \/ ReapNext \/ Destroy
  BY <1>5 DEF StopNext, ReapNext, Destroy, flags, OwnerState, Ending
<1>6. ASSUME NEW j \in Jobs, PushFeed(j)
      PROVE  mSignal'[w] \/ (client' = "firing" /\ next' <= w) \/ Busy'
  BY <1>6 DEF PushFeed, worker, flags, OwnerState, Workers
<1>7. CASE \E s \in BOOLEAN : Run(s)
  BY <1>7 DEF Run
<1>8. CASE PopResult \/ CancelPendingJobs \/ UNCHANGED vars
  BY <1>8 DEF PopResult, CancelPendingJobs, vars, queue, worker, flags, owner, NobodyDozesOnWork
<1> QED
  BY <1>1, <1>2, <1>3, <1>4, <1>5, <1>6, <1>7, <1>8 DEF Next, OwnerStep

LEMMA NextInv == Inv /\ [Next]_vars => Inv'
  BY TypeNext, OwnerStateNext, WorkerStateNext, OnePlaceNext, DrainedNext, JoinedNext, NobodyDozesNext
     DEF Inv

(* Inv is an invariant: the conjuncts of it that no run checks are the reasons  *)
(* for the theorems below.                                                     *)
THEOREM InvHolds == Spec => []Inv
  BY InitInv, NextInv, PTL DEF Spec

--------------------------------------------------------------------------------
(* Queues, results, signals and threads keep their types: PushFeed fires the    *)
(* signal of a worker that exists, for any number of workers and feeds.        *)
THEOREM TypeCorrect == Spec => []TypeOK
<1>1. Inv => TypeOK
  BY DEF Inv
<1> QED
  BY <1>1, InvHolds, PTL

(* Cardinalities add up when the places are disjoint.                          *)
LEMMA DisjointCardinality ==
    ASSUME NEW S, NEW T, IsFiniteSet(S), IsFiniteSet(T), S \cap T = {}
    PROVE  IsFiniteSet(S \cup T) /\ Cardinality(S \cup T) = Cardinality(S) + Cardinality(T)
<1>1. Cardinality(S \cap T) = 0 /\ Cardinality(S) \in Nat /\ Cardinality(T) \in Nat
  BY FS_EmptySet, FS_CardinalityType
<1> QED
  BY <1>1, FS_Union

(* No feed is lost and none is run twice: it is in the queue, in the hands of   *)
(* one worker, in the results, popped or cancelled, and there are as many as   *)
(* were pushed.                                                                *)
THEOREM EachFeedOnceHolds == Spec => []EachFeedOnce
<1>1. Inv => EachFeedOnce
  <2> SUFFICES ASSUME Inv PROVE EachFeedOnce
    OBVIOUS
  <2>0. TypeOK /\ OnePlace
    BY DEF Inv
  <2>1. pushed \subseteq Jobs /\ mQueue \subseteq pushed /\ InWork \subseteq pushed
        /\ mResults \subseteq pushed /\ popped \subseteq pushed /\ cancelled \subseteq pushed
    BY <2>0 DEF TypeOK, OnePlace
  <2>2. IsFiniteSet(mQueue) /\ IsFiniteSet(InWork) /\ IsFiniteSet(mResults)
        /\ IsFiniteSet(popped) /\ IsFiniteSet(cancelled)
    <3>1. IsFiniteSet(pushed)
      BY <2>1, FS_Subset
    <3> QED
      BY <2>1, <3>1, FS_Subset
  <2> DEFINE A == mQueue \cup InWork
             B == A \cup mResults
             C == B \cup popped
  <2>3. IsFiniteSet(A) /\ Cardinality(A) = Cardinality(mQueue) + Cardinality(InWork)
    BY <2>0, <2>2, DisjointCardinality DEF OnePlace
  <2>4. IsFiniteSet(B) /\ Cardinality(B) = Cardinality(A) + Cardinality(mResults)
    BY <2>0, <2>2, <2>3, DisjointCardinality DEF OnePlace
  <2>5. IsFiniteSet(C) /\ Cardinality(C) = Cardinality(B) + Cardinality(popped)
    BY <2>0, <2>2, <2>4, DisjointCardinality DEF OnePlace
  <2>6. Cardinality(C \cup cancelled) = Cardinality(C) + Cardinality(cancelled)
    BY <2>0, <2>2, <2>5, DisjointCardinality DEF OnePlace
  <2>7. Cardinality(C \cup cancelled) = mIndex
    BY <2>0 DEF OnePlace
  <2>8. \A w, x \in Workers : w # x /\ {wpc[w], wpc[x]} = {"working"} => job[w] # job[x]
    BY <2>0 DEF OnePlace
  <2> HIDE DEF A, B, C
  <2>9. Cardinality(mQueue) + Cardinality(InWork) + Cardinality(mResults)
          + Cardinality(popped) + Cardinality(cancelled) = mIndex
    BY <2>3, <2>4, <2>5, <2>6, <2>7
  <2> QED
    BY <2>0, <2>8, <2>9 DEF OnePlace, EachFeedOnce
<1> QED
  BY <1>1, InvHolds, PTL

(* When WaitForCompletion returns, whether or not the polling loop ended too    *)
(* soon, no feed is left and every callback has returned.                      *)
THEOREM CompletionIsCompleteHolds == Spec => []CompletionIsComplete
<1>1. Inv => CompletionIsComplete
  <2> SUFFICES ASSUME Inv, client = "complete" PROVE CompletionIsComplete
    BY DEF CompletionIsComplete
  <2>1. \A w \in Workers : wpc[w] = "ended"
    BY DEF Inv, Joined
  <2>2. InWork = {}
    BY <2>1 DEF InWork
  <2>3. mQueue = {}
    <3>1. mode = "running" /\ ~permanent /\ ~Ending /\ 1 \in Workers
      BY DEF Inv, OwnerState, Ending, Workers
    <3> QED
      BY <2>1, <3>1 DEF Inv, Drained
  <2> QED
    BY <2>1, <2>2, <2>3 DEF Inv, OnePlace, CompletionIsComplete
<1> QED
  BY <1>1, InvHolds, PTL

(* The destructor leaves no thread behind that could touch the pool.           *)
THEOREM NoWorkerOutlivesPoolHolds == Spec => []NoWorkerOutlivesPool
<1>1. Inv => NoWorkerOutlivesPool
  BY DEF Inv, Joined, NoWorkerOutlivesPool
<1> QED
  BY <1>1, InvHolds, PTL

(* One signal per worker and per feed is enough, however the signals coalesce.  *)
THEOREM NobodySleepsOnWorkHolds == Spec => []NobodySleepsOnWork
<1>1. Inv => NobodySleepsOnWork
  BY DEF Inv, NobodyDozesOnWork, NobodySleepsOnWork
<1> QED
  BY <1>1, InvHolds, PTL

--------------------------------------------------------------------------------
(* The sort                                                                    *)

(* One turn over priorities f of a segment l .. h: the scans from L and H stop   *)
(* at i and j, whatever v they compare with.                                   *)

Passed(f, l, h, L, H, i, j, v) ==
    /\ l \in Int /\ h \in Int /\ L \in Int /\ H \in Int /\ i \in Int /\ j \in Int /\ v \in Int
    /\ f \in [l .. h -> Int]
    /\ l <= L /\ L <= H /\ H <= h /\ L <= i /\ i <= h /\ l <= j /\ j <= H
    /\ v <= f[i] /\ f[j] <= v
    /\ \A k \in L .. i - 1 : f[k] < v
    /\ \A k \in j + 1 .. H : v < f[k]

Swapped(f, g, l, h, i, j) ==
    /\ i <= j /\ g \in [l .. h -> Int] /\ g[i] = f[j] /\ g[j] = f[i]
    /\ \A k \in l .. h : k # i /\ k # j => g[k] = f[k]

(* Each feed on the right has one on the left that is not greater, and back.   *)
LeftBelow(f, l, h, L, H)  == \A r \in H + 1 .. h : \E q \in l .. L - 1 : f[q] <= f[r]
RightAbove(f, l, h, L, H) == \A q \in l .. L - 1 : \E r \in H + 1 .. h : f[q] <= f[r]

(* The same at the end of the loop, for the whole segment.                     *)
LeftLeast(f, l, h, H)     == \A r \in l .. h : \E q \in {l} \cup (l .. H) : f[q] <= f[r]
RightGreatest(f, l, h, L) == \A q \in l .. h : \E r \in {h} \cup (L .. h) : f[q] <= f[r]

(* Feeds on the left and on the right that stop the scans. *)
Stops(f, l, h, L, H, v) ==
    /\ \E k \in l .. L - 1 : f[k] <= v
    /\ \E k \in H + 1 .. h : v <= f[k]

(* A call has a segment of two feeds at least, and its indices move inwards.    *)
Segment == low < high /\ low <= Low /\ High <= high

(* The priorities of the segment *)
Part == [k \in low .. high |-> items[k].Priority]

(* After the first swap of a call each scan has a feed that will stop it among *)
(* those that the other scan has left behind, wherever the pivot goes.         *)
Sentinels == (Low = low /\ High = high) \/ Stops(Part, low, high, Low, High, pivot)

(* The least priority of a segment goes to its left part, or to its first      *)
(* place when there is no such part to be sorted; the greatest to its right.   *)
SmallestLeft ==
    IF Low <= High THEN LeftBelow(Part, low, high, Low, High) ELSE LeftLeast(Part, low, high, High)

GreatestRight ==
    IF Low <= High THEN RightAbove(Part, low, high, Low, High) ELSE RightGreatest(Part, low, high, Low)

(* The calls to come are about segments to the right of this one, in order.    *)
CallsInv ==
    /\ \A k \in 1 .. Len(calls) : high < calls[k][1] /\ calls[k][1] < calls[k][2]
    /\ \A k, m \in 1 .. Len(calls) : k < m => calls[k][2] < calls[m][1]

(* The least priority is in the first segment, or in its place.                *)
First == IF low = 0 THEN 0 .. high ELSE {0}
SmallestFirst == \A r \in Places : \E l \in First : items[l].Priority <= items[r].Priority

(* The greatest one is in the last segment, or in its place.                   *)
Rightmost == IF calls = <<>> THEN <<low, high>> ELSE calls[Len(calls)]
Last == IF Rightmost[2] = Size - 1 THEN Rightmost[1] .. Size - 1 ELSE {Size - 1}
GreatestLast == \A l \in Places : \E r \in Last : items[l].Priority <= items[r].Priority

SortInv ==
    /\ SortTypeOK /\ Segment /\ Sentinels /\ CallsInv
    /\ SmallestLeft /\ GreatestRight /\ SmallestFirst /\ GreatestLast /\ SameFeeds

--------------------------------------------------------------------------------
LEMMA PlaceFacts ==
    /\ Size \in Nat /\ Size > 1 /\ 0 \in Places /\ Size - 1 \in Places
    /\ \A k \in Places : k \in Int /\ 0 <= k /\ k <= Size - 1
    /\ \A k \in Int : 0 <= k /\ k <= Size - 1 => k \in Places
BY SizeAssumption DEF Places

LEMMA PriorityFacts ==
    ASSUME SortTypeOK
    PROVE  \A k \in Places : items[k].Priority \in Int
BY PriorityAssumption DEF SortTypeOK, Feeds

(* A set of integers that is not empty and is bounded has a least element.     *)
LEMMA Least ==
    ASSUME NEW a \in Int, NEW S, S # {}, \A k \in S : k \in Int /\ a <= k
    PROVE  \E k \in S : \A m \in S : k <= m
<1> DEFINE T == {k - a : k \in S}
<1>1. T # {} /\ \A n \in T : n \in Nat
  OBVIOUS
<1>2. PICK n \in T : \A m \in T : n <= m
  <2>1. IsWellFoundedOn(OpToRel(<, Nat), Nat)
    BY NatLessThanWellFounded, Zenon
  <2>2. T \subseteq Nat /\ T # {}
    BY <1>1
  <2> HIDE DEF T
  <2>3. \E n \in T : \A m \in T : ~(<<m, n>> \in OpToRel(<, Nat))
    BY <2>1, <2>2, WFMin, Zenon
  <2>4. PICK n \in T : \A m \in T : ~(<<m, n>> \in OpToRel(<, Nat))
    BY <2>3, Zenon
  <2>5. \A m \in T : ~(m < n)
    BY <2>2, <2>4 DEF OpToRel
  <2>6. \A m \in T : n <= m
    BY <2>2, <2>5
  <2> QED
    BY <2>6
<1>3. PICK k \in S : n = k - a
  BY <1>2
<1>4. ASSUME NEW m \in S
      PROVE  k <= m
  <2>1. m - a \in T
    OBVIOUS
  <2>2. k - a <= m - a /\ k \in Int /\ m \in Int
    BY <1>2, <1>3, <2>1
  <2> QED
    BY <2>2
<1> QED
  BY <1>4

LEMMA Greatest ==
    ASSUME NEW b \in Int, NEW S, S # {}, \A k \in S : k \in Int /\ k <= b
    PROVE  \E k \in S : \A m \in S : k >= m
<1> DEFINE T == {-k : k \in S}
<1>1. T # {} /\ -b \in Int /\ \A n \in T : n \in Int /\ -b <= n
  OBVIOUS
<1>2. PICK n \in T : \A m \in T : n <= m
  <2> HIDE DEF T
  <2> QED
    BY <1>1, Least
<1>3. PICK k \in S : n = -k
  BY <1>2
<1>4. ASSUME NEW m \in S
      PROVE  k >= m
  <2>1. -m \in T
    OBVIOUS
  <2>2. -k <= -m /\ k \in Int /\ m \in Int
    BY <1>2, <1>3, <2>1
  <2> QED
    BY <2>2
<1> QED
  BY <1>4

(* The two scans *)

PivotPlace == (low + high) \div 2

ScanFacts ==
    /\ low \in Int /\ high \in Int /\ Low \in Int /\ High \in Int /\ 0 <= low /\ high <= Size - 1
    /\ pivot \in Int
    /\ FirstUp \in Int /\ Low <= FirstUp /\ FirstUp <= high /\ pivot <= items[FirstUp].Priority
    /\ \A k \in Low .. FirstUp - 1 : k \in Places => items[k].Priority < pivot
    /\ LastDown \in Int /\ LastDown <= High /\ low <= LastDown /\ items[LastDown].Priority <= pivot
    /\ \A k \in LastDown + 1 .. High : k \in Places => pivot < items[k].Priority
    /\ Low = low /\ High = high => FirstUp <= PivotPlace /\ PivotPlace <= LastDown

LEMMA Scans ==
    ASSUME SortTypeOK, Segment, Sentinels, Low <= High
    PROVE  StopsUp # {} /\ StopsDown # {} /\ ScanFacts
<1> DEFINE p == PivotPlace
<1>1. /\ low \in Int /\ high \in Int /\ Low \in Int /\ High \in Int /\ 0 <= low /\ high <= Size - 1
      /\ low < high /\ low <= Low /\ High <= high /\ Size \in Nat
  BY PlaceFacts DEF SortTypeOK, Segment
<1>2. p \in Int /\ low <= p /\ p <= high
  BY <1>1 DEF PivotPlace
<1>3. p \in Places /\ pivot = items[p].Priority /\ pivot \in Int
  <2>1. p \in Places
    BY <1>1, <1>2, PlaceFacts
  <2>2. pivot = items[p].Priority
    BY DEF pivot, PivotPlace
  <2> QED
    BY <2>1, <2>2, PriorityFacts
<1>3a. Stops(Part, low, high, Low, High, pivot) =>
         /\ \E k \in low .. Low - 1 : items[k].Priority <= pivot
         /\ \E k \in High + 1 .. high : pivot <= items[k].Priority
  <2>1. low .. Low - 1 \subseteq low .. high /\ High + 1 .. high \subseteq low .. high
    BY <1>1
  <2>2. \A k \in low .. high : Part[k] = items[k].Priority
    BY DEF Part
  <2> QED
    BY <2>1, <2>2 DEF Stops
<1>4. \E k \in StopsUp : k <= high /\ (Low = low /\ High = high => k = p)
  <2>1. CASE Low = low /\ High = high
    <3>1. p \in StopsUp
      BY <1>1, <1>2, <1>3, <2>1 DEF StopsUp
    <3> QED
      BY <1>2, <3>1
  <2>2. CASE Stops(Part, low, high, Low, High, pivot) /\ ~(Low = low /\ High = high)
    <3>1. PICK k \in High + 1 .. high : pivot <= items[k].Priority
      BY <1>3a, <2>2
    <3>2. k \in Places /\ k >= Low /\ k \in Int
      BY <1>1, <3>1, PlaceFacts
    <3>3. items[k].Priority >= pivot
      BY <1>3, <3>1, <3>2, PriorityFacts
    <3>4. k \in StopsUp /\ k <= high
      BY <1>1, <3>1, <3>2, <3>3 DEF StopsUp
    <3> QED
      BY <2>2, <3>4
  <2> QED
    BY <2>1, <2>2 DEF Sentinels
<1>5. \E k \in StopsDown : k >= low /\ (Low = low /\ High = high => k = p)
  <2>1. CASE Low = low /\ High = high
    <3>1. p \in StopsDown
      BY <1>1, <1>2, <1>3, <2>1 DEF StopsDown
    <3> QED
      BY <1>2, <3>1
  <2>2. CASE Stops(Part, low, high, Low, High, pivot) /\ ~(Low = low /\ High = high)
    <3>1. PICK k \in low .. Low - 1 : items[k].Priority <= pivot
      BY <1>3a, <2>2
    <3>2. k \in Places /\ k <= High /\ k \in Int
      BY <1>1, <3>1, PlaceFacts
    <3>3. k \in StopsDown /\ k >= low
      BY <1>1, <3>1, <3>2 DEF StopsDown
    <3> QED
      BY <2>2, <3>3
  <2> QED
    BY <2>1, <2>2 DEF Sentinels
<1>6. FirstUp \in StopsUp /\ \A m \in StopsUp : FirstUp <= m
  <2>1. \A k \in StopsUp : k \in Int /\ Low <= k
    BY <1>1, PlaceFacts DEF StopsUp
  <2>2. StopsUp # {}
    BY <1>4
  <2>3. \E k \in StopsUp : \A m \in StopsUp : k <= m
    BY <1>1, <2>1, <2>2, Least
  <2> QED
    BY <2>3 DEF FirstUp
<1>7. LastDown \in StopsDown /\ \A m \in StopsDown : LastDown >= m
  <2>1. \A k \in StopsDown : k \in Int /\ k <= High
    BY <1>1, PlaceFacts DEF StopsDown
  <2>2. StopsDown # {}
    BY <1>5
  <2>3. \E k \in StopsDown : \A m \in StopsDown : k >= m
    BY <1>1, <2>1, <2>2, Greatest
  <2> QED
    BY <2>3 DEF LastDown
<1> HIDE DEF p
<1>8. /\ FirstUp \in Places /\ FirstUp \in Int /\ Low <= FirstUp /\ FirstUp <= high
      /\ pivot <= items[FirstUp].Priority
      /\ (Low = low /\ High = high => FirstUp <= p)
  <2>1. FirstUp \in Places /\ FirstUp >= Low /\ items[FirstUp].Priority >= pivot /\ FirstUp \in Int
    BY <1>6, PlaceFacts DEF StopsUp
  <2>2. PICK k \in StopsUp : k <= high /\ (Low = low /\ High = high => k = p)
    BY <1>4
  <2>3. FirstUp <= k /\ k \in Int
    BY <1>6, <2>2, PlaceFacts DEF StopsUp
  <2>4. items[FirstUp].Priority \in Int
    BY <2>1, PriorityFacts
  <2> QED
    BY <1>1, <1>3, <2>1, <2>2, <2>3, <2>4
<1>9. /\ LastDown \in Places /\ LastDown \in Int /\ LastDown <= High /\ low <= LastDown
      /\ items[LastDown].Priority <= pivot
      /\ (Low = low /\ High = high => p <= LastDown)
  <2>1. LastDown \in Places /\ LastDown <= High /\ items[LastDown].Priority <= pivot /\ LastDown \in Int
    BY <1>7, PlaceFacts DEF StopsDown
  <2>2. PICK k \in StopsDown : k >= low /\ (Low = low /\ High = high => k = p)
    BY <1>5
  <2>3. LastDown >= k /\ k \in Int
    BY <1>7, <2>2, PlaceFacts DEF StopsDown
  <2> QED
    BY <1>1, <2>1, <2>2, <2>3
<1>10. ASSUME NEW k \in Low .. FirstUp - 1, k \in Places
       PROVE  items[k].Priority < pivot
  <2>1. k \notin StopsUp /\ k >= Low
    BY <1>1, <1>6, <1>8
  <2>2. ~(items[k].Priority >= pivot)
    BY <1>10, <2>1 DEF StopsUp
  <2>3. items[k].Priority \in Int
    BY <1>10, PriorityFacts
  <2> QED
    BY <1>3, <2>2, <2>3
<1>11. ASSUME NEW k \in LastDown + 1 .. High, k \in Places
       PROVE  pivot < items[k].Priority
  <2>1. k \notin StopsDown /\ k <= High
    BY <1>1, <1>7, <1>9
  <2>2. ~(items[k].Priority <= pivot)
    BY <1>11, <2>1 DEF StopsDown
  <2>3. items[k].Priority \in Int
    BY <1>11, PriorityFacts
  <2> QED
    BY <1>3, <2>2, <2>3
<1>12. StopsUp # {} /\ StopsDown # {}
  BY <1>4, <1>5
<1> QED
  BY <1>1, <1>3, <1>8, <1>9, <1>10, <1>11, <1>12 DEF ScanFacts, p

(* One turn of the loop *)

(* A swap inside the segment moves its feeds to other places of it.             *)
Shuffled ==
    /\ items' \in [Places -> Feeds]
    /\ \A k \in Places : k \notin low .. high => items'[k] = items[k]
    /\ \A k \in low .. high : \E m \in low .. high : items'[k] = items[m]
    /\ \A m \in low .. high : \E k \in low .. high : items'[k] = items[m]

Swap ==
    /\ FirstUp <= LastDown
    /\ items' = [items EXCEPT ![FirstUp] = items[LastDown], ![LastDown] = items[FirstUp]]
    /\ Low' = FirstUp + 1 /\ High' = LastDown - 1

Cross == FirstUp > LastDown /\ Low' = FirstUp /\ High' = LastDown /\ items' = items

LEMMA SwapIs ==
    ASSUME SortTypeOK, Segment, ScanFacts, Swap
    PROVE  /\ items' \in [Places -> Feeds]
           /\ items'[FirstUp] = items[LastDown] /\ items'[LastDown] = items[FirstUp]
           /\ \A k \in Places : k # FirstUp /\ k # LastDown => items'[k] = items[k]
           /\ Shuffled
<1> DEFINE i == FirstUp
           j == LastDown
<1>1. /\ i \in Places /\ j \in Places /\ i \in low .. high /\ j \in low .. high
      /\ i \in Int /\ j \in Int /\ low .. high \subseteq Places
  <2>1. /\ i \in Int /\ j \in Int /\ low \in Int /\ high \in Int /\ 0 <= low /\ high <= Size - 1
        /\ low <= i /\ i <= high /\ low <= j /\ j <= high
    <3>1. /\ Low \in Int /\ High \in Int /\ i \in Int /\ j \in Int /\ low \in Int /\ high \in Int
          /\ 0 <= low /\ high <= Size - 1 /\ i <= high /\ low <= j /\ i <= j /\ j <= High /\ Low <= i
          /\ low <= Low /\ High <= high
      BY DEF ScanFacts, Swap, Segment
    <3> QED
      BY <3>1
  <2> QED
    BY <2>1, PlaceFacts
<1>2. items \in [Places -> Feeds] /\ items' = [items EXCEPT ![i] = items[j], ![j] = items[i]]
  BY DEF SortTypeOK, Swap
<1> HIDE DEF i, j
<1>3. items' \in [Places -> Feeds]
  BY <1>1, <1>2
<1>4. items'[i] = items[j] /\ items'[j] = items[i]
  BY <1>1, <1>2
<1>5. \A k \in Places : k # i /\ k # j => items'[k] = items[k]
  BY <1>1, <1>2
<1>6. \A k \in low .. high : \E m \in low .. high : items'[k] = items[m]
  BY <1>1, <1>4, <1>5
<1>7. \A m \in low .. high : \E k \in low .. high : items'[k] = items[m]
  BY <1>1, <1>4, <1>5
<1>8. \A k \in Places : k \notin low .. high => items'[k] = items[k]
  BY <1>1, <1>5
<1> QED
  BY <1>3, <1>4, <1>5, <1>6, <1>7, <1>8 DEF Shuffled, i, j

LEMMA TurnIs ==
    ASSUME SortTypeOK, Segment, Sentinels, Turn
    PROVE  /\ ScanFacts /\ Shuffled /\ Low <= High
           /\ Swap \/ Cross
           /\ UNCHANGED <<low, high, calls, input>>
<1>1. ScanFacts /\ Low <= High /\ UNCHANGED <<low, high, calls, input>>
  BY Scans DEF Turn
<1>2. Swap \/ Cross
  BY DEF Turn, Swap, Cross
<1>3. CASE Swap
  BY <1>1, <1>3, SwapIs
<1>4. CASE Cross
  <2>1. items' = items /\ items \in [Places -> Feeds]
    BY <1>4 DEF Cross, SortTypeOK
  <2>2. \A k \in low .. high : items'[k] = items[k]
    BY <2>1
  <2>3. Shuffled
    BY <2>1, <2>2 DEF Shuffled
  <2> QED
    BY <1>1, <1>4, <2>3
<1> QED
  BY <1>1, <1>2, <1>3, <1>4

LEMMA TurnSegment ==
    ASSUME SortTypeOK, Segment, Sentinels, Turn
    PROVE  SortTypeOK' /\ Segment' /\ CallsInv' = CallsInv
<1>1. ScanFacts /\ Shuffled /\ (Swap \/ Cross) /\ UNCHANGED <<low, high, calls, input>>
  BY TurnIs
<1>2. Low' \in Int /\ High' \in Int /\ low <= Low' /\ High' <= high
  <2>1. /\ FirstUp \in Int /\ LastDown \in Int /\ low \in Int /\ high \in Int /\ Low \in Int /\ High \in Int
        /\ low <= Low /\ High <= high /\ Low <= FirstUp /\ LastDown <= High
    BY <1>1 DEF ScanFacts, Segment
  <2>2. Low' = FirstUp \/ Low' = FirstUp + 1
    BY <1>1 DEF Swap, Cross
  <2>3. High' = LastDown \/ High' = LastDown - 1
    BY <1>1 DEF Swap, Cross
  <2> QED
    BY <2>1, <2>2, <2>3
<1>3. SortTypeOK'
  BY <1>1, <1>2 DEF SortTypeOK, Shuffled
<1>4. Segment'
  BY <1>1, <1>2 DEF Segment
<1>5. CallsInv' = CallsInv
  BY <1>1 DEF CallsInv
<1> QED
  BY <1>3, <1>4, <1>5

(* Whatever a shuffle does, the feeds of the segment are the same.             *)
LEMMA ShuffledFeeds ==
    ASSUME SortTypeOK, Shuffled, low \in Places, high \in Places, input' = input
    PROVE  SameFeeds' = SameFeeds
<1>1. low .. high \subseteq Places
  BY PlaceFacts DEF Places
<1>2. {items'[i] : i \in Places} = {items[i] : i \in Places}
  <2>1. \A k \in Places : \E m \in Places : items'[k] = items[m]
    BY <1>1 DEF Shuffled
  <2>2. \A m \in Places : \E k \in Places : items'[k] = items[m]
    BY <1>1 DEF Shuffled
  <2> QED
    BY <2>1, <2>2
<1>3. {input'[i] : i \in Places} = {input[i] : i \in Places}
  OBVIOUS
<1> QED
  BY <1>2, <1>3, Zenon DEF SameFeeds

--------------------------------------------------------------------------------
(* What one turn does to the priorities                                        *)

LEMMA SwapStops ==
    ASSUME NEW f, NEW g, NEW l, NEW h, NEW L, NEW H, NEW i, NEW j, NEW p \in l .. h,
           Passed(f, l, h, L, H, i, j, f[p]), Swapped(f, g, l, h, i, j)
    PROVE  Stops(g, l, h, i + 1, j - 1, g[p])
<1> USE DEF Passed, Swapped, Stops
<1>1. /\ i \in l .. (i + 1) - 1 /\ j \in (j - 1) + 1 .. h /\ i \in l .. h /\ j \in l .. h
      /\ f[i] \in Int /\ f[j] \in Int /\ f[p] \in Int
  OBVIOUS
<1>2. CASE p # i /\ p # j
  <2>1. g[p] = f[p] /\ g[i] <= f[p] /\ f[p] <= g[j]
    BY <1>1, <1>2
  <2> QED
    BY <1>1, <2>1
<1>3. CASE p = i \/ p = j
  <2>1. g[i] <= g[p] /\ g[p] <= g[j]
    BY <1>1, <1>3
  <2> QED
    BY <1>1, <2>1
<1> QED
  BY <1>2, <1>3

LEMMA SwapBelow ==
    ASSUME NEW f, NEW g, NEW l, NEW h, NEW L, NEW H, NEW i, NEW j, NEW v,
           Passed(f, l, h, L, H, i, j, v), Swapped(f, g, l, h, i, j),
           LeftBelow(f, l, h, L, H)
    PROVE  LeftBelow(g, l, h, i + 1, j - 1)
<1> SUFFICES ASSUME NEW r \in (j - 1) + 1 .. h
             PROVE  \E q \in l .. (i + 1) - 1 : g[q] <= g[r]
  BY DEF LeftBelow
<1>1. /\ i \in l .. (i + 1) - 1 /\ i \in l .. h /\ j \in l .. h /\ r \in l .. h /\ r \in Int /\ j <= r /\ r <= h
      /\ f[i] \in Int /\ f[j] \in Int /\ f[r] \in Int /\ g[i] = f[j] /\ f[j] <= v /\ v <= f[i] /\ v \in Int
      /\ g[j] = f[i] /\ i <= j /\ L <= i /\ i \in Int /\ j \in Int /\ L \in Int /\ H \in Int /\ l \in Int /\ j <= H
      /\ l <= L /\ H <= h /\ h \in Int
  BY DEF Passed, Swapped
<1>2. CASE r = j
  BY <1>1, <1>2
<1>3. CASE r # j /\ r <= H
  <2>1. g[r] = f[r] /\ v < f[r]
    <3>1. r \in j + 1 .. H /\ r # i
      BY <1>1, <1>3
    <3> QED
      BY <1>1, <1>3, <3>1 DEF Passed, Swapped
  <2>2. g[i] <= g[r]
    BY <1>1, <2>1
  <2> QED
    BY <1>1, <2>2
<1>4. CASE H < r
  <2>1. r \in H + 1 .. h
    BY <1>1, <1>4
  <2>2. PICK q \in l .. L - 1 : f[q] <= f[r]
    BY <2>1 DEF LeftBelow
  <2>3. q \in l .. (i + 1) - 1 /\ q # i /\ q # j /\ q \in l .. h /\ r # i /\ r # j
    BY <1>1, <1>4
  <2>4. g[q] = f[q] /\ g[r] = f[r]
    BY <1>1, <2>3 DEF Swapped
  <2> QED
    BY <2>2, <2>3, <2>4
<1> QED
  BY <1>1, <1>2, <1>3, <1>4

LEMMA SwapAbove ==
    ASSUME NEW f, NEW g, NEW l, NEW h, NEW L, NEW H, NEW i, NEW j, NEW v,
           Passed(f, l, h, L, H, i, j, v), Swapped(f, g, l, h, i, j),
           RightAbove(f, l, h, L, H)
    PROVE  RightAbove(g, l, h, i + 1, j - 1)
<1> SUFFICES ASSUME NEW q \in l .. (i + 1) - 1
             PROVE  \E r \in (j - 1) + 1 .. h : g[q] <= g[r]
  BY DEF RightAbove
<1>1. /\ j \in (j - 1) + 1 .. h /\ i \in l .. h /\ j \in l .. h /\ q \in l .. h /\ q \in Int /\ q <= i /\ l <= q
      /\ f[i] \in Int /\ f[j] \in Int /\ f[q] \in Int /\ g[i] = f[j] /\ f[j] <= v /\ v <= f[i] /\ v \in Int
      /\ g[j] = f[i] /\ i <= j /\ L <= i /\ i \in Int /\ j \in Int /\ L \in Int /\ H \in Int /\ l \in Int /\ j <= H
      /\ l <= L /\ H <= h /\ h \in Int
  BY DEF Passed, Swapped
<1>2. CASE q = i
  BY <1>1, <1>2
<1>3. CASE q # i /\ L <= q
  <2>1. g[q] = f[q] /\ f[q] < v
    <3>1. q \in L .. i - 1 /\ q # j
      BY <1>1, <1>3
    <3> QED
      BY <1>1, <1>3, <3>1 DEF Passed, Swapped
  <2>2. g[q] <= g[j]
    BY <1>1, <2>1
  <2> QED
    BY <1>1, <2>2
<1>4. CASE q < L
  <2>1. q \in l .. L - 1
    BY <1>1, <1>4
  <2>2. PICK r \in H + 1 .. h : f[q] <= f[r]
    BY <2>1 DEF RightAbove
  <2>3. r \in (j - 1) + 1 .. h /\ r # i /\ r # j /\ r \in l .. h /\ q # i /\ q # j
    BY <1>1, <1>4
  <2>4. g[q] = f[q] /\ g[r] = f[r]
    BY <1>1, <2>3 DEF Swapped
  <2> QED
    BY <2>2, <2>3, <2>4
<1> QED
  BY <1>1, <1>2, <1>3, <1>4

(* The loop ends after a swap: i and j have met, or were next to each other.   *)
LEMMA SwapLeast ==
    ASSUME NEW f, NEW g, NEW l, NEW h, NEW L, NEW H, NEW i, NEW j, NEW v,
           Passed(f, l, h, L, H, i, j, v), Swapped(f, g, l, h, i, j), i + 1 > j - 1,
           LeftBelow(f, l, h, L, H), L = l \/ Stops(f, l, h, L, H, v)
    PROVE  LeftLeast(g, l, h, j - 1)
<1> SUFFICES ASSUME NEW r \in l .. h
             PROVE  \E q \in {l} \cup (l .. j - 1) : g[q] <= g[r]
  BY DEF LeftLeast
<1>1. /\ i \in l .. h /\ j \in l .. h /\ r \in l .. h /\ r \in Int /\ l <= r /\ r <= h
      /\ f[j] <= v /\ v <= f[i] /\ v \in Int /\ g[r] \in Int /\ f[i] \in Int /\ f[j] \in Int
      /\ g[i] = f[j] /\ g[j] = f[i]
      /\ i <= j /\ L <= i /\ i \in Int /\ j \in Int /\ L \in Int /\ H \in Int /\ l \in Int /\ j <= H
      /\ l <= L /\ H <= h /\ h \in Int /\ l <= i
  BY DEF Passed, Swapped
<1>2. CASE r <= j - 1
  <2>1. r \in l .. j - 1
    BY <1>1, <1>2
  <2> QED
    BY <1>1, <2>1
<1>3. PICK q \in l .. i : g[q] <= g[r] \/ r < j
  <2>1. CASE r >= j
    <3>1. r \in (j - 1) + 1 .. h
      BY <1>1, <2>1
    <3>2. \E q \in l .. (i + 1) - 1 : g[q] <= g[r]
      BY <3>1, SwapBelow DEF LeftBelow
    <3>3. (i + 1) - 1 = i
      BY <1>1
    <3> QED
      BY <3>2, <3>3
  <2>2. CASE r < j
    <3>1. l \in l .. i
      BY <1>1
    <3> QED
      BY <2>2, <3>1
  <2> QED
    BY <1>1, <2>1, <2>2
<1>4. CASE r >= j /\ q <= j - 1
  <2>1. q \in l .. j - 1 /\ g[q] <= g[r]
    BY <1>1, <1>3, <1>4
  <2> QED
    BY <2>1
<1>5. CASE r >= j /\ q > j - 1
  <2>1. q = i /\ i = j /\ g[i] <= g[r]
    BY <1>1, <1>3, <1>5
  <2>2. CASE i = l
    BY <2>1, <2>2
  <2>3. CASE i # l
    <3>1. PICK k \in l .. i - 1 : f[k] <= v
      <4>1. CASE L = i
        <5>1. Stops(f, l, h, L, H, v)
          BY <2>3, <4>1
        <5> QED
          BY <4>1, <5>1 DEF Stops
      <4>2. CASE L # i
        <5>1. CASE L = l
          <6>1. l \in L .. i - 1 /\ l \in l .. i - 1
            BY <1>1, <4>2, <5>1
          <6>2. f[l] < v /\ f[l] \in Int
            BY <1>1, <6>1 DEF Passed
          <6> QED
            BY <1>1, <6>1, <6>2
        <5>2. CASE Stops(f, l, h, L, H, v)
          <6>1. l .. L - 1 \subseteq l .. i - 1
            BY <1>1
          <6> QED
            BY <5>2, <6>1 DEF Stops
        <5> QED
          BY <5>1, <5>2
      <4> QED
        BY <4>1, <4>2
    <3>2. k \in l .. j - 1 /\ k \in l .. h /\ k # i /\ k # j /\ f[k] \in Int
      BY <1>1, <2>1, <3>1 DEF Passed
    <3>3. g[k] = f[k] /\ g[i] = f[i] /\ v = f[i]
      BY <1>1, <2>1, <3>2 DEF Swapped
    <3>4. g[k] <= g[r]
      BY <1>1, <2>1, <3>1, <3>2, <3>3
    <3> QED
      BY <3>2, <3>4
  <2> QED
    BY <2>2, <2>3
<1> QED
  BY <1>1, <1>2, <1>4, <1>5

LEMMA SwapGreatest ==
    ASSUME NEW f, NEW g, NEW l, NEW h, NEW L, NEW H, NEW i, NEW j, NEW v,
           Passed(f, l, h, L, H, i, j, v), Swapped(f, g, l, h, i, j), i + 1 > j - 1,
           RightAbove(f, l, h, L, H), H = h \/ Stops(f, l, h, L, H, v)
    PROVE  RightGreatest(g, l, h, i + 1)
<1> SUFFICES ASSUME NEW q \in l .. h
             PROVE  \E r \in {h} \cup (i + 1 .. h) : g[q] <= g[r]
  BY DEF RightGreatest
<1>1. /\ i \in l .. h /\ j \in l .. h /\ q \in l .. h /\ q \in Int /\ l <= q /\ q <= h
      /\ f[j] <= v /\ v <= f[i] /\ v \in Int /\ g[q] \in Int /\ f[i] \in Int /\ f[j] \in Int
      /\ g[i] = f[j] /\ g[j] = f[i]
      /\ i <= j /\ L <= i /\ i \in Int /\ j \in Int /\ L \in Int /\ H \in Int /\ l \in Int /\ j <= H
      /\ l <= L /\ H <= h /\ h \in Int /\ j <= h
  BY DEF Passed, Swapped
<1>2. CASE q >= i + 1
  <2>1. q \in i + 1 .. h
    BY <1>1, <1>2
  <2> QED
    BY <1>1, <2>1
<1>3. PICK r \in j .. h : g[q] <= g[r] \/ q > i
  <2>1. CASE q <= i
    <3>1. q \in l .. (i + 1) - 1
      BY <1>1, <2>1
    <3>2. \E r \in (j - 1) + 1 .. h : g[q] <= g[r]
      BY <3>1, SwapAbove DEF RightAbove
    <3>3. (j - 1) + 1 = j
      BY <1>1
    <3> QED
      BY <3>2, <3>3
  <2>2. CASE q > i
    <3>1. h \in j .. h
      BY <1>1
    <3> QED
      BY <2>2, <3>1
  <2> QED
    BY <1>1, <2>1, <2>2
<1>4. CASE q <= i /\ r >= i + 1
  <2>1. r \in i + 1 .. h /\ g[q] <= g[r]
    BY <1>1, <1>3, <1>4
  <2> QED
    BY <2>1
<1>5. CASE q <= i /\ r < i + 1
  <2>1. r = i /\ i = j /\ g[q] <= g[i]
    BY <1>1, <1>3, <1>5
  <2>2. CASE j = h
    BY <2>1, <2>2
  <2>3. CASE j # h
    <3>1. PICK k \in j + 1 .. h : v <= f[k]
      <4>1. CASE H = j
        <5>1. Stops(f, l, h, L, H, v)
          BY <2>3, <4>1
        <5> QED
          BY <4>1, <5>1 DEF Stops
      <4>2. CASE H # j
        <5>1. CASE H = h
          <6>1. h \in j + 1 .. H /\ h \in j + 1 .. h /\ h \in l .. h
            BY <1>1, <4>2, <5>1
          <6>2. v < f[h] /\ f[h] \in Int
            BY <6>1 DEF Passed
          <6> QED
            BY <1>1, <6>1, <6>2
        <5>2. CASE Stops(f, l, h, L, H, v)
          <6>1. H + 1 .. h \subseteq j + 1 .. h
            BY <1>1
          <6> QED
            BY <5>2, <6>1 DEF Stops
        <5> QED
          BY <5>1, <5>2
      <4> QED
        BY <4>1, <4>2
    <3>2. k \in i + 1 .. h /\ k \in l .. h /\ k # i /\ k # j /\ f[k] \in Int
      BY <1>1, <2>1, <3>1 DEF Passed
    <3>3. g[k] = f[k] /\ g[i] = f[i] /\ v = f[i]
      BY <1>1, <2>1, <3>2 DEF Swapped
    <3>4. g[q] <= g[k]
      BY <1>1, <2>1, <3>1, <3>2, <3>3
    <3> QED
      BY <3>2, <3>4
  <2> QED
    BY <2>2, <2>3
<1> QED
  BY <1>1, <1>2, <1>4, <1>5

(* The loop ends because the scans have crossed: nothing is swapped.           *)
LEMMA CrossLeast ==
    ASSUME NEW f, NEW l, NEW h, NEW L, NEW H, NEW i, NEW j, NEW v,
           Passed(f, l, h, L, H, i, j, v), i > j, LeftBelow(f, l, h, L, H)
    PROVE  LeftLeast(f, l, h, j)
<1> SUFFICES ASSUME NEW r \in l .. h
             PROVE  \E q \in {l} \cup (l .. j) : f[q] <= f[r]
  BY DEF LeftLeast
<1>1. /\ j \in l .. j /\ j \in l .. h /\ r \in Int /\ l <= r /\ r <= h /\ f[j] <= v /\ f[j] \in Int /\ v \in Int
      /\ f[r] \in Int /\ l \in Int /\ h \in Int /\ L \in Int /\ H \in Int /\ j \in Int /\ i \in Int
      /\ L <= H /\ l <= L /\ H <= h
  BY DEF Passed
<1>2. CASE r <= j
  <2>1. r \in l .. j
    BY <1>1, <1>2
  <2> QED
    BY <1>1, <2>1
<1>3. CASE j < r /\ r <= H
  <2>1. v < f[r]
    BY <1>1, <1>3 DEF Passed
  <2>2. f[j] <= f[r]
    BY <1>1, <2>1
  <2> QED
    BY <1>1, <2>2
<1>4. CASE H < r
  <2>1. r \in H + 1 .. h
    BY <1>1, <1>4
  <2>2. PICK q \in l .. L - 1 : f[q] <= f[r]
    BY <2>1 DEF LeftBelow
  <2>3. CASE q <= j
    <3>1. q \in l .. j
      BY <1>1, <2>2, <2>3
    <3> QED
      BY <2>2, <3>1
  <2>4. CASE q > j
    <3>1. q \in j + 1 .. H /\ q \in l .. h
      BY <1>1, <2>4
    <3>2. v < f[q] /\ f[q] \in Int
      BY <3>1 DEF Passed
    <3>3. f[j] <= f[r]
      BY <1>1, <2>2, <3>2
    <3> QED
      BY <1>1, <3>3
  <2> QED
    BY <1>1, <2>2, <2>3, <2>4
<1> QED
  BY <1>1, <1>2, <1>3, <1>4

LEMMA CrossGreatest ==
    ASSUME NEW f, NEW l, NEW h, NEW L, NEW H, NEW i, NEW j, NEW v,
           Passed(f, l, h, L, H, i, j, v), i > j, RightAbove(f, l, h, L, H)
    PROVE  RightGreatest(f, l, h, i)
<1> SUFFICES ASSUME NEW q \in l .. h
             PROVE  \E r \in {h} \cup (i .. h) : f[q] <= f[r]
  BY DEF RightGreatest
<1>1. /\ i \in i .. h /\ i \in l .. h /\ q \in Int /\ l <= q /\ q <= h /\ v <= f[i] /\ f[i] \in Int /\ v \in Int
      /\ f[q] \in Int /\ l \in Int /\ h \in Int /\ L \in Int /\ H \in Int /\ j \in Int /\ i \in Int
      /\ L <= H /\ l <= L /\ H <= h
  BY DEF Passed
<1>2. CASE i <= q
  <2>1. q \in i .. h
    BY <1>1, <1>2
  <2> QED
    BY <1>1, <2>1
<1>3. CASE q < i /\ L <= q
  <2>1. f[q] < v
    BY <1>1, <1>3 DEF Passed
  <2>2. f[q] <= f[i]
    BY <1>1, <2>1
  <2> QED
    BY <1>1, <2>2
<1>4. CASE q < L
  <2>1. q \in l .. L - 1
    BY <1>1, <1>4
  <2>2. PICK r \in H + 1 .. h : f[q] <= f[r]
    BY <2>1 DEF RightAbove
  <2>3. CASE i <= r
    <3>1. r \in i .. h
      BY <1>1, <2>2, <2>3
    <3> QED
      BY <2>2, <3>1
  <2>4. CASE r < i
    <3>1. r \in L .. i - 1 /\ r \in l .. h
      BY <1>1, <2>4
    <3>2. f[r] < v /\ f[r] \in Int
      BY <3>1 DEF Passed
    <3>3. f[q] <= f[i]
      BY <1>1, <2>2, <3>2
    <3> QED
      BY <1>1, <3>3
  <2> QED
    BY <1>1, <2>2, <2>3, <2>4
<1> QED
  BY <1>1, <1>2, <1>3, <1>4

--------------------------------------------------------------------------------
(* The turn of the module *)

LEMMA TurnPasses ==
    ASSUME SortTypeOK, Segment, Sentinels, Turn
    PROVE  /\ Passed(Part, low, high, Low, High, FirstUp, LastDown, pivot)
           /\ PivotPlace \in low .. high /\ pivot = Part[PivotPlace] /\ pivot' = Part'[PivotPlace]
           /\ Swap => Swapped(Part, Part', low, high, FirstUp, LastDown)
           /\ Cross => Part' = Part /\ pivot' = pivot
<1>1. /\ ScanFacts /\ (Swap \/ Cross) /\ low' = low /\ high' = high /\ Low <= High
      /\ items \in [Places -> Feeds] /\ items' \in [Places -> Feeds]
  BY TurnIs DEF Shuffled, SortTypeOK
<1>2. /\ low \in Int /\ high \in Int /\ Low \in Int /\ High \in Int /\ 0 <= low /\ high <= Size - 1
      /\ low < high /\ low <= Low /\ High <= high /\ Size \in Nat
  BY <1>1, PlaceFacts DEF ScanFacts, Segment
<1>3. \A k \in low .. high : k \in Places /\ items[k].Priority \in Int /\ items'[k].Priority \in Int
  <2>1. \A k \in low .. high : k \in Places
    BY <1>2, PlaceFacts
  <2>2. \A x \in Feeds : x.Priority \in Int
    BY PriorityAssumption DEF Feeds
  <2> QED
    BY <1>1, <2>1, <2>2
<1>4. /\ Part \in [low .. high -> Int] /\ \A k \in low .. high : Part[k] = items[k].Priority
      /\ Part' \in [low .. high -> Int] /\ \A k \in low .. high : Part'[k] = items'[k].Priority
  BY <1>1, <1>3 DEF Part
<1>5. PivotPlace \in low .. high /\ PivotPlace' = PivotPlace
  BY <1>1, <1>2 DEF PivotPlace
<1>6. pivot = Part[PivotPlace] /\ pivot' = Part'[PivotPlace]
  <2>1. pivot = items[PivotPlace].Priority
    BY DEF pivot, PivotPlace
  <2>2. pivot' = items'[PivotPlace].Priority
    BY <1>1 DEF pivot, PivotPlace
  <2> QED
    BY <1>4, <1>5, <2>1, <2>2
<1>7. FirstUp \in low .. high /\ LastDown \in low .. high
  BY <1>1, <1>2 DEF ScanFacts
<1>8. Passed(Part, low, high, Low, High, FirstUp, LastDown, pivot)
  <2>1. \A k \in Low .. FirstUp - 1 : Part[k] < pivot
    <3>1. \A k \in Low .. FirstUp - 1 : k \in low .. high
      BY <1>2, <1>7
    <3> QED
      BY <1>1, <1>3, <1>4, <3>1 DEF ScanFacts
  <2>2. \A k \in LastDown + 1 .. High : pivot < Part[k]
    <3>1. \A k \in LastDown + 1 .. High : k \in low .. high
      BY <1>2, <1>7
    <3> QED
      BY <1>1, <1>3, <1>4, <3>1 DEF ScanFacts
  <2>3. pivot <= Part[FirstUp] /\ Part[LastDown] <= pivot
    BY <1>1, <1>4, <1>7 DEF ScanFacts
  <2>4. /\ FirstUp \in Int /\ LastDown \in Int /\ pivot \in Int
        /\ Low <= FirstUp /\ FirstUp <= high /\ low <= LastDown /\ LastDown <= High
    BY <1>1 DEF ScanFacts
  <2> QED
    BY <1>1, <1>2, <1>4, <2>1, <2>2, <2>3, <2>4 DEF Passed
<1>9. ASSUME Swap
      PROVE  Swapped(Part, Part', low, high, FirstUp, LastDown)
  <2>1. /\ items'[FirstUp] = items[LastDown] /\ items'[LastDown] = items[FirstUp]
        /\ \A k \in Places : k # FirstUp /\ k # LastDown => items'[k] = items[k]
    BY <1>1, <1>9, SwapIs
  <2>2. FirstUp <= LastDown
    BY <1>9 DEF Swap
  <2>3. \A k \in low .. high : k # FirstUp /\ k # LastDown => Part'[k] = Part[k]
    BY <1>3, <1>4, <2>1
  <2>4. Part'[FirstUp] = Part[LastDown] /\ Part'[LastDown] = Part[FirstUp]
    BY <1>4, <1>7, <2>1
  <2> QED
    BY <1>4, <2>2, <2>3, <2>4 DEF Swapped
<1>10. ASSUME Cross
       PROVE  Part' = Part /\ pivot' = pivot
  BY <1>1, <1>10 DEF Cross, Part, pivot
<1> QED
  BY <1>5, <1>6, <1>8, <1>9, <1>10

LEMMA TurnLoop ==
    ASSUME SortTypeOK, Segment, Sentinels, SmallestLeft, GreatestRight, Turn
    PROVE  Sentinels' /\ SmallestLeft' /\ GreatestRight'
<1> DEFINE f == Part
           g == Part'
           i == FirstUp
           j == LastDown
           p == PivotPlace
           v == pivot
<1>1. /\ Passed(f, low, high, Low, High, i, j, v) /\ p \in low .. high /\ v = f[p] /\ pivot' = g[p]
      /\ Swap => Swapped(f, g, low, high, i, j)
      /\ Cross => g = f /\ pivot' = v
  BY TurnPasses
<1>2. (Swap \/ Cross) /\ low' = low /\ high' = high /\ Low <= High
  BY TurnIs
<1>3. LeftBelow(f, low, high, Low, High) /\ RightAbove(f, low, high, Low, High)
  BY <1>2 DEF SmallestLeft, GreatestRight
<1>4. \/ Low = low /\ High = high
      \/ Stops(f, low, high, Low, High, v)
  BY DEF Sentinels
<1>5. /\ Sentinels' <=> (Low' = low /\ High' = high) \/ Stops(g, low, high, Low', High', pivot')
      /\ SmallestLeft' <=> IF Low' <= High' THEN LeftBelow(g, low, high, Low', High')
                           ELSE LeftLeast(g, low, high, High')
      /\ GreatestRight' <=> IF Low' <= High' THEN RightAbove(g, low, high, Low', High')
                            ELSE RightGreatest(g, low, high, Low')
  BY <1>2 DEF Sentinels, SmallestLeft, GreatestRight, Stops, LeftBelow, LeftLeast, RightAbove, RightGreatest
<1>6. ASSUME Swap
      PROVE  Sentinels' /\ SmallestLeft' /\ GreatestRight'
  <2>1. Low' = i + 1 /\ High' = j - 1
    BY <1>6 DEF Swap
  <2>2. Swapped(f, g, low, high, i, j)
    BY <1>1, <1>6
  <2>3. i \in Int /\ j \in Int
    BY <1>1 DEF Passed
  <2> HIDE DEF f, g, i, j, p, v
  <2>4. Stops(g, low, high, i + 1, j - 1, g[p])
    BY <1>1, <2>2, SwapStops
  <2>5. LeftBelow(g, low, high, i + 1, j - 1)
    BY <1>1, <1>3, <2>2, SwapBelow
  <2>6. RightAbove(g, low, high, i + 1, j - 1)
    BY <1>1, <1>3, <2>2, SwapAbove
  <2>7. i + 1 > j - 1 => LeftLeast(g, low, high, j - 1)
    BY <1>1, <1>3, <1>4, <2>2, SwapLeast
  <2>8. i + 1 > j - 1 => RightGreatest(g, low, high, i + 1)
    BY <1>1, <1>3, <1>4, <2>2, SwapGreatest
  <2>9. Low' <= High' \/ i + 1 > j - 1
    BY <2>1, <2>3
  <2> QED
    BY <1>1, <1>5, <2>1, <2>4, <2>5, <2>6, <2>7, <2>8, <2>9
<1>7. ASSUME Cross
      PROVE  Sentinels' /\ SmallestLeft' /\ GreatestRight'
  <2>1. Low' = i /\ High' = j /\ i > j /\ i \in Int /\ j \in Int
    BY <1>1, <1>7 DEF Cross, Passed
  <2>2. g = f /\ pivot' = v
    BY <1>1, <1>7
  <2>3. ~(Low = low /\ High = high)
    BY <2>1, TurnIs DEF ScanFacts, PivotPlace
  <2> HIDE DEF f, g, i, j, p, v
  <2>4. Stops(f, low, high, Low, High, v)
    BY <1>4, <2>3
  <2>5. Stops(f, low, high, i, j, v)
    <3>1. low .. Low - 1 \subseteq low .. i - 1 /\ High + 1 .. high \subseteq j + 1 .. high
      BY <1>1 DEF Passed
    <3> QED
      BY <2>4, <3>1 DEF Stops
  <2>6. LeftLeast(f, low, high, j)
    BY <1>1, <1>3, <2>1, CrossLeast
  <2>7. RightGreatest(f, low, high, i)
    BY <1>1, <1>3, <2>1, CrossGreatest
  <2> QED
    BY <1>5, <2>1, <2>2, <2>5, <2>6, <2>7
<1> QED
  BY <1>2, <1>6, <1>7

(* The extremes of the whole array stay in their segments. *)
LEMMA TurnExtremes ==
    ASSUME SortInv, Turn
    PROVE  SmallestFirst' /\ GreatestLast' /\ SameFeeds'
<1>1. /\ Shuffled /\ UNCHANGED <<low, high, calls, input>>
      /\ SortTypeOK /\ CallsInv /\ SmallestFirst /\ GreatestLast /\ SameFeeds
  BY TurnIs DEF SortInv
<1>2. /\ low \in Int /\ high \in Int /\ 0 <= low /\ high <= Size - 1 /\ low < high /\ Size \in Nat
      /\ low \in Places /\ high \in Places
  BY PlaceFacts DEF SortInv, SortTypeOK, Segment
<1>3. SameFeeds'
  BY <1>1, <1>2, ShuffledFeeds
<1>4. \A k \in Places : \E m \in Places : items'[k] = items[m]
  <2>1. low .. high \subseteq Places
    BY <1>2, PlaceFacts
  <2> QED
    BY <1>1, <2>1 DEF Shuffled
<1>5. \A m \in First : \E k \in First : items'[k] = items[m]
  <2>1. CASE low = 0
    BY <1>1, <2>1 DEF Shuffled, First
  <2>2. CASE low # 0
    <3>1. 0 \in Places /\ 0 \notin low .. high
      BY <1>2, <2>2, PlaceFacts
    <3> QED
      BY <1>1, <2>2, <3>1 DEF Shuffled, First
  <2> QED
    BY <2>1, <2>2
<1>6. \A m \in Last : \E k \in Last : items'[k] = items[m]
  <2>1. CASE calls = <<>> /\ high = Size - 1
    <3>1. Last = low .. high
      BY <2>1 DEF Last, Rightmost
    <3> QED
      BY <1>1, <3>1 DEF Shuffled
  <2>2. CASE \A k \in Last : k \in Places /\ k \notin low .. high
    BY <1>1, <2>2 DEF Shuffled
  <2>3. CASE calls = <<>> /\ high # Size - 1
    <3>1. Last = {Size - 1}
      BY <2>3 DEF Last, Rightmost
    <3>2. Size - 1 \in Places /\ Size - 1 \notin low .. high
      BY <1>2, <2>3, PlaceFacts
    <3> QED
      BY <2>2, <3>1, <3>2
  <2>4. CASE calls # <<>>
    <3>1. /\ Len(calls) \in 1 .. Len(calls) /\ calls[Len(calls)] \in Places \X Places
      BY <1>1, <2>4 DEF SortTypeOK
    <3>2. high < Rightmost[1] /\ Rightmost[1] \in Int /\ Rightmost[1] < Rightmost[2] /\ Rightmost[2] \in Places
      BY <1>1, <2>4, <3>1, PlaceFacts DEF CallsInv, Rightmost
    <3>3. Rightmost[2] \in Int /\ Rightmost[2] <= Size - 1
      BY <3>2, PlaceFacts
    <3>4. \A k \in Last : k \in Int /\ high < k /\ k <= Size - 1
      BY <1>2, <3>2, <3>3 DEF Last
    <3>5. \A k \in Last : k \in Places /\ k \notin low .. high
      BY <1>2, <3>4, PlaceFacts
    <3> QED
      BY <2>2, <3>5
  <2> QED
    BY <2>1, <2>3, <2>4
<1>7. First' = First /\ Last' = Last
  BY <1>1 DEF First, Last, Rightmost
<1>8. SmallestFirst'
  <2> SUFFICES ASSUME NEW r \in Places
               PROVE  \E l \in First : items'[l].Priority <= items'[r].Priority
    BY <1>7 DEF SmallestFirst
  <2>1. PICK m \in Places : items'[r] = items[m]
    BY <1>4
  <2>2. PICK q \in First : items[q].Priority <= items[m].Priority
    BY <1>1 DEF SmallestFirst
  <2>3. PICK l \in First : items'[l] = items[q]
    BY <1>5
  <2> QED
    BY <2>1, <2>2, <2>3
<1>9. GreatestLast'
  <2> SUFFICES ASSUME NEW l \in Places
               PROVE  \E r \in Last : items'[l].Priority <= items'[r].Priority
    BY <1>7 DEF GreatestLast
  <2>1. PICK m \in Places : items'[l] = items[m]
    BY <1>4
  <2>2. PICK q \in Last : items[m].Priority <= items[q].Priority
    BY <1>1 DEF GreatestLast
  <2>3. PICK r \in Last : items'[r] = items[q]
    BY <1>6
  <2> QED
    BY <2>1, <2>2, <2>3
<1> QED
  BY <1>3, <1>8, <1>9

LEMMA TurnInv ==
    ASSUME SortInv, Turn
    PROVE  SortInv'
<1>1. SortTypeOK /\ Segment /\ Sentinels /\ SmallestLeft /\ GreatestRight /\ CallsInv
  BY DEF SortInv
<1>2. SortTypeOK' /\ Segment' /\ CallsInv' = CallsInv
  BY <1>1, TurnSegment
<1>3. CallsInv'
  BY <1>1, <1>2
<1> QED
  BY <1>1, <1>2, <1>3, TurnLoop, TurnExtremes DEF SortInv

--------------------------------------------------------------------------------
(* The end of a loop, and the next call *)

ToLeft  == High > low
ToRight == Low < high

(* What is called next and what is left to call, in each of the four cases.    *)
BothParts ==
    /\ ToLeft /\ ToRight /\ low' = low /\ high' = High
    /\ Len(calls') = Len(calls) + 1 /\ calls'[1] = <<Low, high>>
    /\ \A k \in 1 .. Len(calls) : calls'[k + 1] = calls[k]
LeftPart  == ToLeft /\ ~ToRight /\ low' = low /\ high' = High /\ calls' = calls
RightPart == ~ToLeft /\ ToRight /\ low' = Low /\ high' = high /\ calls' = calls
NoPart ==
    /\ ~ToLeft /\ ~ToRight /\ calls # <<>> /\ low' = calls[1][1] /\ high' = calls[1][2]
    /\ Len(calls') = Len(calls) - 1
    /\ \A k \in 1 .. Len(calls) - 1 : calls'[k] = calls[k + 1]

(* Sequences that begin with one or two calls *)
LEMMA OneFirst ==
    ASSUME NEW C, NEW a \in C, NEW s \in Seq(C)
    PROVE  /\ <<a>> \o s \in Seq(C) /\ <<a>> \o s # <<>> /\ Head(<<a>> \o s) = a /\ Tail(<<a>> \o s) = s
           /\ Len(<<a>> \o s) = Len(s) + 1 /\ (<<a>> \o s)[1] = a
           /\ \A k \in 1 .. Len(s) : (<<a>> \o s)[k + 1] = s[k]
<1> DEFINE o == <<a>>
           q == o \o s
<1>1. o \in Seq(C) /\ Len(o) = 1 /\ o[1] = a /\ Len(s) \in Nat
  OBVIOUS
<1> HIDE DEF o
<1>2. /\ q \in Seq(C) /\ Len(q) = Len(o) + Len(s)
      /\ \A k \in 1 .. Len(o) + Len(s) : q[k] = IF k <= Len(o) THEN o[k] ELSE s[k - Len(o)]
  BY <1>1, ConcatProperties
<1> HIDE DEF q
<1>3. q \in Seq(C) /\ Len(q) = Len(s) + 1 /\ q[1] = a
  BY <1>1, <1>2
<1>4. ASSUME NEW k \in 1 .. Len(s)
      PROVE  q[k + 1] = s[k]
  <2>1. k + 1 \in 1 .. Len(o) + Len(s) /\ ~(k + 1 <= Len(o)) /\ (k + 1) - Len(o) = k
    BY <1>1
  <2> QED
    BY <1>2, <2>1
<1>5. q # <<>> /\ Head(q) = a
  BY <1>3
<1>6. /\ Tail(q) \in Seq(C) /\ Len(Tail(q)) = Len(s)
      /\ \A k \in 1 .. Len(s) : Tail(q)[k] = q[k + 1]
  BY <1>1, <1>3, <1>5
<1>7. Tail(q) = s
  <2> DEFINE t == Tail(q)
  <2>1. t \in Seq(C) /\ Len(t) = Len(s) /\ \A k \in 1 .. Len(t) : t[k] = s[k]
    BY <1>4, <1>6
  <2> HIDE DEF t
  <2>2. t = s
    BY <2>1, SeqEqual
  <2> QED
    BY <2>2 DEF t
<1> QED
  BY <1>3, <1>4, <1>5, <1>7 DEF q, o

LEMMA TwoFirst ==
    ASSUME NEW C, NEW a \in C, NEW b \in C, NEW s \in Seq(C)
    PROVE  /\ (<<a>> \o <<b>>) \o s # <<>>
           /\ Head((<<a>> \o <<b>>) \o s) = a
           /\ Tail((<<a>> \o <<b>>) \o s) = <<b>> \o s
<1>1. (<<a>> \o <<b>>) \o s = <<a>> \o (<<b>> \o s)
  <2>1. <<a>> \in Seq(C) /\ <<b>> \in Seq(C)
    OBVIOUS
  <2> QED
    BY <2>1, ConcatAssociative
<1>2. <<b>> \o s \in Seq(C)
  BY OneFirst
<1> QED
  BY <1>1, <1>2, OneFirst

LEMMA RecursionOne ==
    ASSUME SortTypeOK
    PROVE  /\ High > low /\ ~(Low < high) => Recursion = <<<<low, High>>>>
           /\ ~(High > low) /\ Low < high => Recursion = <<<<Low, high>>>>
           /\ ~(High > low) /\ ~(Low < high) => Recursion \o calls = calls
<1> DEFINE C == {<<low, High>>, <<Low, high>>}
<1>1. <<<<low, High>>>> \in Seq(C) /\ <<<<Low, high>>>> \in Seq(C)
  OBVIOUS
<1>2. calls \in Seq(Places \X Places)
  BY DEF SortTypeOK
<1> HIDE DEF C
<1>3. \A s \in Seq(C) : s \o <<>> = s /\ <<>> \o s = s
  BY ConcatEmptySeq
<1>4. \A s \in Seq(Places \X Places) : s \o <<>> = s /\ <<>> \o s = s
  BY ConcatEmptySeq
<1>5. <<>> \o <<>> = <<>>
  BY <1>2, <1>4, ConcatEmptySeq
<1> QED
  BY <1>1, <1>2, <1>3, <1>4, <1>5 DEF Recursion

LEMMA NextCallIs ==
    ASSUME SortTypeOK, Segment, NextCall
    PROVE  /\ BothParts \/ LeftPart \/ RightPart \/ NoPart
           /\ calls' \in Seq(Places \X Places) /\ low' \in Places /\ high' \in Places
           /\ Low > High /\ UNCHANGED <<items, input>> /\ Low' = low' /\ High' = high'
<1>1. /\ Low > High /\ UNCHANGED <<items, input>> /\ Low' = low' /\ High' = high'
      /\ Recursion \o calls # <<>> /\ calls' = Tail(Recursion \o calls)
      /\ low' = Head(Recursion \o calls)[1] /\ high' = Head(Recursion \o calls)[2]
  BY DEF NextCall
<1>2. calls \in Seq(Places \X Places) /\ low \in Places /\ high \in Places /\ Low \in Int /\ High \in Int
  BY DEF SortTypeOK
<1>3. /\ ToLeft  => <<low, High>> \in Places \X Places
      /\ ToRight => <<Low, high>> \in Places \X Places
  <2>1. ToLeft => High \in Places
    BY <1>2, PlaceFacts DEF ToLeft, Segment
  <2>2. ToRight => Low \in Places
    BY <1>2, PlaceFacts DEF ToRight, Segment
  <2> QED
    BY <1>2, <2>1, <2>2
<1> DEFINE C == Places \X Places
           a == <<low, High>>
           b == <<Low, high>>
           q == Recursion \o calls
<1>4. CASE ToLeft /\ ToRight
  <2>1. Recursion = <<a>> \o <<b>> /\ a \in C /\ b \in C
    BY <1>3, <1>4 DEF Recursion, ToLeft, ToRight
  <2>2. a[1] = low /\ a[2] = High
    OBVIOUS
  <2> HIDE DEF a, b, C
  <2>3. Head(q) = a /\ Tail(q) = <<b>> \o calls
    BY <1>2, <2>1, TwoFirst DEF C
  <2>4. /\ Tail(q) \in Seq(C) /\ Len(Tail(q)) = Len(calls) + 1 /\ Tail(q)[1] = b
        /\ \A k \in 1 .. Len(calls) : Tail(q)[k + 1] = calls[k]
    BY <1>2, <2>1, <2>3, OneFirst DEF C
  <2> QED
    BY <1>1, <1>2, <1>4, <2>1, <2>2, <2>3, <2>4, PlaceFacts DEF BothParts, C, b, a
<1>5. CASE ToLeft /\ ~ToRight
  <2>1. Recursion = <<a>> /\ a \in C /\ a[1] = low /\ a[2] = High
    BY <1>3, <1>5, RecursionOne DEF ToLeft, ToRight
  <2> HIDE DEF a, C
  <2>2. Head(q) = a /\ Tail(q) = calls
    BY <1>2, <2>1, OneFirst DEF C
  <2> QED
    BY <1>1, <1>2, <1>5, <2>1, <2>2 DEF LeftPart, C, a
<1>6. CASE ~ToLeft /\ ToRight
  <2>1. Recursion = <<b>> /\ b \in C /\ b[1] = Low /\ b[2] = high
    BY <1>3, <1>6, RecursionOne DEF ToLeft, ToRight
  <2> HIDE DEF b, C
  <2>2. Head(q) = b /\ Tail(q) = calls
    BY <1>2, <2>1, OneFirst DEF C
  <2> QED
    BY <1>1, <1>2, <1>6, <2>1, <2>2 DEF RightPart, C, b
<1>7. CASE ~ToLeft /\ ~ToRight
  <2>1. q = calls /\ calls # <<>> /\ Len(calls) > 0
    BY <1>1, <1>2, <1>7, RecursionOne DEF ToLeft, ToRight
  <2>2. /\ Head(calls) = calls[1] /\ calls[1] \in Places \X Places /\ Tail(calls) \in Seq(Places \X Places)
        /\ Len(Tail(calls)) = Len(calls) - 1
        /\ \A k \in 1 .. Len(calls) - 1 : Tail(calls)[k] = calls[k + 1]
    BY <1>2, <2>1
  <2>3. calls[1][1] \in Places /\ calls[1][2] \in Places
    BY <2>2
  <2> QED
    BY <1>1, <1>7, <2>1, <2>2, <2>3 DEF NoPart
<1> QED
  BY <1>1, <1>4, <1>5, <1>6, <1>7

(* The loop is over: both indices have moved, and the extremes of the segment  *)
(* are in what is still to be sorted, or in their places.                      *)
LoopOver ==
    /\ low \in Int /\ high \in Int /\ Low \in Int /\ High \in Int
    /\ 0 <= low /\ low < high /\ high <= Size - 1 /\ low < Low /\ High < high /\ High < Low
    /\ \A r \in low .. high : \E q \in {low} \cup (low .. High) : items[q].Priority <= items[r].Priority
    /\ \A q \in low .. high : \E r \in {high} \cup (Low .. high) : items[q].Priority <= items[r].Priority

LEMMA LoopIsOver ==
    ASSUME SortTypeOK, Segment, Sentinels, SmallestLeft, GreatestRight, Low > High
    PROVE  LoopOver
<1>1. /\ low \in Int /\ high \in Int /\ Low \in Int /\ High \in Int
      /\ 0 <= low /\ low < high /\ high <= Size - 1 /\ High < Low /\ ~(Low <= High)
  BY PlaceFacts DEF SortTypeOK, Segment
<1>2. Stops(Part, low, high, Low, High, pivot)
  BY <1>1 DEF Sentinels
<1>3. low < Low /\ High < high
  BY <1>1, <1>2 DEF Stops
<1>4. \A k \in low .. high : Part[k] = items[k].Priority
  BY DEF Part
<1>5. \A r \in low .. high : \E q \in {low} \cup (low .. High) : items[q].Priority <= items[r].Priority
  <2>1. {low} \cup (low .. High) \subseteq low .. high
    BY <1>1, <1>3
  <2>2. LeftLeast(Part, low, high, High)
    BY <1>1 DEF SmallestLeft
  <2> QED
    BY <1>4, <2>1, <2>2 DEF LeftLeast
<1>6. \A q \in low .. high : \E r \in {high} \cup (Low .. high) : items[q].Priority <= items[r].Priority
  <2>1. {high} \cup (Low .. high) \subseteq low .. high
    BY <1>1, <1>3
  <2>2. RightGreatest(Part, low, high, Low)
    BY <1>1 DEF GreatestRight
  <2> QED
    BY <1>4, <2>1, <2>2 DEF RightGreatest
<1> QED
  BY <1>1, <1>3, <1>5, <1>6 DEF LoopOver

(* Comparing is transitive: who has the extreme of a part that has the extreme *)
(* of the array has it too.                                                    *)
LEMMA LeastThrough ==
    ASSUME SortTypeOK, NEW A \in SUBSET Places, NEW B \in SUBSET Places,
           \A r \in Places : \E q \in A : items[q].Priority <= items[r].Priority,
           \A r \in A : \E q \in B : items[q].Priority <= items[r].Priority
    PROVE  \A r \in Places : \E q \in B : items[q].Priority <= items[r].Priority
<1> SUFFICES ASSUME NEW r \in Places PROVE \E q \in B : items[q].Priority <= items[r].Priority
  OBVIOUS
<1>1. PICK m \in A : items[m].Priority <= items[r].Priority
  OBVIOUS
<1>2. PICK q \in B : items[q].Priority <= items[m].Priority
  BY <1>1
<1>3. items[q].Priority \in Int /\ items[m].Priority \in Int /\ items[r].Priority \in Int
  BY PriorityFacts
<1> QED
  BY <1>1, <1>2, <1>3

LEMMA GreatestThrough ==
    ASSUME SortTypeOK, NEW A \in SUBSET Places, NEW B \in SUBSET Places,
           \A r \in Places : \E q \in A : items[r].Priority <= items[q].Priority,
           \A r \in A : \E q \in B : items[r].Priority <= items[q].Priority
    PROVE  \A r \in Places : \E q \in B : items[r].Priority <= items[q].Priority
<1> SUFFICES ASSUME NEW r \in Places PROVE \E q \in B : items[r].Priority <= items[q].Priority
  OBVIOUS
<1>1. PICK m \in A : items[r].Priority <= items[m].Priority
  OBVIOUS
<1>2. PICK q \in B : items[m].Priority <= items[q].Priority
  BY <1>1
<1>3. items[q].Priority \in Int /\ items[m].Priority \in Int /\ items[r].Priority \in Int
  BY PriorityFacts
<1> QED
  BY <1>1, <1>2, <1>3

(* What the loop leaves: the least priority in its left part when it began at   *)
(* the first place, the greatest in its right part when it ended at the last.  *)
LEMMA LeastLeft ==
    ASSUME SortTypeOK, LoopOver, SmallestFirst
    PROVE  /\ low = 0 => \A r \in Places : \E q \in {0} \cup (0 .. High) :
                            items[q].Priority <= items[r].Priority
           /\ low # 0 => \A r \in Places : \E q \in {0} : items[q].Priority <= items[r].Priority
<1>1. ASSUME low = 0
      PROVE  \A r \in Places : \E q \in {0} \cup (0 .. High) : items[q].Priority <= items[r].Priority
  <2> DEFINE A == 0 .. high
             B == {0} \cup (0 .. High)
  <2>1. A \in SUBSET Places /\ B \in SUBSET Places
    BY <1>1, PlaceFacts DEF LoopOver
  <2>2. \A r \in Places : \E q \in A : items[q].Priority <= items[r].Priority
    BY <1>1 DEF SmallestFirst, First
  <2>3. \A r \in A : \E q \in B : items[q].Priority <= items[r].Priority
    BY <1>1 DEF LoopOver
  <2> HIDE DEF A, B
  <2>4. \A r \in Places : \E q \in B : items[q].Priority <= items[r].Priority
    BY <2>1, <2>2, <2>3, LeastThrough
  <2> QED
    BY <2>4 DEF B
<1>2. ASSUME low # 0
      PROVE  \A r \in Places : \E q \in {0} : items[q].Priority <= items[r].Priority
  BY <1>2 DEF SmallestFirst, First
<1> QED
  BY <1>1, <1>2

LEMMA GreatestRightmost ==
    ASSUME SortTypeOK, LoopOver, GreatestLast, calls = <<>>
    PROVE  /\ high = Size - 1 => \A r \in Places : \E q \in {Size - 1} \cup (Low .. Size - 1) :
                                    items[r].Priority <= items[q].Priority
           /\ high # Size - 1 => \A r \in Places : \E q \in {Size - 1} :
                                    items[r].Priority <= items[q].Priority
<1>1. ASSUME high = Size - 1
      PROVE  \A r \in Places : \E q \in {Size - 1} \cup (Low .. Size - 1) :
                items[r].Priority <= items[q].Priority
  <2> DEFINE A == low .. Size - 1
             B == {Size - 1} \cup (Low .. Size - 1)
  <2>1. A \in SUBSET Places /\ B \in SUBSET Places
    BY <1>1, PlaceFacts DEF LoopOver
  <2>2. \A r \in Places : \E q \in A : items[r].Priority <= items[q].Priority
    BY <1>1 DEF GreatestLast, Last, Rightmost
  <2>3. \A r \in A : \E q \in B : items[r].Priority <= items[q].Priority
    BY <1>1 DEF LoopOver
  <2> HIDE DEF A, B
  <2>4. \A r \in Places : \E q \in B : items[r].Priority <= items[q].Priority
    BY <2>1, <2>2, <2>3, GreatestThrough
  <2> QED
    BY <2>4 DEF B
<1>2. ASSUME high # Size - 1
      PROVE  \A r \in Places : \E q \in {Size - 1} : items[r].Priority <= items[q].Priority
  BY <1>2 DEF GreatestLast, Last, Rightmost
<1> QED
  BY <1>1, <1>2

LEMMA NextCallCalls ==
    ASSUME SortTypeOK, Segment, CallsInv, LoopOver, NextCall
    PROVE  CallsInv' /\ low' < high'
<1>1. BothParts \/ LeftPart \/ RightPart \/ NoPart
  BY NextCallIs
<1>2. /\ Len(calls) \in Nat /\ \A k \in 1 .. Len(calls) : calls[k][1] \in Int /\ calls[k][2] \in Int
  BY PlaceFacts DEF SortTypeOK
<1>3. CASE BothParts
  <2>1. /\ Len(calls') = Len(calls) + 1 /\ calls'[1][1] = Low /\ calls'[1][2] = high
        /\ \A k \in 1 .. Len(calls) : calls'[k + 1] = calls[k]
        /\ low' = low /\ high' = High /\ low < High /\ Low < high
    <3>1. calls'[1][1] = Low /\ calls'[1][2] = high
      BY <1>3 DEF BothParts
    <3>2. low < High /\ Low < high
      BY <1>3 DEF BothParts, ToLeft, ToRight, LoopOver
    <3> QED
      BY <1>3, <3>1, <3>2 DEF BothParts
  <2>2. \A k \in 1 .. Len(calls') : k = 1 \/ (k - 1 \in 1 .. Len(calls) /\ calls'[k] = calls[k - 1])
    <3>1. \A k \in 1 .. Len(calls') : k = 1 \/ (k - 1 \in 1 .. Len(calls) /\ (k - 1) + 1 = k)
      BY <1>2, <2>1
    <3> QED
      BY <2>1, <3>1
  <2>3. \A k \in 1 .. Len(calls') : high' < calls'[k][1] /\ calls'[k][1] < calls'[k][2]
    <3>1. low \in Int /\ high \in Int /\ Low \in Int /\ High \in Int /\ High < Low /\ High < high
      BY DEF LoopOver
    <3> SUFFICES ASSUME NEW k \in 1 .. Len(calls')
                 PROVE  high' < calls'[k][1] /\ calls'[k][1] < calls'[k][2]
      OBVIOUS
    <3>2. CASE k = 1
      BY <2>1, <3>1, <3>2
    <3>3. CASE k # 1
      <4>1. k - 1 \in 1 .. Len(calls) /\ calls'[k] = calls[k - 1]
        BY <2>2, <3>3
      <4>2. high < calls[k - 1][1] /\ calls[k - 1][1] < calls[k - 1][2] /\ calls[k - 1][1] \in Int
        BY <1>2, <4>1 DEF CallsInv
      <4> QED
        BY <2>1, <3>1, <4>1, <4>2
    <3> QED
      BY <3>2, <3>3
  <2>4. \A k, m \in 1 .. Len(calls') : k < m => calls'[k][2] < calls'[m][1]
    <3>1. ASSUME NEW k \in 1 .. Len(calls'), NEW m \in 1 .. Len(calls'), k < m
          PROVE  calls'[k][2] < calls'[m][1]
      <4>1. m # 1 /\ m - 1 \in 1 .. Len(calls) /\ calls'[m] = calls[m - 1]
        BY <1>2, <2>1, <2>2, <3>1
      <4>2. CASE k = 1
        BY <2>1, <4>1, <4>2 DEF CallsInv
      <4>3. CASE k # 1
        <5>1. k - 1 \in 1 .. Len(calls) /\ calls'[k] = calls[k - 1] /\ k - 1 < m - 1
          BY <2>2, <3>1, <4>3
        <5> QED
          BY <4>1, <5>1 DEF CallsInv
      <4> QED
        BY <4>2, <4>3
    <3> QED
      BY <3>1
  <2> QED
    BY <2>1, <2>3, <2>4 DEF CallsInv
<1>4. CASE LeftPart
  BY <1>2, <1>4 DEF LeftPart, ToLeft, CallsInv, LoopOver
<1>5. CASE RightPart
  BY <1>5 DEF RightPart, ToRight, CallsInv
<1>6. CASE NoPart
  <2>1. /\ Len(calls') = Len(calls) - 1 /\ low' = calls[1][1] /\ high' = calls[1][2] /\ calls # <<>>
        /\ \A k \in 1 .. Len(calls) - 1 : calls'[k] = calls[k + 1]
    BY <1>6 DEF NoPart
  <2>2. 1 \in 1 .. Len(calls)
    BY <1>2, <2>1 DEF SortTypeOK
  <2>3. \A k \in 1 .. Len(calls') : k + 1 \in 1 .. Len(calls) /\ 1 < k + 1 /\ calls'[k] = calls[k + 1]
    BY <1>2, <2>1
  <2>4. \A k, m \in 1 .. Len(calls') : k < m => k + 1 < m + 1
    OBVIOUS
  <2> QED
    BY <2>1, <2>2, <2>3, <2>4 DEF CallsInv
<1> QED
  BY <1>1, <1>3, <1>4, <1>5, <1>6

LEMMA NextCallFirst ==
    ASSUME SortTypeOK, Segment, CallsInv, LoopOver, SmallestFirst, NextCall
    PROVE  SmallestFirst'
<1>1. (BothParts \/ LeftPart \/ RightPart \/ NoPart) /\ items' = items
  BY NextCallIs
<1>2. /\ low = 0 => \A r \in Places : \E q \in {0} \cup (0 .. High) : items[q].Priority <= items[r].Priority
      /\ low # 0 => \A r \in Places : \E q \in {0} : items[q].Priority <= items[r].Priority
  BY LeastLeft
<1>3. low \in Int /\ High \in Int /\ Low \in Int /\ high \in Int /\ 0 <= low /\ low < Low /\ low < high
  BY DEF LoopOver
<1>4. CASE ToLeft
  <2>1. low' = low /\ high' = High /\ low < High
    BY <1>1, <1>3, <1>4 DEF BothParts, LeftPart, RightPart, NoPart, ToLeft
  <2>2. low = 0 => {0} \cup (0 .. High) = 0 .. High
    BY <1>3, <2>1
  <2> QED
    BY <1>1, <1>2, <2>1, <2>2 DEF SmallestFirst, First
<1>5. CASE ~ToLeft
  <2>1. low = 0 => {0} \cup (0 .. High) = {0}
    BY <1>3, <1>5 DEF ToLeft
  <2>2. low' # 0
    <3>1. CASE RightPart
      BY <1>3, <3>1 DEF RightPart
    <3>2. CASE NoPart
      <4>1. 1 \in 1 .. Len(calls) /\ calls[1] \in Places \X Places /\ low' = calls[1][1]
        BY <3>2 DEF NoPart, SortTypeOK
      <4>2. high < calls[1][1] /\ calls[1][1] \in Int
        BY <4>1, PlaceFacts DEF CallsInv
      <4> QED
        BY <1>3, <4>1, <4>2
    <3> QED
      BY <1>1, <1>5, <3>1, <3>2 DEF BothParts, LeftPart
  <2>3. \A r \in Places : \E q \in {0} : items[q].Priority <= items[r].Priority
    BY <1>2, <2>1
  <2> QED
    BY <1>1, <2>2, <2>3 DEF SmallestFirst, First
<1> QED
  BY <1>4, <1>5

LEMMA NextCallLast ==
    ASSUME SortTypeOK, Segment, CallsInv, LoopOver, GreatestLast, NextCall
    PROVE  GreatestLast'
<1>1. /\ BothParts \/ LeftPart \/ RightPart \/ NoPart
      /\ items' = items /\ calls' \in Seq(Places \X Places)
  BY NextCallIs
<1>2. low \in Int /\ High \in Int /\ Low \in Int /\ high \in Int /\ High < high /\ high <= Size - 1
      /\ Len(calls) \in Nat /\ Size \in Nat
  BY PlaceFacts DEF LoopOver, SortTypeOK
<1>3. Rightmost' = Rightmost => GreatestLast'
  BY <1>1 DEF GreatestLast, Last
<1>4. CASE calls # <<>>
  <2>1. CASE BothParts
    <3>1. /\ Len(calls') = Len(calls) + 1 /\ Len(calls) \in 1 .. Len(calls)
          /\ calls'[Len(calls) + 1] = calls[Len(calls)]
      BY <1>2, <1>4, <2>1 DEF BothParts, SortTypeOK
    <3>2. calls' # <<>>
      BY <1>2, <3>1, <1>1
    <3>3. Rightmost' = Rightmost
      BY <1>4, <3>1, <3>2 DEF Rightmost
    <3> QED
      BY <1>3, <3>3
  <2>2. CASE LeftPart \/ RightPart
    <3>1. calls' = calls
      BY <2>2 DEF LeftPart, RightPart
    <3>2. Rightmost' = Rightmost
      BY <1>4, <3>1 DEF Rightmost
    <3> QED
      BY <1>3, <3>2
  <2>3. CASE NoPart
    <3>1. /\ Len(calls') = Len(calls) - 1 /\ low' = calls[1][1] /\ high' = calls[1][2]
          /\ \A k \in 1 .. Len(calls) - 1 : calls'[k] = calls[k + 1]
          /\ Len(calls) > 0 /\ calls[1] = <<calls[1][1], calls[1][2]>>
      BY <1>2, <1>4, <2>3 DEF NoPart, SortTypeOK
    <3>2. CASE Len(calls) = 1
      <4>1. calls' = <<>>
        BY <1>1, <3>1, <3>2
      <4>2. Rightmost' = <<low', high'>> /\ Rightmost = calls[1]
        BY <1>4, <3>2, <4>1 DEF Rightmost
      <4> QED
        BY <1>3, <3>1, <4>2
    <3>3. CASE Len(calls) # 1
      <4>1. /\ Len(calls) - 1 \in 1 .. Len(calls) - 1 /\ (Len(calls) - 1) + 1 = Len(calls)
        BY <1>2, <3>1, <3>3
      <4>2. calls'[Len(calls')] = calls[Len(calls)] /\ calls' # <<>>
        <5>1. calls'[Len(calls) - 1] = calls[(Len(calls) - 1) + 1]
          BY <3>1, <4>1
        <5>2. Len(calls') > 0
          BY <1>2, <3>1, <3>3
        <5> QED
          BY <1>1, <3>1, <4>1, <5>1, <5>2
      <4>3. Rightmost' = Rightmost
        BY <1>4, <4>2 DEF Rightmost
      <4> QED
        BY <1>3, <4>3
    <3> QED
      BY <3>2, <3>3
  <2> QED
    BY <1>1, <2>1, <2>2, <2>3
<1>5. CASE calls = <<>>
  <2>1. /\ high = Size - 1 => \A r \in Places : \E q \in {Size - 1} \cup (Low .. Size - 1) :
                                 items[r].Priority <= items[q].Priority
        /\ high # Size - 1 => \A r \in Places : \E q \in {Size - 1} : items[r].Priority <= items[q].Priority
    BY <1>5, GreatestRightmost
  <2>2. Len(calls) = 0 /\ ~NoPart
    BY <1>5 DEF NoPart
  <2>3. CASE ToRight
    <3>1. Rightmost'[1] = Low /\ Rightmost'[2] = high
      <4>1. CASE BothParts
        <5>1. Len(calls') = 1 /\ calls'[1] = <<Low, high>>
          BY <2>2, <4>1 DEF BothParts
        <5>2. calls' # <<>>
          <6>1. Len(calls') = 1
            BY <5>1
          <6> QED
            BY <6>1
        <5>3. calls'[Len(calls')] = <<Low, high>>
          BY <5>1
        <5> QED
          BY <5>2, <5>3 DEF Rightmost
      <4>2. CASE RightPart
        BY <1>5, <4>2 DEF RightPart, Rightmost
      <4> QED
        BY <1>1, <2>2, <2>3, <4>1, <4>2 DEF LeftPart
    <3>2. high = Size - 1 => {Size - 1} \cup (Low .. Size - 1) = Low .. Size - 1
      BY <1>2, <2>3 DEF ToRight
    <3>3. Last' = IF high = Size - 1 THEN Low .. Size - 1 ELSE {Size - 1}
      BY <3>1 DEF Last
    <3> QED
      BY <1>1, <2>1, <3>2, <3>3 DEF GreatestLast
  <2>4. CASE ~ToRight
    <3>1. LeftPart
      BY <1>1, <2>2, <2>4 DEF BothParts, RightPart
    <3>2. Rightmost' = <<low, High>>
      BY <1>5, <3>1 DEF LeftPart, Rightmost
    <3>3. High # Size - 1
      BY <1>2
    <3>4. Last' = {Size - 1}
      BY <3>2, <3>3 DEF Last
    <3>5. high = Size - 1 => {Size - 1} \cup (Low .. Size - 1) = {Size - 1}
      BY <1>2, <2>4 DEF ToRight
    <3> QED
      BY <1>1, <2>1, <3>4, <3>5 DEF GreatestLast
  <2> QED
    BY <2>3, <2>4
<1> QED
  BY <1>4, <1>5

LEMMA NextCallInv ==
    ASSUME SortInv, NextCall
    PROVE  SortInv'
<1>1. /\ SortTypeOK /\ Segment /\ Sentinels /\ CallsInv /\ SmallestLeft /\ GreatestRight
      /\ SmallestFirst /\ GreatestLast /\ SameFeeds
  BY DEF SortInv
<1>2. /\ calls' \in Seq(Places \X Places) /\ low' \in Places /\ high' \in Places
      /\ Low > High /\ UNCHANGED <<items, input>> /\ Low' = low' /\ High' = high'
  BY <1>1, NextCallIs
<1>3. LoopOver
  BY <1>1, <1>2, LoopIsOver
<1>4. CallsInv' /\ low' < high' /\ SmallestFirst' /\ GreatestLast'
  BY <1>1, <1>3, NextCallCalls, NextCallFirst, NextCallLast
<1>5. low' \in Int /\ high' \in Int
  BY <1>2, PlaceFacts
<1>6. SortTypeOK' /\ Segment' /\ SameFeeds'
  <2>1. SortTypeOK'
    BY <1>1, <1>2, <1>5 DEF SortTypeOK
  <2>2. Segment'
    BY <1>2, <1>4, <1>5 DEF Segment
  <2>3. SameFeeds'
    BY <1>1, <1>2 DEF SameFeeds
  <2> QED
    BY <2>1, <2>2, <2>3
<1>7. Sentinels'
  BY <1>2 DEF Sentinels
<1>8. SmallestLeft' /\ GreatestRight'
  <2>1. Low' <= High' /\ High' + 1 .. high' = {} /\ low' .. Low' - 1 = {}
    <3>1. Low' = low' /\ High' = high' /\ low' < high'
      BY <1>2, <1>4
    <3>2. \A m, n \in Int : m < n => m <= n /\ n + 1 .. n = {} /\ m .. m - 1 = {}
      OBVIOUS
    <3> QED
      BY <1>5, <3>1, <3>2
  <2> QED
    BY <2>1 DEF SmallestLeft, GreatestRight, LeftBelow, RightAbove
<1> QED
  BY <1>4, <1>6, <1>7, <1>8 DEF SortInv

LEMMA SortBegins ==
    ASSUME SortInit
    PROVE  SortInv
<1>1. PICK p \in [Places -> Priorities] :
          items = [i \in Places |-> [Index |-> i, Priority |-> p[i]]]
  BY DEF SortInit
<1>2. /\ input = items /\ low = 0 /\ high = Size - 1 /\ Low = 0 /\ High = Size - 1 /\ calls = <<>>
  BY DEF SortInit
<1>3. Size \in Nat /\ Size > 1 /\ Places = 0 .. Size - 1
  BY SizeAssumption DEF Places
<1>4. items \in [Places -> Feeds]
  BY <1>1 DEF Feeds
<1>5. SortTypeOK /\ Segment /\ Sentinels /\ CallsInv /\ SameFeeds
  <2>1. SortTypeOK
    BY <1>2, <1>3, <1>4 DEF SortTypeOK
  <2>2. Len(calls) = 0 /\ 1 .. Len(calls) = {}
    BY <1>2
  <2> QED
    BY <1>2, <1>3, <2>1, <2>2 DEF Segment, Sentinels, CallsInv, SameFeeds
<1>6. SmallestLeft /\ GreatestRight
  <2>1. Low <= High /\ High + 1 .. high = {} /\ low .. Low - 1 = {}
    BY <1>2, <1>3
  <2> QED
    BY <2>1 DEF SmallestLeft, GreatestRight, LeftBelow, RightAbove
<1>7. \A i \in Places : items[i].Priority <= items[i].Priority
  BY <1>5, PriorityFacts
<1>8. SmallestFirst /\ GreatestLast
  <2>1. First = Places /\ Last = Places
    BY <1>2, <1>3 DEF First, Last, Rightmost
  <2> QED
    BY <1>7, <2>1 DEF SmallestFirst, GreatestLast
<1> QED
  BY <1>5, <1>6, <1>8 DEF SortInv

LEMMA SortStands ==
    ASSUME SortInv, UNCHANGED sortVars
    PROVE  SortInv'
<1>1. /\ items' = items /\ low' = low /\ high' = high /\ Low' = Low /\ High' = High
      /\ calls' = calls /\ input' = input
  BY DEF sortVars
<1>2. (SortTypeOK /\ Segment /\ CallsInv /\ SameFeeds)'
  BY <1>1 DEF SortInv, SortTypeOK, Segment, CallsInv, SameFeeds
<1>3. Part' = Part /\ pivot' = pivot /\ First' = First /\ Last' = Last
  BY <1>1 DEF Part, pivot, First, Last, Rightmost
<1>4. (Sentinels /\ SmallestLeft /\ GreatestRight)'
  BY <1>1, <1>3 DEF SortInv, Sentinels, SmallestLeft, GreatestRight
<1>5. (SmallestFirst /\ GreatestLast)'
  BY <1>1, <1>3 DEF SortInv, SmallestFirst, GreatestLast
<1> QED
  BY <1>2, <1>4, <1>5 DEF SortInv

(* The sort is over when the current call and those to come make no other.      *)
LEMMA EndOfCalls ==
    ASSUME SortTypeOK, Segment, Finished
    PROVE  calls = <<>> /\ ~ToLeft /\ ~ToRight /\ Low > High
<1>1. Low > High /\ Recursion \o calls = <<>>
  BY DEF Finished
<1>2. calls \in Seq(Places \X Places) /\ low \in Places /\ high \in Places /\ Low \in Int /\ High \in Int
  BY DEF SortTypeOK
<1>3. /\ ToLeft  => <<low, High>> \in Places \X Places
      /\ ToRight => <<Low, high>> \in Places \X Places
  <2>1. ToLeft => High \in Places
    BY <1>2, PlaceFacts DEF ToLeft, Segment
  <2>2. ToRight => Low \in Places
    BY <1>2, PlaceFacts DEF ToRight, Segment
  <2> QED
    BY <1>2, <2>1, <2>2
<1> DEFINE C == Places \X Places
           a == <<low, High>>
           b == <<Low, high>>
<1>4. ~(ToLeft /\ ToRight)
  <2>1. ToLeft /\ ToRight => Recursion = <<a>> \o <<b>> /\ a \in C /\ b \in C
    BY <1>3 DEF Recursion, ToLeft, ToRight
  <2> HIDE DEF a, b
  <2> QED
    BY <1>1, <1>2, <2>1, TwoFirst
<1>5. ~(ToLeft /\ ~ToRight)
  <2>1. ToLeft /\ ~ToRight => Recursion = <<a>> /\ a \in C
    BY <1>3, RecursionOne DEF ToLeft, ToRight
  <2> HIDE DEF a
  <2> QED
    BY <1>1, <1>2, <2>1, OneFirst
<1>6. ~(~ToLeft /\ ToRight)
  <2>1. ~ToLeft /\ ToRight => Recursion = <<b>> /\ b \in C
    BY <1>3, RecursionOne DEF ToLeft, ToRight
  <2> HIDE DEF b
  <2> QED
    BY <1>1, <1>2, <2>1, OneFirst
<1>7. ~ToLeft /\ ~ToRight => Recursion \o calls = calls
  BY RecursionOne DEF ToLeft, ToRight
<1> QED
  BY <1>1, <1>4, <1>5, <1>6, <1>7

(* The invariant of the sort: ThreadPool::QuickSortAscending keeps the extremes *)
(* of the array in the segments that it has still to sort, or in their places. *)
THEOREM SortInvHolds == SortSpec => []SortInv
<1>1. SortInit => SortInv
  BY SortBegins
<1>2. SortInv /\ [SortNext]_sortVars => SortInv'
  BY TurnInv, NextCallInv, SortStands DEF SortNext
<1> QED
  BY <1>1, <1>2, PTL DEF SortSpec

(* The inner loops of QuickSortAscending stop inside the segment of their call  *)
(* whatever becomes of the pivot, which is a reference into the array.         *)
THEOREM ScansStayInsideHolds == SortSpec => []ScansStayInside
<1>1. SortInv => ScansStayInside
  <2> SUFFICES ASSUME SortInv PROVE ScansStayInside
    OBVIOUS
  <2>1. SortTypeOK /\ Segment /\ Sentinels
    BY DEF SortInv
  <2>2. ASSUME Low <= High
        PROVE  StopsUp # {} /\ FirstUp <= high /\ StopsDown # {} /\ LastDown >= low
    BY <2>1, <2>2, Scans DEF ScanFacts
  <2> QED
    BY <2>1, <2>2 DEF ScansStayInside
<1> QED
  BY <1>1, SortInvHolds, PTL

(* When QuickSortAscending returns, the feed that PopFeed takes first has the   *)
(* highest priority of all and the one it takes last the lowest, and no feed   *)
(* has been lost or doubled.                                                   *)
THEOREM EndsInPlaceHolds == SortSpec => []EndsInPlace
<1>1. SortInv => EndsInPlace
  <2> SUFFICES ASSUME SortInv, Finished
               PROVE  SameFeeds /\ \A i \in Places : /\ items[0].Priority <= items[i].Priority
                                                     /\ items[i].Priority <= items[Size - 1].Priority
    BY DEF EndsInPlace
  <2>1. /\ SortTypeOK /\ Segment /\ Sentinels /\ SmallestLeft /\ GreatestRight
        /\ SmallestFirst /\ GreatestLast /\ SameFeeds
    BY DEF SortInv
  <2>2. calls = <<>> /\ ~ToLeft /\ ~ToRight /\ Low > High
    BY <2>1, EndOfCalls
  <2>3. LoopOver
    BY <2>1, <2>2, LoopIsOver
  <2>4. low \in Int /\ high \in Int /\ Low \in Int /\ High \in Int /\ Size \in Nat /\ High <= low /\ Low >= high
    BY <2>2, <2>3, SizeAssumption DEF LoopOver, ToLeft, ToRight
  <2>5. \A r \in Places : \E q \in {0} : items[q].Priority <= items[r].Priority
    <3>1. low = 0 => {0} \cup (0 .. High) = {0}
      BY <2>4
    <3> QED
      BY <2>1, <2>3, <3>1, LeastLeft
  <2>6. \A r \in Places : \E q \in {Size - 1} : items[r].Priority <= items[q].Priority
    <3>1. high = Size - 1 => {Size - 1} \cup (Low .. Size - 1) = {Size - 1}
      BY <2>4
    <3> QED
      BY <2>1, <2>2, <2>3, <3>1, GreatestRightmost
  <2> QED
    BY <2>1, <2>5, <2>6
<1> QED
  BY <1>1, SortInvHolds, PTL
================================================================================
