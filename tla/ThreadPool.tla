------------------------------ MODULE ThreadPool ------------------------------
(* ThreadPool<Feed, Result>, its worker threads, and the one thread that owns  *)
(* the pool: it pushes feeds, runs the pool, waits, pops results and destroys. *)
(*                                                                             *)
(* A critical section of mStackMutex is one step.  The order of the queue does *)
(* not matter here (PoolSort is about it), so it is a set, and so is the list  *)
(* of results.  Signals are the auto-reset events of AutoResetEvent.           *)
EXTENDS Integers, FiniteSets

CONSTANTS
    Jobs,        \* bound: feeds, each pushed at most once
    N,           \* bound: worker threads of the pool
    NoJob,       \* a worker without a feed
    MaxRuns      \* bound: calls of Run

ASSUME WorkerAssumption == N \in Nat \ {0}
ASSUME JobAssumption == NoJob \notin Jobs /\ IsFiniteSet(Jobs)
ASSUME RunAssumption == MaxRuns \in Nat

Workers == 1 .. N

VARIABLES
    mQueue,      \* feeds waiting for a worker
    mResults,    \* results not popped yet, by feed
    mIndex,      \* how many feeds were pushed
    mPermanent,  \* the volatile flag the destructor clears
    mSignal,     \* the signal of each worker
    mIsRunning,  \* Thread::mIsRunning of each worker
    wpc,         \* where each worker is in WorkerThread::Run
    job,         \* the feed each worker has popped
    client,      \* where the owner is
    next,        \* the owner's index in its loop over mThreads
    sync,        \* is the owner in Run(async = false)?
    mode,        \* is the owner filling the pool, running it, or has it waited?
    created,     \* Run calls so far; mThreads is empty before the first
    permanent,   \* the permanent argument of the constructor
    ticking,     \* was the pool built with a tick duration?
    pushed,      \* history: every feed ever pushed
    popped,      \* history: every result ever popped
    cancelled    \* history: every feed ever cancelled

queue   == <<mQueue, mResults, mIndex>>
worker  == <<wpc, job>>
flags   == <<mPermanent, mSignal, mIsRunning>>
build   == <<permanent, ticking>>
owner   == <<client, next, sync, mode, created, build>>
history == <<pushed, popped, cancelled>>
vars    == <<queue, worker, flags, owner, history>>

Init ==
    /\ mQueue = {} /\ mResults = {} /\ mIndex = 0
    /\ permanent \in BOOLEAN /\ ticking \in BOOLEAN
    /\ mPermanent = permanent
    /\ mSignal = [w \in Workers |-> FALSE]
    /\ mIsRunning = [w \in Workers |-> FALSE]
    /\ wpc = [w \in Workers |-> "unborn"]
    /\ job = [w \in Workers |-> NoJob]
    /\ client = "idle" /\ next = 1 /\ sync = FALSE /\ mode = "filling" /\ created = 0
    /\ pushed = {} /\ popped = {} /\ cancelled = {}

--------------------------------------------------------------------------------
(* WorkerThread::Run *)

(* while(IsRunning()): the first turn does not wait for the signal. *)
TestRunning(w) ==
    /\ wpc[w] \in {"first", "again"}
    /\ \/ /\ mIsRunning[w]
          /\ wpc' = [wpc EXCEPT ![w] = IF @ = "first" THEN "popping" ELSE "waiting"]
       \/ /\ ~mIsRunning[w]
          /\ wpc' = [wpc EXCEPT ![w] = "ending"]
    /\ UNCHANGED <<queue, job, flags, owner, history>>

WaitSignal(w) ==
    /\ wpc[w] = "waiting"
    /\ mSignal[w]
    /\ mSignal' = [mSignal EXCEPT ![w] = FALSE]
    /\ wpc' = [wpc EXCEPT ![w] = "popping"]
    /\ UNCHANGED <<queue, job, mPermanent, mIsRunning, owner, history>>

(* Mutant: the feed is copied but stays in the queue. *)
PopFeedPeeks(w) ==
    /\ wpc[w] = "popping"
    /\ \E j \in mQueue : job' = [job EXCEPT ![w] = j]
    /\ wpc' = [wpc EXCEPT ![w] = "working"]
    /\ UNCHANGED <<queue, flags, owner, history>>

PopFeed(w) ==
    /\ wpc[w] = "popping"
    /\ \E j \in mQueue :
         /\ mQueue' = mQueue \ {j}
         /\ job' = [job EXCEPT ![w] = j]
    /\ wpc' = [wpc EXCEPT ![w] = "working"]
    /\ UNCHANGED <<mResults, mIndex, flags, owner, history>>

(* PopFeed found the queue empty: a permanent worker goes round again. *)
QueueDrained(w) ==
    /\ wpc[w] = "popping"
    /\ mQueue = {}
    /\ wpc' = [wpc EXCEPT ![w] = IF mPermanent THEN "again" ELSE "ending"]
    /\ UNCHANGED <<queue, job, flags, owner, history>>

(* ThreadPoolRunJob returns, and PushResult. *)
PushResult(w) ==
    /\ wpc[w] = "working"
    /\ mResults' = mResults \cup {job[w]}
    /\ wpc' = [wpc EXCEPT ![w] = "reporting"]
    /\ UNCHANGED <<mQueue, mIndex, job, flags, owner, history>>

(* ThreadPoolJobCompleted, a callback into the owner. *)
JobCompleted(w) ==
    /\ wpc[w] = "reporting"
    /\ job' = [job EXCEPT ![w] = NoJob]
    /\ wpc' = [wpc EXCEPT ![w] = "popping"]
    /\ UNCHANGED <<queue, flags, owner, history>>

(* The end of Thread::StartThread. *)
EndThread(w) ==
    /\ wpc[w] = "ending"
    /\ mIsRunning' = [mIsRunning EXCEPT ![w] = FALSE]
    /\ wpc' = [wpc EXCEPT ![w] = "ended"]
    /\ UNCHANGED <<queue, job, mPermanent, mSignal, owner, history>>

WorkerStep(w) ==
    \/ TestRunning(w) \/ WaitSignal(w) \/ PopFeed(w) \/ QueueDrained(w)
    \/ PushResult(w) \/ JobCompleted(w) \/ EndThread(w)

--------------------------------------------------------------------------------
(* The owner *)

(* Mutant: the workers of a permanent pool are not signalled. *)
PushFeedSilent(j) ==
    /\ client = "idle"
    /\ j \notin pushed
    /\ ~permanent => mode # "running"
    /\ mode' = IF permanent THEN mode ELSE "filling"
    /\ mQueue' = mQueue \cup {j}
    /\ mIndex' = mIndex + 1
    /\ pushed' = pushed \cup {j}
    /\ next' = 1
    /\ UNCHANGED <<mResults, worker, flags, client, sync, created, popped, cancelled, build>>

(* PushFeed, then one Fire per thread of a permanent pool. Every owner of a    *)
(* one-shot pool in the program pushes its feeds before it calls Run.          *)
PushFeed(j) ==
    /\ client = "idle"
    /\ j \notin pushed
    /\ ~permanent => mode # "running"
    /\ mode' = IF permanent THEN mode ELSE "filling"
    /\ mQueue' = mQueue \cup {j}
    /\ mIndex' = mIndex + 1
    /\ pushed' = pushed \cup {j}
    /\ client' = IF mPermanent /\ created > 0 THEN "firing" ELSE "idle"
    /\ next' = 1
    /\ UNCHANGED <<mResults, worker, flags, sync, created, popped, cancelled, build>>

(* Mutant: the last worker is not signalled. *)
FireNextButLast ==
    /\ client = "firing"
    /\ mSignal' = [mSignal EXCEPT ![next] = TRUE]
    /\ next' = next + 1
    /\ client' = IF next >= N - 1 THEN "idle" ELSE "firing"
    /\ UNCHANGED <<queue, worker, mPermanent, mIsRunning, sync, mode, created, history, build>>

FireNext ==
    /\ client = "firing"
    /\ mSignal' = [mSignal EXCEPT ![next] = TRUE]
    /\ next' = next + 1
    /\ client' = IF next = N THEN "idle" ELSE "firing"
    /\ UNCHANGED <<queue, worker, mPermanent, mIsRunning, sync, mode, created, history, build>>

(* Run deletes the threads of the previous run, which have ended. Only a       *)
(* one-shot pool is run synchronously.                                         *)
Run(s) ==
    /\ client = "idle"
    /\ created < MaxRuns
    /\ \A w \in Workers : wpc[w] \in {"unborn", "ended"}
    /\ s => ~permanent
    /\ created' = created + 1
    /\ sync' = s /\ mode' = "running"
    /\ client' = "starting" /\ next' = 1
    /\ wpc' = [w \in Workers |-> "unborn"]
    /\ UNCHANGED <<queue, job, flags, history, build>>

(* A new WorkerThread, and Thread::Start. *)
StartNext ==
    /\ client = "starting"
    /\ wpc' = [wpc EXCEPT ![next] = "first"]
    /\ mSignal' = [mSignal EXCEPT ![next] = FALSE]
    /\ mIsRunning' = [mIsRunning EXCEPT ![next] = TRUE]
    /\ next' = IF next = N THEN 1 ELSE next + 1
    /\ client' = IF next < N THEN "starting"
                 ELSE IF ~sync THEN "idle"
                 ELSE IF ticking THEN "ticking" ELSE "joining"
    /\ UNCHANGED <<queue, job, mPermanent, sync, mode, created, history, build>>

(* WaitForCompletion, called by an owner that ran the pool asynchronously. *)
WaitForCompletion ==
    /\ client = "idle" /\ mode = "running" /\ ~permanent
    /\ client' = IF ticking THEN "ticking" ELSE "joining"
    /\ next' = 1
    /\ UNCHANGED <<queue, worker, flags, sync, mode, created, history, build>>

(* The polling loop ends when there are as many results as pushed feeds. *)
LastTick ==
    /\ client = "ticking"
    /\ Cardinality(mResults) = mIndex
    /\ client' = "joining"
    /\ UNCHANGED <<queue, worker, flags, next, sync, mode, created, history, build>>

(* mResults.size() is read without mStackMutex: while a worker is inside        *)
(* push_back the polling loop may read any number, and end too soon.           *)
TornTick ==
    /\ client = "ticking"
    /\ \E w \in Workers : wpc[w] = "working"
    /\ client' = "joining"
    /\ UNCHANGED <<queue, worker, flags, next, sync, mode, created, history, build>>

(* Mutant: the thread is not joined. *)
JoinNextSkipped ==
    /\ client = "joining"
    /\ next' = IF next = N THEN 1 ELSE next + 1
    /\ client' = IF next = N THEN "complete" ELSE "joining"
    /\ UNCHANGED <<queue, worker, flags, sync, mode, created, history, build>>

JoinNext ==
    /\ client = "joining"
    /\ wpc[next] = "ended"
    /\ next' = IF next = N THEN 1 ELSE next + 1
    /\ client' = IF next = N THEN "complete" ELSE "joining"
    /\ UNCHANGED <<queue, worker, flags, sync, mode, created, history, build>>

(* WaitForCompletion returns. *)
Completed ==
    /\ client = "complete"
    /\ client' = "idle" /\ mode' = "waited"
    /\ UNCHANGED <<queue, worker, flags, next, sync, created, history, build>>

(* The owners of one-shot pools pop results once they have waited. *)
PopResult ==
    /\ client = "idle"
    /\ ~permanent => mode = "waited"
    /\ \E j \in mResults : mResults' = mResults \ {j} /\ popped' = popped \cup {j}
    /\ UNCHANGED <<mQueue, mIndex, worker, flags, owner, pushed, cancelled>>

CancelPendingJobs ==
    /\ client = "idle"
    /\ mQueue' = {}
    /\ cancelled' = cancelled \cup mQueue
    /\ UNCHANGED <<mResults, mIndex, worker, flags, owner, pushed, popped>>

(* ~ThreadPool: every thread is stopped, signalled and joined in turn. *)
Destroy ==
    /\ client = "idle"
    /\ mPermanent' = FALSE
    /\ client' = IF created = 0 THEN "destroyed" ELSE "stopping"
    /\ next' = 1
    /\ UNCHANGED <<queue, worker, mSignal, mIsRunning, sync, mode, created, history, build>>

(* Mutant: Break does not fire the signal of the worker. *)
StopNextSilent ==
    /\ client = "stopping"
    /\ mIsRunning' = [mIsRunning EXCEPT ![next] = FALSE]
    /\ client' = "reaping"
    /\ UNCHANGED <<queue, worker, mPermanent, mSignal, next, sync, mode, created, history, build>>

(* Thread::Stop up to Break, which fires the signal of the worker. *)
StopNext ==
    /\ client = "stopping"
    /\ mIsRunning' = [mIsRunning EXCEPT ![next] = FALSE]
    /\ mSignal' = [mSignal EXCEPT ![next] = TRUE]
    /\ client' = "reaping"
    /\ UNCHANGED <<queue, worker, mPermanent, next, sync, mode, created, history, build>>

(* Mutant: Stop does not join the thread. *)
ReapNextSkipped ==
    /\ client = "reaping"
    /\ next' = IF next = N THEN 1 ELSE next + 1
    /\ client' = IF next = N THEN "destroyed" ELSE "stopping"
    /\ UNCHANGED <<queue, worker, flags, sync, mode, created, history, build>>

(* The join of Thread::Stop. *)
ReapNext ==
    /\ client = "reaping"
    /\ wpc[next] = "ended"
    /\ next' = IF next = N THEN 1 ELSE next + 1
    /\ client' = IF next = N THEN "destroyed" ELSE "stopping"
    /\ UNCHANGED <<queue, worker, flags, sync, mode, created, history, build>>

(* What the owner does on its own once it has entered a call. *)
OwnerStep ==
    \/ FireNext \/ StartNext \/ LastTick \/ JoinNext \/ Completed \/ StopNext \/ ReapNext

Next ==
    \/ \E w \in Workers : WorkerStep(w)
    \/ OwnerStep
    \/ \E j \in Jobs : PushFeed(j)
    \/ \E s \in BOOLEAN : Run(s)
    \/ WaitForCompletion \/ TornTick \/ PopResult \/ CancelPendingJobs \/ Destroy

Spec == Init /\ [][Next]_vars

(* Jobs end, and every thread that can go on is scheduled. *)
Fairness == WF_vars(OwnerStep) /\ \A w \in Workers : WF_vars(WorkerStep(w))

FairSpec == Spec /\ Fairness

--------------------------------------------------------------------------------
(* The places of all threads, and workers only ever run feeds that were pushed. *)
TypeOK ==
    /\ mQueue \subseteq Jobs /\ mResults \subseteq Jobs
    /\ mIndex \in Nat
    /\ mPermanent \in BOOLEAN
    /\ mSignal \in [Workers -> BOOLEAN]
    /\ mIsRunning \in [Workers -> BOOLEAN]
    /\ wpc \in [Workers -> {"unborn", "first", "again", "waiting", "popping", "working",
                            "reporting", "ending", "ended"}]
    /\ job \in [Workers -> Jobs \cup {NoJob}]
    /\ client \in {"idle", "firing", "starting", "ticking", "joining", "complete",
                   "stopping", "reaping", "destroyed"}
    /\ next \in Workers \cup {N + 1}
    /\ sync \in BOOLEAN /\ permanent \in BOOLEAN /\ ticking \in BOOLEAN
    /\ mode \in {"filling", "running", "waited"}
    /\ created \in Nat
    /\ pushed \subseteq Jobs /\ popped \subseteq Jobs /\ cancelled \subseteq Jobs

(* Feeds that a worker is running. *)
InWork == {job[w] : w \in {x \in Workers : wpc[x] = "working"}}

(* Results no thread and no call has lost: a feed that was pushed is waiting,  *)
(* being run by exactly one worker, cancelled, or has its result.              *)
EachFeedOnce ==
    /\ pushed = mQueue \cup InWork \cup mResults \cup popped \cup cancelled
    /\ \A w, x \in Workers : w # x /\ {wpc[w], wpc[x]} = {"working"} => job[w] # job[x]
    /\ Cardinality(mQueue) + Cardinality(InWork) + Cardinality(mResults)
         + Cardinality(popped) + Cardinality(cancelled) = mIndex

(* When WaitForCompletion returns, every feed that was not cancelled was run   *)
(* and no callback into the owner is under way.                                *)
CompletionIsComplete ==
    client = "complete" =>
        /\ pushed = mResults \cup popped \cup cancelled
        /\ \A w \in Workers : wpc[w] = "ended"

(* Once the destructor has returned no worker touches the pool or its owner.   *)
NoWorkerOutlivesPool ==
    client = "destroyed" => \A w \in Workers : wpc[w] \in {"unborn", "ended"}

(* No signal is lost: a permanent worker never sleeps beside a feed that no    *)
(* one is about to take.                                                       *)
NobodySleepsOnWork ==
    mQueue # {} /\ mPermanent =>
        \A w \in Workers : wpc[w] = "waiting" =>
            \/ mSignal[w]
            \/ client = "firing" /\ next <= w
            \/ \E x \in Workers : wpc[x] \in {"first", "popping", "working", "reporting"}

(* The destructor returns, whatever the workers are doing. *)
DestructorReturns == client \in {"stopping", "reaping"} ~> client = "destroyed"

(* A feed of a pool that runs is taken by a worker, unless it is cancelled or  *)
(* the pool is destroyed first.                                                    *)
FeedIsRun ==
    \A j \in Jobs : j \in mQueue /\ mode = "running" ~> j \notin mQueue \/ client = "destroyed"

================================================================================
