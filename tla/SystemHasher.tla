----------------------------- MODULE SystemHasher -----------------------------
(* SystemHasher: the main thread queues systems, an idle-priority thread       *)
(* hashes the games of each.  The signal is an auto-reset event (see Signal).  *)
EXTENDS Integers, Sequences

CONSTANT
    Systems       \* bound: systems that are pushed, each once

VARIABLES
    mQueue,       \* systems to hash, oldest first
    mSignal,      \* the flag of the signal
    mIsRunning,   \* Thread::mIsRunning
    pc,           \* where the hasher thread is
    system,       \* the system it took from the queue; empty for nullptr
    caller,       \* where the main thread is
    pushed,       \* history: systems in the order they were pushed
    hashed        \* history: systems in the order they were hashed

vars == <<mQueue, mSignal, mIsRunning, pc, system, caller, pushed, hashed>>

Elements(q) == {q[i] : i \in 1 .. Len(q)}

Init ==
    /\ mQueue = <<>> /\ mSignal = FALSE /\ mIsRunning = TRUE
    /\ pc = "testing" /\ system = <<>>
    /\ caller = "idle"
    /\ pushed = <<>> /\ hashed = <<>>

(* Push, under mLocker; the Fire comes after the unlock. *)
Push(s) ==
    /\ caller = "idle"
    /\ s \notin Elements(pushed)
    /\ mQueue' = Append(mQueue, s)
    /\ pushed' = Append(pushed, s)
    /\ caller' = "firing"
    /\ UNCHANGED <<mSignal, mIsRunning, pc, system, hashed>>

Fire ==
    /\ caller = "firing"
    /\ mSignal' = TRUE
    /\ caller' = "idle"
    /\ UNCHANGED <<mQueue, mIsRunning, pc, system, pushed, hashed>>

(* MustQuit, or the destructor: Thread::Stop lowers the flag, Break fires. *)
MustQuit ==
    /\ caller = "idle"
    /\ mIsRunning' = FALSE
    /\ caller' = "breaking"
    /\ UNCHANGED <<mQueue, mSignal, pc, system, pushed, hashed>>

Break ==
    /\ caller = "breaking"
    /\ mSignal' = TRUE
    /\ caller' = "joining"
    /\ UNCHANGED <<mQueue, mIsRunning, pc, system, pushed, hashed>>

Join ==
    /\ caller = "joining"
    /\ pc = "ended"
    /\ caller' = "stopped"
    /\ UNCHANGED <<mQueue, mSignal, mIsRunning, pc, system, pushed, hashed>>

(* while(IsRunning()) *)
TestRunning ==
    /\ pc = "testing"
    /\ pc' = IF mIsRunning THEN "waiting" ELSE "ended"
    /\ UNCHANGED <<mQueue, mSignal, mIsRunning, system, caller, pushed, hashed>>

WaitSignal ==
    /\ pc = "waiting"
    /\ mSignal
    /\ mSignal' = FALSE
    /\ pc' = "dequeuing"
    /\ UNCHANGED <<mQueue, mIsRunning, system, caller, pushed, hashed>>

(* Mutant: the system pushed last is taken first. *)
DequeueLast ==
    /\ pc = "dequeuing"
    /\ \/ /\ mQueue # <<>>
          /\ system' = <<mQueue[Len(mQueue)]>> /\ mQueue' = SubSeq(mQueue, 1, Len(mQueue) - 1)
          /\ pc' = "hashing"
       \/ /\ mQueue = <<>>
          /\ pc' = "testing"
          /\ UNCHANGED <<system, mQueue>>
    /\ UNCHANGED <<mSignal, mIsRunning, caller, pushed, hashed>>

(* One system per signal, if there is one. *)
Dequeue ==
    /\ pc = "dequeuing"
    /\ \/ /\ mQueue # <<>>
          /\ system' = <<Head(mQueue)>> /\ mQueue' = Tail(mQueue)
          /\ pc' = "hashing"
       \/ /\ mQueue = <<>>
          /\ pc' = "testing"
          /\ UNCHANGED <<system, mQueue>>
    /\ UNCHANGED <<mSignal, mIsRunning, caller, pushed, hashed>>

(* CheckMissingHashes skips every game once the thread is asked to stop. *)
CheckMissingHashes ==
    /\ pc = "hashing"
    /\ hashed' = IF mIsRunning THEN hashed \o system ELSE hashed
    /\ system' = <<>>
    /\ pc' = "testing"
    /\ UNCHANGED <<mQueue, mSignal, mIsRunning, caller, pushed>>

CallerStep == Fire \/ Break \/ Join
HasherStep == TestRunning \/ WaitSignal \/ Dequeue \/ CheckMissingHashes

Next == (\E s \in Systems : Push(s)) \/ MustQuit \/ CallerStep \/ HasherStep

Spec == Init /\ [][Next]_vars

--------------------------------------------------------------------------------
(* The places of both threads; a taken system is one that was pushed.           *)
TypeOK ==
    /\ mQueue \in Seq(Systems) /\ pushed \in Seq(Systems) /\ hashed \in Seq(Systems)
    /\ mSignal \in BOOLEAN /\ mIsRunning \in BOOLEAN
    /\ pc \in {"testing", "waiting", "dequeuing", "hashing", "ended"}
    /\ system \in Seq(Systems) /\ Len(system) = (IF pc = "hashing" THEN 1 ELSE 0)
    /\ caller \in {"idle", "firing", "breaking", "joining", "stopped"}

(* While the thread runs, what was pushed is hashed, in hand or queued, in the *)
(* order of the pushes.                                                        *)
HashedInOrder == mIsRunning => pushed = hashed \o system \o mQueue

(* "Process missing hashes in the queued systems": every pushed system gets    *)
(* hashed, unless the program quits. Refuted: two pushes can share one signal,  *)
(* and Run takes one system per signal.                                        *)
EverySystemIsHashed ==
    \A s \in Systems : s \in Elements(mQueue) ~> s \notin Elements(mQueue) \/ ~mIsRunning
================================================================================
