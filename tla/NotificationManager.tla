-------------------------- MODULE NotificationManager --------------------------
(* NotificationManager: notifications are queued by the program and published  *)
(* one by one by the "EventNotifier" thread; and how MainRunner::Run ends: it  *)
(* deletes the systems, sends the last notification, waits for the queue and   *)
(* destroys the manager.  The signal is an auto-reset event (see Signal).      *)
EXTENDS Integers, Sequences

CONSTANTS
    Notices,       \* what a notification may say
    GameNotices,   \* those that point to a SystemData or a FileData
    NoNotice,      \* the default-constructed NotificationRequest, or no request
    MaxNotices     \* bound: how many are sent

ASSUME NoticeAssumption == GameNotices \subseteq Notices /\ NoNotice \notin Notices
ASSUME BoundAssumption == MaxNotices \in Nat

VARIABLES
    mRequestQueue,     \* requests to publish, oldest first
    mSignal,           \* the flag of the signal
    mIsRunning,        \* Thread::mIsRunning
    mProcessing,       \* "processing" flag, read by WaitCompletion without lock
    mPreviousRequest,  \* the last request published
    pc,                \* where the thread is in Run
    request,           \* its local request
    main,              \* where MainRunner::Run is
    havePendings,      \* the local variable of WaitCompletion
    systemsExist,      \* are the systems and games still allocated?
    sent,              \* history: every notification sent
    published          \* history: every event published

thread == <<mProcessing, mPreviousRequest, pc, request>>
runner == <<main, havePendings, systemsExist>>
vars   == <<mRequestQueue, mSignal, mIsRunning, thread, runner, sent, published>>

Init ==
    /\ mRequestQueue = <<>> /\ mSignal = FALSE /\ mIsRunning = TRUE
    /\ mProcessing = FALSE /\ mPreviousRequest = NoNotice
    /\ pc = "testing" /\ request = NoNotice
    /\ main = "running" /\ havePendings = FALSE /\ systemsExist = TRUE
    /\ sent = <<>> /\ published = <<>>

--------------------------------------------------------------------------------
(* The program *)

(* Mutant: the thread is not signalled. *)
NotifySilent(n) ==
    /\ main \in {"running", "deleted"}
    /\ main = "deleted" => n \notin GameNotices
    /\ Len(sent) < MaxNotices
    /\ mRequestQueue' = Append(mRequestQueue, n)
    /\ sent' = Append(sent, n)
    /\ UNCHANGED <<mSignal, mIsRunning, thread, runner, published>>

(* Notify: the request is queued and the signal fired under mSyncer. After the *)
(* systems are deleted only notifications without a game are sent.             *)
Notify(n) ==
    /\ main \in {"running", "deleted"}
    /\ main = "deleted" => n \notin GameNotices
    /\ Len(sent) < MaxNotices
    /\ mRequestQueue' = Append(mRequestQueue, n)
    /\ mSignal' = TRUE
    /\ sent' = Append(sent, n)
    /\ UNCHANGED <<mIsRunning, thread, runner, published>>

(* SystemManager::DeleteAllSystems, once the main loop has ended. *)
DeleteAllSystems ==
    /\ main = "running"
    /\ main' = "deleted"
    /\ systemsExist' = FALSE
    /\ UNCHANGED <<mRequestQueue, mSignal, mIsRunning, thread, havePendings, sent, published>>

(* WaitCompletion reads the queue under mSyncer... *)
ReadQueue ==
    /\ main \in {"deleted", "waiting"}
    /\ havePendings' = (mRequestQueue # <<>>)
    /\ main' = "checking"
    /\ UNCHANGED <<mRequestQueue, mSignal, mIsRunning, thread, systemsExist, sent, published>>

(* ... and then the flag without it; otherwise it sleeps and starts over. *)
ReadProcessing ==
    /\ main = "checking"
    /\ main' = IF ~havePendings /\ ~mProcessing THEN "completed" ELSE "waiting"
    /\ UNCHANGED <<mRequestQueue, mSignal, mIsRunning, thread, havePendings, systemsExist,
                   sent, published>>

(* The destructor: Thread::Stop, Break, join. *)
Stop ==
    /\ main = "completed"
    /\ mIsRunning' = FALSE
    /\ main' = "breaking"
    /\ UNCHANGED <<mRequestQueue, mSignal, thread, havePendings, systemsExist, sent, published>>

Break ==
    /\ main = "breaking"
    /\ mSignal' = TRUE
    /\ main' = "joining"
    /\ UNCHANGED <<mRequestQueue, mIsRunning, thread, havePendings, systemsExist, sent, published>>

Join ==
    /\ main = "joining" /\ pc = "ended"
    /\ main' = "destroyed"
    /\ UNCHANGED <<mRequestQueue, mSignal, mIsRunning, thread, havePendings, systemsExist,
                   sent, published>>

--------------------------------------------------------------------------------
(* Run *)

Goto(label) == pc' = label

(* The outer and the inner while(IsRunning()). *)
TestOuter ==
    /\ pc = "testing"
    /\ Goto(IF mIsRunning THEN "waiting" ELSE "ended")
    /\ UNCHANGED <<mRequestQueue, mSignal, mIsRunning, mProcessing, mPreviousRequest, request,
                   runner, sent, published>>

TestInner ==
    /\ pc = "looping"
    /\ Goto(IF mIsRunning THEN "popping" ELSE "clearing")
    /\ UNCHANGED <<mRequestQueue, mSignal, mIsRunning, mProcessing, mPreviousRequest, request,
                   runner, sent, published>>

WaitSignal ==
    /\ pc = "waiting" /\ mSignal
    /\ mSignal' = FALSE
    /\ Goto("looping")
    /\ UNCHANGED <<mRequestQueue, mIsRunning, mProcessing, mPreviousRequest, request,
                   runner, sent, published>>

Pop ==
    /\ pc = "popping"
    /\ \/ /\ mRequestQueue # <<>>
          /\ request' = Head(mRequestQueue) /\ mRequestQueue' = Tail(mRequestQueue)
          /\ Goto("marking")
       \/ /\ mRequestQueue = <<>>
          /\ Goto("clearing")
          /\ UNCHANGED <<request, mRequestQueue>>
    /\ UNCHANGED <<mSignal, mIsRunning, mProcessing, mPreviousRequest, runner, sent, published>>

(* Another critical section raises the flag. *)
Mark ==
    /\ pc = "marking"
    /\ mProcessing' = TRUE
    /\ Goto("processing")
    /\ UNCHANGED <<mRequestQueue, mSignal, mIsRunning, mPreviousRequest, request, runner,
                   sent, published>>

(* Mutant: the request published is not remembered. *)
ProcessForgets ==
    /\ pc = "processing"
    /\ published' = IF request = mPreviousRequest THEN published ELSE Append(published, request)
    /\ request' = NoNotice
    /\ Goto("looping")
    /\ UNCHANGED <<mRequestQueue, mSignal, mIsRunning, mProcessing, mPreviousRequest, runner, sent>>

(* Publish the state file, the MQTT events and the scripts, unless the request *)
(* is the same as the one before.                                              *)
Process ==
    /\ pc = "processing"
    /\ published' = IF request = mPreviousRequest THEN published ELSE Append(published, request)
    /\ mPreviousRequest' = request
    /\ request' = NoNotice
    /\ Goto("looping")
    /\ UNCHANGED <<mRequestQueue, mSignal, mIsRunning, mProcessing, runner, sent>>

(* Mutant: the flag stays up. *)
ClearNothing ==
    /\ pc = "clearing"
    /\ Goto("testing")
    /\ UNCHANGED <<mRequestQueue, mSignal, mIsRunning, mProcessing, mPreviousRequest, request,
                   runner, sent, published>>

Clear ==
    /\ pc = "clearing"
    /\ mProcessing' = FALSE
    /\ Goto("testing")
    /\ UNCHANGED <<mRequestQueue, mSignal, mIsRunning, mPreviousRequest, request, runner,
                   sent, published>>

RunStep == TestOuter \/ TestInner \/ WaitSignal \/ Pop \/ Mark \/ Process \/ Clear
MainStep == ReadQueue \/ ReadProcessing \/ Stop \/ Break \/ Join

Next == (\E n \in Notices : Notify(n)) \/ DeleteAllSystems \/ MainStep \/ RunStep

Spec == Init /\ [][Next]_vars

--------------------------------------------------------------------------------
(* The places of both threads, and the thread only publishes real requests.     *)
TypeOK ==
    /\ mRequestQueue \in Seq(Notices) /\ sent \in Seq(Notices) /\ published \in Seq(Notices)
    /\ mSignal \in BOOLEAN /\ mIsRunning \in BOOLEAN /\ mProcessing \in BOOLEAN
    /\ mPreviousRequest \in Notices \cup {NoNotice} /\ request \in Notices \cup {NoNotice}
    /\ pc \in {"testing", "waiting", "looping", "popping", "marking", "processing",
               "clearing", "ended"}
    /\ main \in {"running", "deleted", "waiting", "checking", "completed", "breaking",
                 "joining", "destroyed"}
    /\ havePendings \in BOOLEAN /\ systemsExist \in BOOLEAN

InHand == IF request = NoNotice THEN 0 ELSE 1

Taken == SubSeq(sent, 1, Len(sent) - Len(mRequestQueue) - InHand)

(* The places of a sequence that do not repeat the place before them. *)
Changes(q) == {i \in 1 .. Len(q) : i > 1 => q[i] # q[i - 1]}

(* p is q, in its order, without its immediate repeats. *)
WithoutRepeats(p, q) ==
    \E place \in [1 .. Len(p) -> Changes(q)] :
        /\ \A k \in 1 .. Len(p) : p[k] = q[place[k]]
        /\ \A j, k \in 1 .. Len(p) : j < k => place[j] < place[k]
        /\ Changes(q) = {place[k] : k \in 1 .. Len(p)}

(* The world sees exactly what was sent, in order, less immediate repeats. *)
PublishedInOrder == WithoutRepeats(published, Taken)

(* No notification is stuck in the queue while the thread runs. *)
QueueDrains == mRequestQueue # <<>> ~> mRequestQueue = <<>> \/ ~mIsRunning

(* "Wait for all notifications to be processed": when WaitCompletion returns,  *)
(* none is in the thread's hand either. Refuted: a request is out of the queue *)
(* before mProcessing is raised.                                               *)
AllProcessedAfterWait == main = "completed" => request = NoNotice

(* "... before main objects are destroyed": no request is processed when the   *)
(* system or game it points to is already deleted. Refuted: the systems are    *)
(* deleted before WaitCompletion is called.                                    *)
RequestsPointToLiveSystems ==
    pc = "processing" /\ request \in GameNotices => systemsExist
================================================================================
