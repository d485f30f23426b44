------------------------------ MODULE MainRunner ------------------------------
(* MainRunner::Run with the two threads its exit sequence has to outlive: the  *)
(* hasher, which SystemManager stops before it deletes the systems, and the    *)
(* notification thread, which is waited for and destroyed after that. The main *)
(* thread is in one call at a time, so caller and main move in turn.           *)
EXTENDS NotificationManager

CONSTANT Systems    \* bound: systems pushed to the hasher

VARIABLES
    hasherQueue, hasherSignal, hasherRunning, hasherPc, system,  \* the hasher
    caller,                                                      \* the calls to it
    pushed, hashed                                               \* its history

hasher == <<hasherQueue, hasherSignal, hasherRunning, hasherPc, system, caller, pushed, hashed>>
all    == <<vars, hasher>>

H == INSTANCE SystemHasher WITH
        mQueue <- hasherQueue, mSignal <- hasherSignal, mIsRunning <- hasherRunning,
        pc <- hasherPc

(* The loaded systems are pushed to the hasher while the main loop runs. *)
PushSystem ==
    /\ main = "running"
    /\ \E s \in Systems : H!Push(s)
    /\ UNCHANGED vars

SendNotification ==
    /\ main = "running" => caller = "idle"
    /\ \E n \in Notices : Notify(n)
    /\ UNCHANGED hasher

(* Mutant: the systems are deleted without waiting for the hasher. *)
DeleteSystemsAtOnce ==
    /\ caller \in {"joining", "stopped"}
    /\ DeleteAllSystems
    /\ UNCHANGED hasher

(* SystemManager::DeleteAllSystems stops the hasher, and then deletes them.     *)
QuitHasher == H!MustQuit /\ UNCHANGED vars

DeleteSystems ==
    /\ caller = "stopped"
    /\ DeleteAllSystems
    /\ UNCHANGED hasher

InHasher     == H!CallerStep /\ UNCHANGED vars
HasherThread == H!HasherStep /\ UNCHANGED vars
Waiting      == MainStep /\ UNCHANGED hasher
Publishing   == RunStep /\ UNCHANGED hasher

RunInit == Init /\ H!Init

RunNext ==
    \/ PushSystem \/ SendNotification \/ QuitHasher \/ DeleteSystems
    \/ InHasher \/ HasherThread \/ Waiting \/ Publishing

RunSpec == RunInit /\ [][RunNext]_all

(* Every thread that can run is scheduled, the idle-priority hasher too; games *)
(* get hashed, and scripts and MQTT sends end.                                 *)
FairRunSpec ==
    /\ RunSpec
    /\ WF_all(InHasher) /\ WF_all(DeleteSystems) /\ WF_all(Waiting)
    /\ WF_all(HasherThread) /\ WF_all(Publishing)

--------------------------------------------------------------------------------

(* No game is hashed any more once the systems are being deleted.              *)
NoHashOfDeletedSystem == hasherPc = "hashing" => systemsExist

(* While the hasher runs, what was pushed is hashed, in hand or queued, in the *)
(* order of the pushes.                                                        *)
HashedInOrder == H!HashedInOrder

(* The exit sequence gets through: once it stops the hasher it goes on to      *)
(* destroy the notification manager, whatever is queued in both.               *)
ExitCompletes == caller = "breaking" ~> main = "destroyed"
================================================================================
