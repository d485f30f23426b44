-------------------------------- MODULE Signal --------------------------------
(* Signal.cpp: an event made of a mutex, a condition variable and a flag.      *)
(*                                                                             *)
(* The mutex is only ever held across assignments, so each critical section is *)
(* one step; pthread_cond_wait gives the mutex up and takes it again, so the   *)
(* code around it is two steps, and cond_signal comes after the unlock.        *)
CONSTANTS
    Threads,        \* threads that fire, reset and wait
    TimedThreads    \* those that use WaitSignal(milliseconds)

ASSUME TimedAssumption == TimedThreads \subseteq Threads

VARIABLES
    mSignal,   \* the flag
    pc         \* where each thread is

vars == <<mSignal, pc>>

At(label) == {t \in Threads : pc[t] = label}

Init ==
    /\ mSignal = FALSE
    /\ pc = [t \in Threads |-> "out"]

Goto(t, label) == pc' = [pc EXCEPT ![t] = label]

(* Fire, up to the unlock. *)
Fire(t) ==
    /\ pc[t] = "out"
    /\ mSignal' = TRUE
    /\ Goto(t, "notify")

(* Mutant: nobody is woken. *)
NotifyNobody(t) ==
    /\ pc[t] = "notify"
    /\ Goto(t, "out")
    /\ UNCHANGED mSignal

(* Fire, pthread_cond_signal: wakes one of the sleepers, if there is one. *)
Notify(t) ==
    /\ pc[t] = "notify"
    /\ \/ At("asleep") = {} /\ Goto(t, "out")
       \/ \E u \in At("asleep") : pc' = [pc EXCEPT ![t] = "out", ![u] = "awake"]
    /\ UNCHANGED mSignal

Reset(t) ==
    /\ pc[t] = "out"
    /\ mSignal' = FALSE
    /\ UNCHANGED pc

Enter(t) ==
    /\ pc[t] = "out"
    /\ Goto(t, "entering")
    /\ UNCHANGED mSignal

(* Mutant: the flag stays up. *)
TakeKeepsSignal(t) ==
    /\ pc[t] \in {"entering", "awake"}
    /\ mSignal
    /\ Goto(t, "signalled")
    /\ UNCHANGED mSignal

(* The loop test, with the mutex held: take the signal, or go to sleep on the  *)
(* condition variable, which gives the mutex up in the same step.              *)
Take(t) ==
    /\ pc[t] \in {"entering", "awake"}
    /\ mSignal
    /\ mSignal' = FALSE
    /\ Goto(t, "signalled")

(* Mutant: the flag is not tested before going to sleep. *)
SleepUntested(t) ==
    /\ pc[t] \in {"entering", "awake"}
    /\ Goto(t, "asleep")
    /\ UNCHANGED mSignal

Sleep(t) ==
    /\ pc[t] \in {"entering", "awake"}
    /\ ~mSignal
    /\ Goto(t, "asleep")
    /\ UNCHANGED mSignal

(* POSIX lets pthread_cond_wait return for no reason. *)
WakeSpuriously(t) ==
    /\ pc[t] = "asleep"
    /\ Goto(t, "awake")
    /\ UNCHANGED mSignal

(* The time is up: the sleeper leaves the condition variable, and still has to *)
(* take the mutex again.                                                       *)
TimeOut(t) ==
    /\ t \in TimedThreads
    /\ pc[t] = "asleep"
    /\ Goto(t, "late")
    /\ UNCHANGED mSignal

(* "break; // Timeout", then mSignal = false and return false. *)
GiveUp(t) ==
    /\ pc[t] = "late"
    /\ mSignal' = FALSE
    /\ Goto(t, "expired")

Leave(t) ==
    /\ pc[t] \in {"signalled", "expired"}
    /\ Goto(t, "out")
    /\ UNCHANGED mSignal

(* What a thread does on its own once it has entered Fire or a wait. *)
Proceed(t) == Notify(t) \/ Take(t) \/ Sleep(t) \/ GiveUp(t)

Next ==
    \E t \in Threads :
        \/ Fire(t) \/ Reset(t) \/ Enter(t) \/ Leave(t)
        \/ WakeSpuriously(t) \/ TimeOut(t) \/ Proceed(t)

Spec == Init /\ [][Next]_vars

(* A thread inside Fire or a wait that is not asleep is scheduled. *)
FairSpec == Spec /\ \A t \in Threads : WF_vars(Proceed(t))

--------------------------------------------------------------------------------
Labels == {"out", "notify", "entering", "asleep", "awake", "late", "signalled", "expired"}

(* The flag is a flag, and an untimed wait never gives up. *)
TypeOK ==
    /\ mSignal \in BOOLEAN
    /\ pc \in [Threads -> Labels]
    /\ \A t \in Threads \ TimedThreads : pc[t] \notin {"late", "expired"}

(* No lost wakeup: as long as the flag is up and someone sleeps, a thread that *)
(* will notify or that will test the flag again is on its way.                 *)
NoLostWakeup ==
    mSignal /\ At("asleep") # {} => At("notify") \cup At("awake") \cup At("entering") # {}

(* A raised flag does not stay up while somebody waits: it is used up. *)
SignalIsUsed == mSignal /\ At("asleep") # {} ~> ~mSignal

--------------------------------------------------------------------------------
(* How far along a thread is, as a user of the event sees it. *)
Abstract(label) ==
    CASE label \in {"out", "notify"} -> "out"
      [] label \in {"entering", "asleep", "awake", "late"} -> "waiting"
      [] OTHER -> label

E == INSTANCE AutoResetEvent WITH
        flag  <- mSignal,
        state <- [t \in Threads |-> Abstract(pc[t])]

(* Signal is an auto-reset event: whatever the interleaving of the lines of    *)
(* Signal.cpp, each wait that succeeds has used up one signal of its own, and   *)
(* nobody but a timed wait gives up.                                            *)
EventSpec == E!Spec
================================================================================
