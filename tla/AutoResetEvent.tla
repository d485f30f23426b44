---------------------------- MODULE AutoResetEvent ----------------------------
(* What Signal promises its users: a flag that Fire raises and that Reset      *)
(* lowers; a wait reports success once for each signal it uses up. Only a      *)
(* timed wait gives up, and it lowers the flag whether it was raised or not.   *)
CONSTANTS
    Threads,
    TimedThreads    \* those that wait with a timeout

VARIABLES
    flag,    \* is the event raised?
    state    \* what each thread is doing with the event

vars == <<flag, state>>

Init ==
    /\ flag = FALSE
    /\ state = [t \in Threads |-> "out"]

Fire ==
    /\ flag' = TRUE
    /\ UNCHANGED state

Reset ==
    /\ flag' = FALSE
    /\ UNCHANGED state

Enter(t) ==
    /\ state[t] = "out"
    /\ state' = [state EXCEPT ![t] = "waiting"]
    /\ UNCHANGED flag

(* The wait succeeds and uses the signal up. *)
Succeed(t) ==
    /\ state[t] = "waiting"
    /\ flag
    /\ flag' = FALSE
    /\ state' = [state EXCEPT ![t] = "signalled"]

(* A timed wait gives up: a signal that comes at the same moment is forgotten. *)
Expire(t) ==
    /\ t \in TimedThreads
    /\ state[t] = "waiting"
    /\ flag' = FALSE
    /\ state' = [state EXCEPT ![t] = "expired"]

Leave(t) ==
    /\ state[t] \in {"signalled", "expired"}
    /\ state' = [state EXCEPT ![t] = "out"]
    /\ UNCHANGED flag

Next ==
    \/ Fire \/ Reset
    \/ \E t \in Threads : Enter(t) \/ Succeed(t) \/ Expire(t) \/ Leave(t)

Spec == Init /\ [][Next]_vars
================================================================================
