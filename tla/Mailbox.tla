-------------------------------- MODULE Mailbox --------------------------------
(* What the message factory promises the program: everything posted through an *)
(* open sender is handed to the receiver of that sender exactly once, in the   *)
(* order in which it was posted, by one dispatcher.                            *)
EXTENDS Integers, Sequences

CONSTANTS
    Senders,     \* sender objects
    Receivers,   \* receiver objects
    Threads,     \* threads that may post
    ReceiverOf,  \* the receiver a sender is constructed with
    MaxPosts     \* bound: posts of one thread

VARIABLES
    open,        \* senders that are open
    posted,      \* how much each thread posted
    inFlight,    \* payloads posted and not yet handed over, oldest first
    received     \* what was handed over, oldest first

vars == <<open, posted, inFlight, received>>

Init ==
    /\ open = {}
    /\ posted = [t \in Threads |-> 0]
    /\ inFlight = <<>>
    /\ received = <<>>

Open(s) ==
    /\ s \notin open
    /\ open' = open \cup {s}
    /\ UNCHANGED <<posted, inFlight, received>>

(* A sender is closed once everything posted through it was handed over. *)
Close(s) ==
    /\ s \in open
    /\ \A i \in 1 .. Len(inFlight) : inFlight[i].via # s
    /\ open' = open \ {s}
    /\ UNCHANGED <<posted, inFlight, received>>

(* The n-th thing a thread posts is labelled n. *)
Post(t, s) ==
    /\ s \in open
    /\ posted[t] < MaxPosts
    /\ posted' = [posted EXCEPT ![t] = @ + 1]
    /\ inFlight' = Append(inFlight, [via |-> s, by |-> t, no |-> posted'[t]])
    /\ UNCHANGED <<open, received>>

Deliver ==
    /\ inFlight # <<>>
    /\ inFlight' = Tail(inFlight)
    /\ received' = Append(received, [to   |-> ReceiverOf[Head(inFlight).via],
                                     body |-> Head(inFlight)])
    /\ UNCHANGED <<open, posted>>

Next ==
    \/ \E s \in Senders : Open(s) \/ Close(s)
    \/ \E t \in Threads, s \in Senders : Post(t, s)
    \/ Deliver

Spec == Init /\ [][Next]_vars
================================================================================
