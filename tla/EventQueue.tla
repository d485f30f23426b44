------------------------------- MODULE EventQueue -------------------------------
(* The main thread between two handlers, and the messages that other threads   *)
(* post to it. It implements Mailbox: SyncMessage is the detailed model.       *)
EXTENDS Integers, Sequences

CONSTANT Games          \* the games, in the list and for the scraper

VARIABLES
    main,               \* "loop", or where the main thread is in a handler or a call
    posted,             \* messages not handled yet, oldest first, each with its receiver
    mCurrentViewType    \* "SystemList" or "GameList"

Post(message) == posted' = Append(posted, message)

(* The main loop takes the oldest message; its receiver is component "to". *)
Receive(to) ==
    /\ main = "loop" /\ posted # <<>> /\ Head(posted).to = to
    /\ posted' = Tail(posted)
================================================================================
