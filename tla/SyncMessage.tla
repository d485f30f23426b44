------------------------------ MODULE SyncMessage ------------------------------
(* SyncMessageFactory and SyncMessageSender<T>: any thread posts messages that *)
(* the main loop dispatches to their receivers.                                *)
(*                                                                             *)
(* Every critical section of mAvailableLocker and mPendingLocker contains no   *)
(* other blocking call, so each is one step.  mRegisterLocker is held while    *)
(* the handlers of a whole batch run, so its ownership is part of the state;   *)
(* it is recursive (Mutex.cpp), so a handler may construct and destroy senders. *)
EXTENDS Integers, Sequences, FiniteSets

CONSTANTS
    Senders,            \* SyncMessageSender objects, each constructed at most once
    Receivers,          \* ISyncMessageReceiver objects
    ReceiverOf,         \* the receiver each sender is constructed with
    Threads,            \* threads that construct, destroy and use senders
    Main,               \* the thread that runs the main loop
    Messages,           \* bound: message objects the heap can hold
    MaxSends,           \* bound: Send calls of one thread
    NoReceiver,         \* nullptr in mIdentifierToReceivers
    NoMessage,          \* no message in a thread's hand
    DrainBeforeDestroy  \* does the program destroy a sender only when nothing
                        \* sent through it is still queued?

ASSUME MainAssumption == Main \in Threads
ASSUME ReceiverAssumption ==
    ReceiverOf \in [Senders -> Receivers] /\ NoReceiver \notin Receivers
ASSUME MessageAssumption == NoMessage \notin Messages
ASSUME BoundAssumption == MaxSends \in Nat
ASSUME DrainAssumption == DrainBeforeDestroy \in BOOLEAN

(* User data, labelled with the Send call that wrote it. *)
Payloads == [via: Senders, by: Threads, no: 1 .. MaxSends]
NoPayload == [via |-> {}, by |-> {}, no |-> 0]

VARIABLES
    slots,        \* mIdentifierToReceivers
    status,       \* lifetime of each sender object
    identifier,   \* mMessageIdentifier of each sender (an index of slots)
    available,    \* mAvailableMessages; the order of a free list is immaterial
    allocated,    \* message objects created with new so far
    pending,      \* mPendingMessages
    routing,      \* mIdentifier of each message
    body,         \* mBody of each message
    pc,           \* where each thread is in Send
    hand,         \* the message each thread holds in Send
    sent,         \* Send calls started by each thread
    mainPc,       \* where the main loop is in DispatchMessage
    batch,        \* the local list of DispatchMessage
    cursor,       \* how many messages of the batch are done with
    receiver,     \* the local receiver of DispatchMessage
    received      \* every handler call so far, oldest first

registry == <<slots, status, identifier>>
pool     == <<available, allocated>>
content  == <<routing, body>>
threads  == <<pc, hand, sent>>
dispatch == <<mainPc, batch, cursor, receiver>>
vars     == <<registry, pool, pending, content, threads, dispatch, received>>

Elements(q) == {q[i] : i \in 1 .. Len(q)}

Init ==
    /\ slots = <<>>
    /\ status = [s \in Senders |-> "unborn"]
    /\ identifier = [s \in Senders |-> 0]
    /\ available = {}
    /\ allocated = {}
    /\ pending = <<>>
    /\ routing = [m \in Messages |-> 0]
    /\ body = [m \in Messages |-> NoPayload]
    /\ pc = [t \in Threads |-> "idle"]
    /\ hand = [t \in Threads |-> NoMessage]
    /\ sent = [t \in Threads |-> 0]
    /\ mainPc = "idle"
    /\ batch = <<>>
    /\ cursor = 0
    /\ receiver = NoReceiver
    /\ received = <<>>

--------------------------------------------------------------------------------
(* Threads. The main thread runs code of its own between two dispatches and    *)
(* inside a handler.                                                           *)

Free(t) == pc[t] = "idle" /\ (t = Main => mainPc \in {"idle", "handling"})

(* Mutant: the register is not locked while a batch is dispatched. *)
CanLockRegisterAlways(t) == TRUE

(* mRegisterLocker is free, or this thread holds it already. *)
CanLockRegister(t) == mainPc \in {"dispatching", "calling", "handling"} => t = Main

EmptySlots == {i \in 1 .. Len(slots) : slots[i] = NoReceiver}

(* SyncMessageSenderBase(receiver): Register takes the last empty slot, or a   *)
(* new one.                                                                    *)
Construct(t, s) ==
    /\ Free(t) /\ CanLockRegister(t)
    /\ status[s] = "unborn"
    /\ status' = [status EXCEPT ![s] = "alive"]
    /\ \/ /\ EmptySlots = {}
          /\ slots' = Append(slots, ReceiverOf[s])
          /\ identifier' = [identifier EXCEPT ![s] = Len(slots) + 1]
       \/ \E i \in EmptySlots :
            /\ \A j \in EmptySlots : j <= i
            /\ slots' = [slots EXCEPT ![i] = ReceiverOf[s]]
            /\ identifier' = [identifier EXCEPT ![s] = i]
    /\ UNCHANGED <<pool, pending, content, threads, dispatch, received>>

(* Messages queued and not yet handed over. *)
Undelivered == {batch[i] : i \in cursor + 1 .. Len(batch)} \cup Elements(pending)

SendingThrough(s) == \E t \in Threads : pc[t] # "idle" /\ body[hand[t]].via = s

Drained(s) == \A m \in Undelivered : body[m].via # s

(* ~SyncMessageSenderBase: Unregister clears the slot. No Send is under way     *)
(* through an object that is being destroyed.                                  *)
Destroy(t, s) ==
    /\ Free(t) /\ CanLockRegister(t)
    /\ status[s] = "alive" /\ ~SendingThrough(s)
    /\ DrainBeforeDestroy => Drained(s)
    /\ status' = [status EXCEPT ![s] = "dead"]
    /\ slots' = [slots EXCEPT ![identifier[s]] = NoReceiver]
    /\ UNCHANGED <<identifier, pool, pending, content, threads, dispatch, received>>

(* Mutant: the message obtained stays in the free list. *)
ObtainPeeks(t, s) ==
    /\ Free(t)
    /\ status[s] = "alive"
    /\ sent[t] < MaxSends
    /\ \E m \in IF available # {} THEN available ELSE Messages \ allocated :
         /\ allocated' = allocated \cup {m}
         /\ hand' = [hand EXCEPT ![t] = m]
         /\ body' = [body EXCEPT ![m] = [via |-> s, by |-> t, no |-> sent[t] + 1]]
    /\ sent' = [sent EXCEPT ![t] = @ + 1]
    /\ pc' = [pc EXCEPT ![t] = "obtained"]
    /\ UNCHANGED <<registry, available, pending, routing, dispatch, received>>

(* Send, first step: Obtain a message under mAvailableLocker, or a new one,    *)
(* and write the user data into it.                                            *)
Obtain(t, s) ==
    /\ Free(t)
    /\ status[s] = "alive"
    /\ sent[t] < MaxSends
    /\ \E m \in IF available # {} THEN available ELSE Messages \ allocated :
         /\ available' = available \ {m}
         /\ allocated' = allocated \cup {m}
         /\ hand' = [hand EXCEPT ![t] = m]
         /\ body' = [body EXCEPT ![m] = [via |-> s, by |-> t, no |-> sent[t] + 1]]
    /\ sent' = [sent EXCEPT ![t] = @ + 1]
    /\ pc' = [pc EXCEPT ![t] = "obtained"]
    /\ UNCHANGED <<registry, pending, routing, dispatch, received>>

(* Push, first critical section: a recycled message is not sent again. *)
CheckRecycled(t) ==
    /\ pc[t] = "obtained"
    /\ IF hand[t] \in available
       THEN /\ pc' = [pc EXCEPT ![t] = "idle"]
            /\ hand' = [hand EXCEPT ![t] = NoMessage]
       ELSE /\ pc' = [pc EXCEPT ![t] = "checked"]
            /\ UNCHANGED hand
    /\ UNCHANGED <<registry, pool, pending, content, sent, dispatch, received>>

(* Mutant: the identifier is only set the first time a message object is used. *)
PushKeepsIdentifier(t) ==
    /\ pc[t] = "checked"
    /\ routing' = [routing EXCEPT ![hand[t]] =
                     IF @ = 0 THEN identifier[body[hand[t]].via] ELSE @]
    /\ pending' = Append(pending, hand[t])
    /\ pc' = [pc EXCEPT ![t] = "idle"]
    /\ hand' = [hand EXCEPT ![t] = NoMessage]
    /\ UNCHANGED <<registry, pool, body, sent, dispatch, received>>

(* Mutant: the message is queued at the wrong end. *)
PushAtFront(t) ==
    /\ pc[t] = "checked"
    /\ routing' = [routing EXCEPT ![hand[t]] = identifier[body[hand[t]].via]]
    /\ pending' = <<hand[t]>> \o pending
    /\ pc' = [pc EXCEPT ![t] = "idle"]
    /\ hand' = [hand EXCEPT ![t] = NoMessage]
    /\ UNCHANGED <<registry, pool, body, sent, dispatch, received>>

(* Push, second critical section: queue the message with its identifier. *)
Push(t) ==
    /\ pc[t] = "checked"
    /\ IF hand[t] \in Elements(pending)
       THEN UNCHANGED <<pending, routing>>
       ELSE /\ routing' = [routing EXCEPT ![hand[t]] = identifier[body[hand[t]].via]]
            /\ pending' = Append(pending, hand[t])
    /\ pc' = [pc EXCEPT ![t] = "idle"]
    /\ hand' = [hand EXCEPT ![t] = NoMessage]
    /\ UNCHANGED <<registry, pool, body, sent, dispatch, received>>

--------------------------------------------------------------------------------
(* DispatchMessage, called by every turn of the main loop. *)

(* Mutant: the queue is moved to the local list back to front. *)
TakePendingReversed ==
    /\ mainPc = "idle" /\ pc[Main] = "idle"
    /\ batch' = [i \in 1 .. Len(pending) |-> pending[Len(pending) + 1 - i]]
    /\ pending' = <<>>
    /\ mainPc' = "taken"
    /\ UNCHANGED <<registry, pool, content, threads, cursor, receiver, received>>

(* The whole queue becomes the local list, under mPendingLocker. *)
TakePending ==
    /\ mainPc = "idle" /\ pc[Main] = "idle"
    /\ batch' = pending
    /\ pending' = <<>>
    /\ mainPc' = "taken"
    /\ UNCHANGED <<registry, pool, content, threads, cursor, receiver, received>>

LockRegister ==
    /\ mainPc = "taken"
    /\ mainPc' = "dispatching"
    /\ UNCHANGED <<registry, pool, pending, content, threads, batch, cursor, receiver, received>>

(* Look the receiver of the next message up. *)
ReadSlot ==
    /\ mainPc = "dispatching"
    /\ cursor < Len(batch)
    /\ receiver' = slots[routing[batch[cursor + 1]]]
    /\ mainPc' = "calling"
    /\ UNCHANGED <<registry, pool, pending, content, threads, batch, cursor, received>>

(* Enter the handler of the receiver read. *)
Call ==
    /\ mainPc = "calling"
    /\ receiver # NoReceiver
    /\ received' = Append(received, [to |-> receiver, body |-> body[batch[cursor + 1]]])
    /\ cursor' = cursor + 1
    /\ mainPc' = "handling"
    /\ UNCHANGED <<registry, pool, pending, content, threads, batch, receiver>>

(* The sender is gone and its slot is empty: the message is dropped. *)
Skip ==
    /\ mainPc = "calling"
    /\ receiver = NoReceiver
    /\ cursor' = cursor + 1
    /\ mainPc' = "dispatching"
    /\ UNCHANGED <<registry, pool, pending, content, threads, batch, receiver, received>>

HandlerReturns ==
    /\ mainPc = "handling" /\ pc[Main] = "idle"
    /\ mainPc' = "dispatching"
    /\ UNCHANGED <<registry, pool, pending, content, threads, batch, cursor, receiver, received>>

(* Mutant: the loop over the batch ends one message early. *)
UnlockRegisterEarly ==
    /\ mainPc = "dispatching"
    /\ cursor >= Len(batch) - 1
    /\ mainPc' = "recycling"
    /\ UNCHANGED <<registry, pool, pending, content, threads, batch, cursor, receiver, received>>

UnlockRegister ==
    /\ mainPc = "dispatching"
    /\ cursor = Len(batch)
    /\ mainPc' = "recycling"
    /\ UNCHANGED <<registry, pool, pending, content, threads, batch, cursor, receiver, received>>

(* Mutant: the batch is forgotten instead of being recycled. *)
RecycleForgets ==
    /\ mainPc = "recycling"
    /\ batch' = <<>>
    /\ cursor' = 0
    /\ mainPc' = "idle"
    /\ UNCHANGED <<registry, pool, pending, content, threads, receiver, received>>

(* Mutant: the next batch starts where this one ended. *)
RecycleKeepsCursor ==
    /\ mainPc = "recycling"
    /\ available' = available \cup Elements(batch)
    /\ batch' = <<>>
    /\ mainPc' = "idle"
    /\ UNCHANGED <<registry, allocated, pending, content, threads, cursor, receiver, received>>

(* Move the batch to the free list, under mAvailableLocker. *)
Recycle ==
    /\ mainPc = "recycling"
    /\ available' = available \cup Elements(batch)
    /\ batch' = <<>>
    /\ cursor' = 0
    /\ mainPc' = "idle"
    /\ UNCHANGED <<registry, allocated, pending, content, threads, receiver, received>>

Dispatch ==
    \/ TakePending \/ LockRegister \/ ReadSlot \/ Call \/ Skip
    \/ HandlerReturns \/ UnlockRegister \/ Recycle

SendStep(t) == CheckRecycled(t) \/ Push(t)

Next ==
    \/ \E t \in Threads, s \in Senders : Construct(t, s) \/ Destroy(t, s) \/ Obtain(t, s)
    \/ \E t \in Threads : SendStep(t)
    \/ Dispatch

Spec == Init /\ [][Next]_vars

(* The main loop dispatches in every turn, handlers return, and a thread that  *)
(* entered Send is scheduled until it leaves it.                               *)
Fairness == WF_vars(Dispatch) /\ \A t \in Threads : WF_vars(SendStep(t))

FairSpec == Spec /\ Fairness

--------------------------------------------------------------------------------
(* Identifiers, queues and places have their types; the cursor of DispatchMessage *)
(* stays inside its batch.                                                      *)
TypeOK ==
    /\ slots \in Seq(Receivers \cup {NoReceiver})
    /\ status \in [Senders -> {"unborn", "alive", "dead"}]
    /\ identifier \in [Senders -> Nat]
    /\ available \subseteq Messages
    /\ allocated \subseteq Messages
    /\ pending \in Seq(Messages)
    /\ routing \in [Messages -> Nat]
    /\ body \in [Messages -> Payloads \cup {NoPayload}]
    /\ pc \in [Threads -> {"idle", "obtained", "checked"}]
    /\ hand \in [Threads -> Messages \cup {NoMessage}]
    /\ sent \in [Threads -> Nat]
    /\ mainPc \in {"idle", "taken", "dispatching", "calling", "handling", "recycling"}
    /\ batch \in Seq(Messages)
    /\ cursor \in 0 .. Len(batch)
    /\ receiver \in Receivers \cup {NoReceiver}
    /\ received \in Seq([to: Receivers, body: Payloads])

--------------------------------------------------------------------------------
(* Safety *)

Distinct(q) == \A i, j \in 1 .. Len(q) : q[i] = q[j] => i = j

Holding(t) == IF pc[t] = "idle" THEN {} ELSE {hand[t]}

(* A message object is in exactly one place: the free list, one thread's hand, *)
(* the pending queue or the batch. If it were in two, a Send would overwrite   *)
(* data that is still on its way to a receiver.                                *)
OneOwner ==
    /\ Distinct(pending) /\ Distinct(batch)
    /\ Elements(pending) \cap Elements(batch) = {}
    /\ available \cap (Elements(pending) \cup Elements(batch)) = {}
    /\ \A t \in Threads :
         Holding(t) \cap (available \cup Elements(pending) \cup Elements(batch)) = {}
    /\ \A t, u \in Threads : t # u => Holding(t) \cap Holding(u) = {}

(* No message object leaks: each one ever created is in one of those places. *)
NoLeak ==
    allocated = available \cup Elements(pending) \cup Elements(batch)
                  \cup UNION {Holding(t) : t \in Threads}

(* Senders alive at the same time never share an identifier, and each one's    *)
(* slot holds its own receiver.                                                *)
SlotsMatch ==
    \A s \in Senders : status[s] = "alive" =>
        /\ identifier[s] \in 1 .. Len(slots)
        /\ slots[identifier[s]] = ReceiverOf[s]
        /\ \A u \in Senders \ {s} : status[u] = "alive" => identifier[u] # identifier[s]

(* What one thread sends is handled in the order it was sent and never twice,  *)
(* whatever senders it used (test_messaging.cpp checks it for one sender).     *)
ThreadOrder ==
    \A i, j \in 1 .. Len(received) :
        i < j /\ received[i].body.by = received[j].body.by
            => received[i].body.no < received[j].body.no

(* A handler only gets what was sent to its own receiver ("Receiver that will  *)
(* receive all message sent through this sender").                             *)
RightReceiver ==
    \A i \in 1 .. Len(received) : received[i].to = ReceiverOf[received[i].body.via]

(* A handler is only entered while some sender to its receiver is alive: once  *)
(* the last one is destroyed, by any thread, no call is begun any more.        *)
NoCallAfterUnregister ==
    [][Call => \E s \in Senders : status[s] = "alive" /\ ReceiverOf[s] = receiver]_vars

--------------------------------------------------------------------------------
(* Liveness *)

Handled(t, n) ==
    \E i \in 1 .. Len(received) : received[i].body.by = t /\ received[i].body.no = n

(* Every Send is eventually handled, under DrainBeforeDestroy.                 *)
EventuallyHandled ==
    \A t \in Threads : \A n \in 1 .. MaxSends : (sent[t] >= n) ~> Handled(t, n)

--------------------------------------------------------------------------------
(* Refinement *)

(* The undelivered messages, oldest first. *)
InFlight == SubSeq(batch, cursor + 1, Len(batch)) \o pending

M == INSTANCE Mailbox WITH
        MaxPosts <- MaxSends,
        posted   <- [t \in Threads |-> IF pc[t] = "idle" THEN sent[t] ELSE sent[t] - 1],
        open     <- {s \in Senders : status[s] = "alive"},
        inFlight <- [i \in 1 .. Len(InFlight) |-> body[InFlight[i]]]

(* Under DrainBeforeDestroy the factory is a mailbox: exactly-once, in order,  *)
(* to the right receiver.                                                      *)
MailboxSpec == M!Spec
================================================================================
